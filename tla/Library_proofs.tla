------------------------------ MODULE Library_proofs ---------------------------
(***************************************************************************)
(* The functions of CEL programs, for all that they may be asked.          *)
(***************************************************************************)
EXTENDS Library, FiniteSetTheorems, SequenceTheorems, TLAPS

-----------------------------------------------------------------------------
(* Maps: keys of two kinds are the same if the kinds can be compared.      *)

Comparable(a, b) ==
    a = b \/ {a, b} \subseteq {"int32", "int64", "uint32", "uint64"}

(* An entry that another map has as well.                                  *)
Agrees(a, b, k) ==
    /\ Comparable(a.kind, b.kind)
    /\ k \in DOMAIN b.entries
    /\ b.entries[k] = a.entries[k]

LEMMA NativeKeys ==
    ASSUME P!ProtoMapAssumption
    PROVE  /\ P!NativeKey("int32") \subseteq {n \in Int : n <= IntMax}
           /\ P!NativeKey("int64") \subseteq {n \in Int : n <= IntMax}
           /\ P!NativeKey("uint32") \subseteq Nat
           /\ P!NativeKey("uint64") \subseteq Nat
           /\ \A a \in P!Kind : P!NativeKey(a) \subseteq Int
BY DEF P!ProtoMapAssumption, P!NativeKey, P!Kind, P!UintMax, P!IntMin

LEMMA SameKey ==
    ASSUME P!ProtoMapAssumption, NEW a \in P!Kind, NEW b \in P!Kind,
           NEW k \in P!NativeKey(a), NEW l \in P!NativeKey(b)
    PROVE  P!Same(P!ToCelKey(a, k), P!ToCelKey(b, l)) <=> Comparable(a, b) /\ k = l
<1>1. k \in Int /\ l \in Int
  BY NativeKeys
<1>2. 2 * k = 2 * l <=> k = l
  BY <1>1
<1> QED  BY <1>2 DEF P!Same, P!ToCelKey, P!Numeric, P!Worth, P!Kind, Comparable

LEMMA FindKey ==
    ASSUME P!ProtoMapAssumption, NEW b, P!IsMap(b),
           NEW a \in P!Kind, NEW k \in P!NativeKey(a)
    PROVE  P!Find(b, P!ToCelKey(a, k)) =
              IF Comparable(a, b.kind) THEN {k} \cap DOMAIN b.entries ELSE {}
<1>1. PICK D, L : /\ D = DOMAIN b.entries /\ L = b.kind
                  /\ L \in P!Kind /\ D \subseteq P!NativeKey(L)
  BY DEF P!IsMap
<1>2. k \in Int /\ k \in {k}
  BY NativeKeys
<1>8. PICK celType : celType = P!ToCelKey(L, k).type
  OBVIOUS
<1>9. /\ L \in {"int32", "int64"} => celType = "int"
      /\ L \in {"uint32", "uint64"} => celType = "uint"
      /\ L \notin {"int32", "int64", "uint32", "uint64"} => celType = L
  BY <1>8, Zenon DEF P!ToCelKey
<1> DEFINE Wanted(type) == IF type = celType THEN {k} \cap D ELSE {}
<1>3. \A type : P!FindInternal(b, type, {k}) = Wanted(type)
  <2>1. \A type, n : P!ToNativeKey(L, [type |-> type, num |-> n]) =
                       IF type = celType /\ n \in P!NativeKey(L) THEN {n} ELSE {}
    <3>1. \A q : P!ToNativeKey(L, q) =
                   {n \in {q.num} : q.type = celType /\ n \in P!NativeKey(L)}
      BY <1>8 DEF P!ToNativeKey, P!ToCelKey
    <3> QED  BY <3>1
  <2>2. ASSUME NEW type PROVE P!FindInternal(b, type, {k}) = Wanted(type)
    <3>1. PICK x : x = P!ToNativeKey(L, [type |-> type, num |-> k])
      OBVIOUS
    <3>2. x = IF type = celType /\ k \in P!NativeKey(L) THEN {k} ELSE {}
      BY <2>1, <3>1
    <3>3. PICK w : w = {P!ToNativeKey(b.kind, [type |-> type, num |-> n]) : n \in {k}}
      OBVIOUS
    <3>4. w = {x}
      BY <1>1, <3>1, <3>3
    <3>5. P!FindInternal(b, type, {k}) = DOMAIN b.entries \cap UNION w
      BY <3>3 DEF P!FindInternal
    <3>6. UNION w = x
      BY <3>4
    <3>7. P!FindInternal(b, type, {k}) = x \cap D
      BY <1>1, <3>5, <3>6
    <3> QED  BY <1>1, <3>2, <3>7
  <2> QED  BY <2>2
<1>10. /\ celType = "int" <=> L \in {"int32", "int64"}
       /\ celType = "uint" <=> L \in {"uint32", "uint64"}
       /\ \A type \in {"bool", "string"} : celType = type <=> L = type
  BY <1>1, <1>9 DEF P!Kind
<1>4. \A type : P!FindInternal(b, type, {}) = {}
  BY DEF P!FindInternal
<1>5. CASE a \in {"int32", "int64"}
  <2>1. P!ToCelKey(a, k).type = "int" /\ P!ToCelKey(a, k).num = k
    BY <1>5 DEF P!ToCelKey
  <2>2. Wanted("uint") # {} => k >= 0
    BY <1>1, <1>10, NativeKeys
  <2>3. P!Coerced(b, P!ToCelKey(a, k)) = Wanted("uint")
    <3>1. P!Coerced(b, P!ToCelKey(a, k)) = P!FindInternal(b, "uint", {n \in {k} : n >= 0})
      BY <2>1 DEF P!Coerced
    <3>2. CASE k >= 0
      BY <1>3, <3>1, <3>2
    <3>3. CASE ~(k >= 0)
      BY <1>4, <2>2, <3>1, <3>3
    <3> QED  BY <3>2, <3>3
  <2>4. P!Find(b, P!ToCelKey(a, k)) = IF Wanted("int") # {} THEN Wanted("int") ELSE Wanted("uint")
    BY <1>3, <2>1, <2>3 DEF P!Find
  <2> QED  BY <1>1, <1>10, <1>5, <2>4 DEF Comparable, P!Kind
<1>6. CASE a \in {"uint32", "uint64"}
  <2>1. P!ToCelKey(a, k).type = "uint" /\ P!ToCelKey(a, k).num = k
    BY <1>6 DEF P!ToCelKey
  <2>2. Wanted("int") # {} => k <= IntMax
    BY <1>1, <1>10, NativeKeys
  <2>3. P!Coerced(b, P!ToCelKey(a, k)) = Wanted("int")
    <3>1. P!Coerced(b, P!ToCelKey(a, k)) = P!FindInternal(b, "int", {n \in {k} : n <= IntMax})
      BY <2>1 DEF P!Coerced
    <3>2. CASE k <= IntMax
      BY <1>3, <3>1, <3>2
    <3>3. CASE ~(k <= IntMax)
      BY <1>4, <2>2, <3>1, <3>3
    <3> QED  BY <3>2, <3>3
  <2>4. P!Find(b, P!ToCelKey(a, k)) = IF Wanted("uint") # {} THEN Wanted("uint") ELSE Wanted("int")
    BY <1>3, <2>1, <2>3 DEF P!Find
  <2> QED  BY <1>1, <1>10, <1>6, <2>4 DEF Comparable, P!Kind
<1>7. CASE a \in {"bool", "string"}
  <2>1. P!ToCelKey(a, k).type = a /\ P!ToCelKey(a, k).num = k
    BY <1>7 DEF P!ToCelKey
  <2>2. P!Coerced(b, P!ToCelKey(a, k)) = {}
    BY <1>7, <2>1 DEF P!Coerced
  <2>3. P!Find(b, P!ToCelKey(a, k)) = Wanted(a)
    BY <1>3, <2>1, <2>2 DEF P!Find
  <2> QED  BY <1>1, <1>10, <1>7, <2>3 DEF Comparable, P!Kind
<1> QED  BY <1>5, <1>6, <1>7 DEF P!Kind

LEMMA HeldEntries ==
    ASSUME P!ProtoMapAssumption, NEW a, NEW b, P!IsMap(a), P!IsMap(b)
    PROVE  P!Held(a, b) <=> \A k \in DOMAIN a.entries : Agrees(a, b, k)
<1>1. ASSUME NEW k \in DOMAIN a.entries
      PROVE  (\E l \in DOMAIN b.entries :
                  /\ P!Same(P!ToCelKey(a.kind, k), P!ToCelKey(b.kind, l))
                  /\ a.entries[k] = b.entries[l]) <=> Agrees(a, b, k)
  <2>1. ASSUME NEW l \in DOMAIN b.entries
        PROVE  P!Same(P!ToCelKey(a.kind, k), P!ToCelKey(b.kind, l))
                  <=> Comparable(a.kind, b.kind) /\ k = l
    BY <1>1, <2>1, SameKey DEF P!IsMap
  <2> QED  BY <2>1 DEF Agrees
<1> QED  BY <1>1 DEF P!Held

LEMMA MapSizes ==
    ASSUME NEW S
    PROVE  /\ P!IsFiniteSet(S) <=> IsFiniteSet(S)
           /\ P!Cardinality(S) = Cardinality(S)
<1>1. P!IsFiniteSet(S) <=> IsFiniteSet(S)
  BY DEF P!IsFiniteSet, IsFiniteSet
<1>2. P!Cardinality(S) = Cardinality(S)
  BY DEF P!Cardinality, Cardinality
<1> QED  BY <1>1, <1>2

(* As many keys, all of which the other has, are all the other has.        *)
LEMMA HeldBothWays ==
    ASSUME P!ProtoMapAssumption, NEW a, NEW b, P!IsMap(a), P!IsMap(b)
    PROVE  /\ P!Held(a, b) /\ P!Size(a) = P!Size(b) => P!Held(b, a)
           /\ P!Held(a, b) /\ P!Held(b, a) => P!Size(a) = P!Size(b)
<1>1. PICK S, T : S = DOMAIN a.entries /\ T = DOMAIN b.entries
  OBVIOUS
<1>2. /\ IsFiniteSet(S) /\ IsFiniteSet(T)
      /\ P!Size(a) = Cardinality(S) /\ P!Size(b) = Cardinality(T)
  BY <1>1, MapSizes DEF P!IsMap, P!Size
<1>3. /\ P!Held(a, b) <=> \A k \in S : Agrees(a, b, k)
      /\ P!Held(b, a) <=> \A k \in T : Agrees(b, a, k)
  BY <1>1, HeldEntries
<1>4. ASSUME P!Held(a, b), P!Size(a) = P!Size(b) PROVE P!Held(b, a)
  <2>1. S \subseteq T
    BY <1>1, <1>3, <1>4 DEF Agrees
  <2>2. S = T
    BY <1>2, <1>4, <2>1, FS_Subset
  <2> QED  BY <1>1, <1>3, <1>4, <2>2 DEF Agrees, Comparable
<1>5. ASSUME P!Held(a, b), P!Held(b, a) PROVE P!Size(a) = P!Size(b)
  <2>1. S = T
    BY <1>1, <1>3, <1>5 DEF Agrees
  <2> QED  BY <1>2, <2>1
<1> QED  BY <1>4, <1>5

(* What is true of maps as they are asked and compared.                    *)
MapInv ==
    /\ P!TypeOK
    /\ pc \in {"equal", "range"} => ~equal
    /\ pc = "range" =>
          /\ P!Size(m) = P!Size(other)
          /\ \A k \in DOMAIN m.entries \ todo : Agrees(m, other, k)
    /\ P!EqualSymmetric

LEMMA FewAreFound ==
    ASSUME NEW b, NEW q
    PROVE  /\ P!Find(b, q) \subseteq DOMAIN b.entries
           /\ \E i : P!Find(b, q) \subseteq {i}
<1>1. ASSUME NEW type, NEW nums, NEW i, nums \subseteq {i}
      PROVE  P!FindInternal(b, type, nums) \subseteq DOMAIN b.entries \cap {i}
  <2>1. \A n \in nums : P!ToNativeKey(b.kind, [type |-> type, num |-> n]) \subseteq {i}
    <3> SUFFICES ASSUME NEW n \in nums
                 PROVE  P!ToNativeKey(b.kind, [type |-> type, num |-> n]) \subseteq {i}
      OBVIOUS
    <3>1. PICK x : x = [type |-> type, num |-> n]
      OBVIOUS
    <3>2. P!ToNativeKey(b.kind, x) \subseteq {x.num}
      BY DEF P!ToNativeKey
    <3> QED  BY <1>1, <3>1, <3>2
  <2>2. PICK w : w = {P!ToNativeKey(b.kind, [type |-> type, num |-> n]) : n \in nums}
    OBVIOUS
  <2>3. P!FindInternal(b, type, nums) = DOMAIN b.entries \cap UNION w
    BY <2>2 DEF P!FindInternal
  <2>5. UNION w \subseteq {i}
    BY <2>1, <2>2
  <2> QED  BY <2>3, <2>5
<1>2. /\ \A v : P!DoubleToInt64Lossless(v) \subseteq {P!Int64Of(v)}
      /\ \A v : P!DoubleToUint64Lossless(v) \subseteq {P!Uint64Of(v)}
  BY DEF P!DoubleToInt64Lossless, P!DoubleToUint64Lossless
<1>3. \E i : P!Coerced(b, q) \subseteq DOMAIN b.entries \cap {i}
  <2>1. PICK ints, uints : /\ ints = P!DoubleToInt64Lossless(q.num)
                           /\ uints = P!DoubleToUint64Lossless(q.num)
    OBVIOUS
  <2>2. PICK i, j : ints \subseteq {i} /\ uints \subseteq {j}
    BY <1>2, <2>1
  <2>3. /\ P!FindInternal(b, "int", ints) \subseteq DOMAIN b.entries \cap {i}
        /\ P!FindInternal(b, "uint", uints) \subseteq DOMAIN b.entries \cap {j}
    BY <1>1, <2>2
  <2>4. /\ P!FindInternal(b, "uint", {n \in {q.num} : n >= 0})
              \subseteq DOMAIN b.entries \cap {q.num}
        /\ P!FindInternal(b, "int", {n \in {q.num} : n <= IntMax})
              \subseteq DOMAIN b.entries \cap {q.num}
    <3>1. PICK natural, small : /\ natural = {n \in {q.num} : n >= 0}
                                /\ small = {n \in {q.num} : n <= IntMax}
      OBVIOUS
    <3>2. natural \subseteq {q.num} /\ small \subseteq {q.num}
      BY <3>1
    <3>3. /\ P!FindInternal(b, "uint", natural) \subseteq DOMAIN b.entries \cap {q.num}
          /\ P!FindInternal(b, "int", small) \subseteq DOMAIN b.entries \cap {q.num}
      BY <1>1, <3>2
    <3> QED  BY <3>1, <3>3
  <2>5. \/ P!Coerced(b, q) = P!FindInternal(b, "int", ints)
        \/ P!Coerced(b, q) = P!FindInternal(b, "uint", uints)
        \/ P!Coerced(b, q) = P!FindInternal(b, "uint", {n \in {q.num} : n >= 0})
        \/ P!Coerced(b, q) = P!FindInternal(b, "int", {n \in {q.num} : n <= IntMax})
        \/ P!Coerced(b, q) = {}
    BY <2>1, Zenon DEF P!Coerced
  <2> QED  BY <2>3, <2>5, <2>4
<1>4. P!FindInternal(b, q.type, {q.num}) \subseteq DOMAIN b.entries \cap {q.num}
  BY <1>1
<1>5. \/ P!Find(b, q) = P!FindInternal(b, q.type, {q.num})
      \/ P!Find(b, q) = P!Coerced(b, q)
  BY DEF P!Find
<1>6. PICK i : P!Coerced(b, q) \subseteq DOMAIN b.entries \cap {i}
  BY <1>3
<1> QED  BY <1>4, <1>5, <1>6

LEMMA MapInit ==
    ASSUME P!ProtoMapAssumption, P!Init
    PROVE  MapInv
<1>1. P!IsMap(m) /\ P!IsMap(other) /\ key \in P!CelKey
  <2>1. CASE m \in Maps /\ key \in Keys /\ other = m
    BY <2>1 DEF P!ProtoMapAssumption
  <2>2. CASE m \in Compared /\ other \in Compared /\ key = P!ToCelKey("bool", 0)
    <3>1. P!IsMap(m) /\ P!IsMap(other)
      BY <2>2 DEF P!ProtoMapAssumption
    <3>2. P!ToCelKey("bool", 0) \in P!CelKey
      <4>1. P!ToCelKey("bool", 0) = [type |-> "bool", num |-> 0]
        BY DEF P!ToCelKey
      <4>2. P!CelNumber("bool") = {0, 1}
        BY Zenon DEF P!CelNumber
      <4> QED  BY <4>1, <4>2 DEF P!CelKey, P!KeyType
    <3> QED  BY <2>2, <3>1, <3>2
  <2> QED  BY <2>1, <2>2 DEF P!Init
<1>2. pc \in {"find", "equal"} /\ todo = {} /\ found = {} /\ equal = FALSE
      /\ platform \in Platforms
  BY DEF P!Init
<1>3. P!Cardinality({}) <= 1
  BY MapSizes, FS_EmptySet
<1> QED  BY <1>1, <1>2, <1>3 DEF MapInv, P!TypeOK, P!EqualSymmetric

LEMMA MapStep ==
    ASSUME P!ProtoMapAssumption, MapInv, P!Next
    PROVE  MapInv'
<1> USE DEF MapInv
<1>1. CASE P!FindKey
  <2>1. /\ found' = P!Find(m, key) /\ pc' = "found"
        /\ UNCHANGED <<platform, m, other, key, todo, equal>>
    BY <1>1 DEF P!FindKey
  <2>2. found' \subseteq DOMAIN m.entries /\ P!Cardinality(found') <= 1
    <3>1. PICK i : found' \subseteq {i}
      BY <2>1, FewAreFound
    <3>2. Cardinality({}) = 0 /\ Cardinality({i}) = 1
      BY FS_EmptySet, FS_Singleton
    <3>3. Cardinality(found') <= 1
      <4>1. CASE found' = {}
        BY <3>2, <4>1
      <4>2. CASE found' = {i}
        BY <3>2, <4>2
      <4> QED  BY <3>1, <4>1, <4>2
    <3> QED  BY <2>1, <3>3, FewAreFound, MapSizes
  <2> QED  BY <2>1, <2>2 DEF P!TypeOK, P!EqualSymmetric
<1>2. CASE P!Equal
  <2>1. /\ pc = "equal" /\ UNCHANGED <<platform, m, other, key, found, equal>>
        /\ P!IsMap(m) /\ P!IsMap(other)
    BY <1>2 DEF P!Equal, P!TypeOK
  <2>2. CASE P!Size(m) # P!Size(other) /\ pc' = "compared" /\ UNCHANGED todo
    <3>1. ~(P!Held(m, other) /\ P!Held(other, m))
      BY <2>1, <2>2, HeldBothWays
    <3> QED  BY <2>1, <2>2, <3>1 DEF P!TypeOK, P!EqualSymmetric, P!Held, P!IsMap
  <2>3. CASE P!Size(m) = P!Size(other) /\ pc' = "range" /\ todo' = DOMAIN m.entries
    BY <2>1, <2>3 DEF P!TypeOK, P!EqualSymmetric, P!IsMap
  <2> QED  BY <1>2, <2>2, <2>3 DEF P!Equal
<1>3. CASE P!RangeEntry
  <2>1. PICK k \in todo :
           /\ todo' = todo \ {k}
           /\ pc' = IF \E n \in P!Find(other, P!ToCelKey(m.kind, k)) :
                          other.entries[n] = m.entries[k]
                    THEN "range" ELSE "compared"
    BY <1>3 DEF P!RangeEntry
  <2>2. /\ pc = "range" /\ UNCHANGED <<platform, m, other, key, found, equal>>
        /\ P!IsMap(m) /\ P!IsMap(other) /\ k \in DOMAIN m.entries
    BY <1>3 DEF P!RangeEntry, P!TypeOK
  <2>3. (\E n \in P!Find(other, P!ToCelKey(m.kind, k)) :
            other.entries[n] = m.entries[k]) <=> Agrees(m, other, k)
    <3>1. P!Find(other, P!ToCelKey(m.kind, k)) =
             IF Comparable(m.kind, other.kind) THEN {k} \cap DOMAIN other.entries ELSE {}
      BY <2>2, FindKey DEF P!IsMap
    <3> QED  BY <3>1 DEF Agrees
  <2>4. CASE Agrees(m, other, k)
    BY <2>1, <2>2, <2>3, <2>4 DEF P!TypeOK, P!EqualSymmetric
  <2>5. CASE ~Agrees(m, other, k)
    <3>1. ~P!Held(m, other)
      BY <2>2, <2>5, HeldEntries
    <3> QED  BY <2>1, <2>2, <2>3, <2>5, <3>1 DEF P!TypeOK, P!EqualSymmetric
  <2> QED  BY <2>4, <2>5
<1>4. CASE P!RangeEnd
  <2>1. /\ pc = "range" /\ todo = {} /\ equal' = TRUE /\ pc' = "compared"
        /\ UNCHANGED <<platform, m, other, key, todo, found>>
        /\ P!IsMap(m) /\ P!IsMap(other)
    BY <1>4 DEF P!RangeEnd, P!TypeOK
  <2>2. P!Held(m, other)
    BY <2>1, HeldEntries
  <2>3. P!Held(other, m)
    BY <2>1, <2>2, HeldBothWays
  <2> QED  BY <2>1, <2>2, <2>3 DEF P!TypeOK, P!EqualSymmetric
<1> QED  BY <1>1, <1>2, <1>3, <1>4 DEF P!Next

(* Every step of a map's function keeps MapInv, and no step changes which  *)
(* function is called.                                                     *)
EqualInv == fn = "map" => MapInv

LEMMA EqualInvInit ==
    ASSUME Init
    PROVE  EqualInv
<1>1. CASE fn = "map"
  <2>1. P!Init
    BY <1>1 DEF Init
  <2> QED  BY <2>1, MapInit, LibraryAssumption DEF EqualInv
<1> QED  BY <1>1 DEF EqualInv

LEMMA EqualInvStep ==
    ASSUME EqualInv, [Next]_vars
    PROVE  EqualInv'
<1>1. CASE fn = "map" /\ Next
  <2>1. P!Next /\ fn' = fn
    BY <1>1 DEF Next
  <2> QED  BY <1>1, <2>1, MapStep, LibraryAssumption DEF EqualInv
<1>2. CASE fn # "map" /\ Next
  BY <1>2 DEF Next, EqualInv
<1>3. CASE UNCHANGED vars
  <2>1. UNCHANGED <<fn, pc, platform, m, other, key, todo, found, equal>>
    BY <1>3 DEF vars, map
  <2> QED  BY <2>1 DEF EqualInv, MapInv, P!TypeOK, P!EqualSymmetric, P!Held
<1> QED  BY <1>1, <1>2, <1>3

(* Equal answers whether each of two maps has the other's entries, however *)
(* wide the integers are, whatever the kinds of the maps and in whatever   *)
(* order Range walks them, although it looks in one direction only         *)
(* (map_value.go:102-128).                                                 *)
THEOREM EqualIsSymmetric == Spec => []EqualSymmetric
<1>1. EqualInv => EqualSymmetric
  BY DEF EqualInv, MapInv, EqualSymmetric
<1> QED  BY <1>1, EqualInvInit, EqualInvStep, PTL DEF Spec

-----------------------------------------------------------------------------
(* Doubles and integers.                                                   *)

LEMMA Least ==
    ASSUME NEW T \in SUBSET Nat, T # {}
    PROVE  \E k \in T : \A j \in T : k <= j
<1>1. PICK k \in T : \A j \in T : ~(<<j, k>> \in OpToRel(<, Nat))
  BY WFMin, NatLessThanWellFounded
<1>2. ASSUME NEW j \in T PROVE k <= j
  <2> SUFFICES ASSUME j < k PROVE FALSE
    OBVIOUS
  <2>1. ~(<<j, k>> \in OpToRel(<, Nat)) /\ j \in Nat /\ k \in Nat
    BY <1>1
  <2> QED  BY <2>1 DEF OpToRel
<1> QED  BY <1>2

LEMMA DivMod ==
    ASSUME NEW a \in Nat, NEW q \in Nat, q # 0
    PROVE  /\ a \div q \in Nat
           /\ a % q \in Nat /\ a % q < q
           /\ a = q * (a \div q) + (a % q)
OBVIOUS

LEMMA Multiple ==
    ASSUME NEW k \in Int, NEW q \in Nat, q # 0, k * q \in Nat
    PROVE  (k * q) % q = 0
OBVIOUS

LEMMA EvenProduct ==
    ASSUME NEW k \in Nat, NEW q \in Nat, q % 2 = 0
    PROVE  (k * q) % 2 = 0
<1>1. PICK h \in Nat : q = 2 * h
  <2>1. q \div 2 \in Nat /\ q = 2 * (q \div 2) + (q % 2)
    BY DivMod
  <2> QED  BY <2>1
<1>2. PICK p \in Nat : p = k * h
  OBVIOUS
<1>3. k * q = p * 2
  BY <1>1, <1>2
<1>4. p * 2 \in Nat
  OBVIOUS
<1>5. (p * 2) % 2 = 0
  BY <1>4, Multiple
<1> QED  BY <1>3, <1>5

LEMMA NoLess ==
    ASSUME NEW k \in Int, NEW n \in Int, NEW q \in Nat, k <= n
    PROVE  k * q <= n * q
OBVIOUS

LEMMA Less ==
    ASSUME NEW k \in Int, NEW n \in Int, NEW q \in Nat, k * q < n * q
    PROVE  k + 1 <= n
OBVIOUS

(* The last bit of a double stands for no more than those of greater ones, *)
(* of which it is a divisor.                                               *)
LEMMA QuantumIs ==
    ASSUME P!ProtoMapAssumption, NEW w \in P!Double, NEW v \in Nat, v <= w
    PROVE  /\ P!Quantum(v) \in Nat /\ P!Quantum(v) # 0
           /\ P!Quantum(v) = 1 \/ P!Quantum(v) % 2 = 0
           /\ \E c \in Int : w = c * P!Quantum(v)
<1>1. /\ Quanta \subseteq Nat \ {0} /\ Mantissa \in Nat
      /\ \A q \in Quanta : q = 1 \/ q % 2 = 0
      /\ \A q, r \in Quanta : q <= r => r % q = 0
  BY DEF P!ProtoMapAssumption
<1>2. PICK r \in Quanta, n \in Int : n <= Mantissa /\ w = n * r
  BY <1>1 DEF P!Double
<1>3. v <= Mantissa * r
  <2>1. r \in Nat
    BY <1>1
  <2>2. n * r <= Mantissa * r
    BY <1>1, <1>2, <2>1, NoLess
  <2>3. n * r \in Int /\ Mantissa * r \in Int
    BY <1>1, <2>1
  <2> QED  BY <1>2, <2>2, <2>3
<1> DEFINE T == {q \in Quanta : v <= Mantissa * q}
           Fits(q) == v <= Mantissa * q /\ \A s \in Quanta : s < q => v > Mantissa * s
<1>4. PICK q \in T : \A s \in T : q <= s
  <2>1. T \in SUBSET Nat /\ T # {}
    BY <1>1, <1>3
  <2> HIDE DEF T
  <2> QED  BY <2>1, Least
<1>5. Fits(q)
  <2>1. ASSUME NEW s \in Quanta, s < q PROVE v > Mantissa * s
    <3>1. s \notin T
      BY <1>1, <1>4, <2>1
    <3> QED  BY <1>1, <3>1
  <2> QED  BY <1>4, <2>1
<1>6. PICK c : c = P!Quantum(v)
  OBVIOUS
<1>7. c \in Quanta /\ Fits(c)
  <2>1. c = CHOOSE s \in Quanta : Fits(s)
    BY <1>6 DEF P!Quantum
  <2>2. q \in Quanta
    BY <1>4
  <2> HIDE DEF Fits
  <2> QED  BY <1>5, <2>1, <2>2
<1>8. c <= r
  <2> SUFFICES ASSUME r < c PROVE FALSE
    BY <1>1, <1>7
  <2> QED  BY <1>1, <1>3, <1>7
<1>9. r % c = 0 /\ c \in Nat /\ c # 0 /\ r \in Nat
  BY <1>1, <1>7, <1>8
<1>10. PICK d \in Nat : r = c * d
  <2>1. r = c * (r \div c) + (r % c) /\ r \div c \in Nat
    BY <1>9, DivMod
  <2>2. r = c * (r \div c)
    <3>1. c * (r \div c) \in Int
      BY <1>9, <2>1
    <3> QED  BY <1>9, <2>1, <3>1
  <2> QED  BY <2>1, <2>2
<1>11. w = (n * d) * c /\ n * d \in Int
  BY <1>2, <1>9, <1>10
<1> QED  BY <1>1, <1>6, <1>7, <1>9, <1>11

(* A double is the nearest to itself; and rounding does not pass a double. *)
LEMMA NearestIs ==
    ASSUME P!ProtoMapAssumption, NEW w \in P!Double, NEW v \in Nat, v <= w
    PROVE  /\ P!Nearest(v) \in Nat /\ P!Nearest(v) <= w
           /\ v = w => P!Nearest(v) = v
           /\ v % 2 = 0 => P!Nearest(v) % 2 = 0
<1>1. PICK q \in Nat \ {0} : q = P!Quantum(v)
  BY QuantumIs
<1>2. PICK c \in Int : w = c * q
  BY <1>1, QuantumIs
<1>3. q = 1 \/ q % 2 = 0
  BY <1>1, QuantumIs
<1>4. PICK n, rest \in Nat : /\ n = v \div q /\ rest = v % q
                             /\ rest < q /\ v = q * n + rest
  BY DivMod
<1> DEFINE up == 2 * rest > q \/ (2 * rest = q /\ n % 2 = 1)
<1>5. P!Nearest(v) = IF up THEN v - rest + q ELSE v - rest
  BY <1>1, <1>4 DEF P!Nearest
<1>6. v - rest = n * q
  BY <1>4
<1>7. up => rest > 0
  OBVIOUS
<1> HIDE DEF up
<1>8. CASE up
  <2>1. P!Nearest(v) = (n + 1) * q
    BY <1>5, <1>6, <1>8
  <2>2. n * q < c * q
    BY <1>2, <1>4, <1>6, <1>7, <1>8
  <2>3. n + 1 <= c
    BY <2>2, Less
  <2>4. (n + 1) * q <= c * q
    BY <2>3, NoLess
  <2>5. v # w
    <3> SUFFICES ASSUME v = w PROVE FALSE
      OBVIOUS
    <3>1. v % q = 0
      BY <1>2, Multiple
    <3> QED  BY <1>4, <1>7, <1>8, <3>1
  <2>6. v % 2 = 0 => P!Nearest(v) % 2 = 0
    <3>1. CASE q = 1
      BY <1>4, <1>7, <1>8, <3>1
    <3>2. CASE q % 2 = 0
      <4>1. PICK k \in Nat : k = n + 1
        OBVIOUS
      <4> QED  BY <2>1, <3>2, <4>1, EvenProduct
    <3> QED  BY <1>3, <3>1, <3>2
  <2> QED  BY <1>2, <2>1, <2>4, <2>5, <2>6
<1>9. CASE ~up
  <2>1. P!Nearest(v) = n * q /\ n * q <= v
    BY <1>4, <1>5, <1>6, <1>9
  <2>2. v = w => n * q = v
    <3> SUFFICES ASSUME v = w PROVE n * q = v
      OBVIOUS
    <3>1. v % q = 0
      BY <1>2, Multiple
    <3> QED  BY <1>4, <1>6, <3>1
  <2>3. v % 2 = 0 => P!Nearest(v) % 2 = 0
    <3>1. CASE q = 1
      BY <1>4, <2>1, <3>1
    <3>2. CASE q % 2 = 0
      BY <2>1, <3>2, EvenProduct
    <3> QED  BY <1>3, <3>1, <3>2
  <2>4. w \in Int
    BY <1>2
  <2> QED  BY <2>1, <2>2, <2>3, <2>4
<1> QED  BY <1>8, <1>9

(* What becomes of an integer.                                             *)
LEMMA FloatIs ==
    ASSUME P!ProtoMapAssumption, NEW i \in Int, P!IntMin <= i, i <= P!UintMax
    PROVE  /\ P!Float(i) \in Int /\ P!Float(i) % 2 = 0
           /\ 2 * i \in P!Double => P!Float(i) = 2 * i
           /\ i = 0 => P!Float(i) = 0
           /\ i <= IntMax => P!Float(i) <= 2 * (IntMax + 1)
           /\ P!Float(i) <= 2 * (P!UintMax + 1)
           /\ i = P!IntMin => P!Float(i) = 2 * i
<1>1. /\ IntMax \in Nat /\ P!IntMin = -IntMax - 1 /\ P!UintMax = 2 * IntMax + 1
      /\ Quanta \subseteq Nat \ {0} /\ Mantissa \in Nat
  BY DEF P!ProtoMapAssumption, P!IntMin, P!UintMax
<1>2. PICK small, large \in Nat :
         /\ small = 2 * (IntMax + 1) /\ large = 2 * (P!UintMax + 1)
         /\ small < large
         /\ small \in P!Double /\ large \in P!Double
  BY <1>1 DEF P!ProtoMapAssumption
<1>3. \A v \in P!Double : v \in Int /\ -v \in P!Double
  <2> SUFFICES ASSUME NEW v \in P!Double PROVE v \in Int /\ -v \in P!Double
    OBVIOUS
  <2>1. PICK q \in Quanta, n \in -Mantissa .. Mantissa : v = n * q
    BY DEF P!Double
  <2>2. q \in Nat /\ n \in Int /\ -n \in -Mantissa .. Mantissa
    BY <1>1
  <2>3. v \in Int /\ -v = (-n) * q
    BY <2>1, <2>2
  <2> QED  BY <2>2, <2>3 DEF P!Double
<1>4. CASE i < 0
  <2>1. PICK v \in Nat : v = -2 * i /\ v <= small /\ v % 2 = 0
    BY <1>1, <1>2, <1>4
  <2>2. PICK d \in Nat : d = P!Nearest(v) /\ d % 2 = 0
    BY <1>2, <2>1, NearestIs
  <2>3. P!Float(i) = -d
    BY <1>4, <2>1, <2>2 DEF P!Float
  <2>4. (-d) % 2 = 0
    BY <2>2
  <2>5. 2 * i \in P!Double => d = v
    <3> SUFFICES ASSUME 2 * i \in P!Double PROVE d = v
      OBVIOUS
    <3>1. v = -(2 * i)
      BY <2>1
    <3>2. v \in P!Double
      BY <1>3, <3>1
    <3> QED  BY <2>2, <3>2, NearestIs
  <2>6. i = P!IntMin => d = v
    <3> SUFFICES ASSUME i = P!IntMin PROVE d = v
      OBVIOUS
    <3>1. v = small
      BY <1>1, <1>2, <2>1
    <3> QED  BY <1>2, <2>2, <3>1, NearestIs
  <2>7. -d <= small /\ -d <= large
    BY <1>2
  <2> QED  BY <1>2, <1>4, <2>1, <2>3, <2>4, <2>5, <2>6, <2>7
<1>5. CASE i >= 0
  <2>1. PICK v \in Nat : v = 2 * i /\ v <= large /\ v % 2 = 0
    BY <1>1, <1>2, <1>5
  <2>2. PICK d \in Nat : d = P!Nearest(v) /\ d % 2 = 0 /\ d <= large
    BY <1>2, <2>1, NearestIs
  <2>3. P!Float(i) = d
    BY <1>5, <2>1, <2>2 DEF P!Float
  <2>4. 2 * i \in P!Double => d = v
    <3> SUFFICES ASSUME 2 * i \in P!Double PROVE d = v
      OBVIOUS
    <3> QED  BY <2>1, <2>2, NearestIs
  <2>5. i <= IntMax => d <= small
    <3> SUFFICES ASSUME i <= IntMax PROVE d <= small
      OBVIOUS
    <3>1. v <= small
      BY <1>1, <1>2, <2>1
    <3> QED  BY <1>2, <2>2, <3>1, NearestIs
  <2>6. i = 0 => d = 0
    <3> SUFFICES ASSUME i = 0 PROVE d = 0
      OBVIOUS
    <3>1. PICK q \in Quanta, n \in -Mantissa .. Mantissa : large = n * q
      BY <1>2 DEF P!Double
    <3>2. 0 \in -Mantissa .. Mantissa /\ 0 * q = 0
      BY <1>1, <3>1
    <3>3. 0 \in P!Double /\ v = 0
      BY <2>1, <3>2 DEF P!Double
    <3> QED  BY <2>2, <3>3, NearestIs
  <2>7. i # P!IntMin
    BY <1>1, <1>5
  <2> QED  BY <1>2, <2>1, <2>2, <2>3, <2>4, <2>5, <2>6, <2>7
<1> QED  BY <1>4, <1>5

(* A conversion to an integer that comes back is one that loses nothing.   *)
LEMMA TruncatedIs ==
    ASSUME NEW v \in Int
    PROVE  /\ P!Truncated(v) \in Int
           /\ v % 2 = 0 => 2 * P!Truncated(v) = v
           /\ v >= 0 => 2 * P!Truncated(v) <= v /\ v <= 2 * P!Truncated(v) + 1
           /\ v < 0 => 2 * P!Truncated(v) - 1 <= v /\ v <= 2 * P!Truncated(v)
<1>1. CASE v >= 0
  <2>1. PICK n \in Nat : n = v \div 2
    BY <1>1, DivMod
  <2>2. v = 2 * n + (v % 2) /\ v % 2 \in {0, 1}
    BY <1>1, <2>1, DivMod
  <2>3. P!Truncated(v) = n
    BY <1>1, <2>1 DEF P!Truncated
  <2> QED  BY <1>1, <2>2, <2>3
<1>2. CASE v < 0
  <2>1. PICK a, n \in Nat : a = -v /\ n = a \div 2
    BY <1>2, DivMod
  <2>2. a = 2 * n + (a % 2) /\ a % 2 \in {0, 1}
    BY <2>1, DivMod
  <2>3. P!Truncated(v) = -n
    BY <1>2, <2>1 DEF P!Truncated
  <2>4. v % 2 = 0 => a % 2 = 0
    BY <2>1
  <2> QED  BY <1>2, <2>1, <2>2, <2>3, <2>4
<1> QED  BY <1>1, <1>2

(* What a double may be converted to: halves are to be looked at.          *)
Conversions == platform \in {"saturating", "indefinite"}

LEMMA IntIs ==
    ASSUME P!ProtoMapAssumption, Conversions, NEW v \in P!Double,
           platform = "saturating" => v # 2 * (IntMax + 1)
    PROVE  P!DoubleToInt64Lossless(v) = {j \in P!IntMin .. IntMax : 2 * j = v}
<1>1. /\ IntMax \in Nat /\ P!IntMin = -IntMax - 1 /\ P!UintMax = 2 * IntMax + 1
      /\ v \in Int
  BY DEF P!ProtoMapAssumption, P!IntMin, P!UintMax, P!Double
<1>2. PICK j \in Int : j = P!Int64Of(v) /\ P!IntMin <= j /\ j <= IntMax
  <2>1. PICK t \in Int : t = P!Truncated(v)
    BY <1>1, TruncatedIs
  <2> QED  BY <1>1, <2>1 DEF P!Int64Of
<1>8. P!IntMin <= j /\ j <= P!UintMax
  BY <1>1, <1>2
<1>3. PICK d \in Int : d = P!Float(j)
  BY <1>8, FloatIs
<1>4. P!DoubleToInt64Lossless(v) = IF d = v THEN {j} ELSE {}
  BY <1>2, <1>3 DEF P!DoubleToInt64Lossless
<1>5. ASSUME NEW k \in P!IntMin .. IntMax, 2 * k = v
      PROVE  k = j /\ d = v
  <2>1. v % 2 = 0
    BY <1>5
  <2>2. P!Truncated(v) = k
    <3>1. PICK t \in Int : t = P!Truncated(v) /\ 2 * t = v
      BY <1>1, <2>1, TruncatedIs
    <3> QED  BY <1>1, <1>5, <3>1
  <2>3. j = k
    BY <1>2, <2>2 DEF P!Int64Of
  <2>4. d = v
    BY <1>1, <1>2, <1>3, <1>5, <2>3, FloatIs
  <2> QED  BY <2>3, <2>4
<1>6. ASSUME d = v PROVE 2 * j = v
  <2>1. v % 2 = 0
    <3>1. d % 2 = 0
      BY <1>3, <1>8, FloatIs
    <3> QED  BY <1>6, <3>1
  <2>2. PICK t \in Int : t = P!Truncated(v) /\ 2 * t = v
    BY <1>1, <2>1, TruncatedIs
  <2>3. CASE t \in P!IntMin .. IntMax
    BY <1>2, <2>2, <2>3 DEF P!Int64Of
  <2>4. CASE t \notin P!IntMin .. IntMax
    <3>1. \/ j = P!IntMin /\ (platform = "indefinite" \/ v < 0)
          \/ j = IntMax /\ platform = "saturating" /\ ~(v < 0)
      BY <1>2, <2>2, <2>4 DEF P!Int64Of, Conversions
    <3>2. CASE j = P!IntMin
      <4>1. d = 2 * j
        BY <1>3, <1>8, <3>2, FloatIs
      <4> QED  BY <1>6, <4>1
    <3>3. CASE j = IntMax /\ platform = "saturating" /\ ~(v < 0)
      <4>1. d <= 2 * (IntMax + 1)
        BY <1>1, <1>2, <1>3, FloatIs
      <4>2. t > IntMax
        BY <1>1, <2>2, <2>4, <3>3
      <4> QED  BY <1>1, <1>6, <2>2, <3>3, <4>1, <4>2
    <3> QED  BY <3>1, <3>2, <3>3
  <2> QED  BY <2>3, <2>4
<1>7. d = v => j \in P!IntMin .. IntMax
  BY <1>1, <1>2
<1> QED  BY <1>4, <1>5, <1>6, <1>7

LEMMA UintIs ==
    ASSUME P!ProtoMapAssumption, Conversions, NEW v \in P!Double,
           platform = "saturating" => v # 2 * (P!UintMax + 1)
    PROVE  P!DoubleToUint64Lossless(v) = {j \in 0 .. P!UintMax : 2 * j = v}
<1>1. /\ IntMax \in Nat /\ P!IntMin = -IntMax - 1 /\ P!UintMax = 2 * IntMax + 1
      /\ v \in Int
  BY DEF P!ProtoMapAssumption, P!IntMin, P!UintMax, P!Double
<1>2. PICK j \in Int : j = P!Uint64Of(v) /\ 0 <= j /\ j <= P!UintMax
  <2>1. PICK t \in Int : t = P!Truncated(v)
    BY <1>1, TruncatedIs
  <2> QED  BY <1>1, <2>1 DEF P!Uint64Of
<1>8. P!IntMin <= j /\ j <= P!UintMax
  BY <1>1, <1>2
<1>3. PICK d \in Int : d = P!Float(j)
  BY <1>2, <1>8, FloatIs
<1>4. P!DoubleToUint64Lossless(v) = IF v >= 0 /\ d = v THEN {j} ELSE {}
  BY <1>2, <1>3 DEF P!DoubleToUint64Lossless
<1>5. ASSUME NEW k \in 0 .. P!UintMax, 2 * k = v
      PROVE  k = j /\ v >= 0 /\ d = v
  <2>1. v % 2 = 0
    BY <1>5
  <2>2. P!Truncated(v) = k
    <3>1. PICK t \in Int : t = P!Truncated(v) /\ 2 * t = v
      BY <1>1, <2>1, TruncatedIs
    <3> QED  BY <1>1, <1>5, <3>1
  <2>3. j = k
    BY <1>2, <2>2 DEF P!Uint64Of
  <2>4. d = v
    BY <1>2, <1>3, <1>5, <1>8, <2>3, FloatIs
  <2> QED  BY <1>5, <2>3, <2>4
<1>6. ASSUME v >= 0, d = v PROVE 2 * j = v
  <2>1. v % 2 = 0
    <3>1. d % 2 = 0
      BY <1>3, <1>8, FloatIs
    <3> QED  BY <1>6, <3>1
  <2>2. PICK t \in Int : t = P!Truncated(v) /\ 2 * t = v
    BY <1>1, <2>1, TruncatedIs
  <2>3. CASE t \in 0 .. P!UintMax
    BY <1>2, <2>2, <2>3 DEF P!Uint64Of
  <2>4. CASE t \notin 0 .. P!UintMax
    <3>1. \/ j = 0
          \/ j = P!UintMax /\ platform = "saturating"
      BY <1>2, <2>2, <2>4 DEF P!Uint64Of, Conversions
    <3>2. CASE j = 0
      <4>1. d = 0
        BY <1>3, <1>8, <3>2, FloatIs
      <4> QED  BY <1>6, <3>2, <4>1
    <3>3. CASE j = P!UintMax /\ platform = "saturating"
      <4>1. d <= 2 * (P!UintMax + 1)
        BY <1>2, <1>3, <1>8, FloatIs
      <4>2. t > P!UintMax
        BY <1>1, <1>6, <2>2, <2>4
      <4> QED  BY <1>1, <1>6, <2>2, <3>3, <4>1, <4>2
    <3> QED  BY <3>1, <3>2, <3>3
  <2> QED  BY <2>3, <2>4
<1>7. j \in 0 .. P!UintMax
  BY <1>1, <1>2
<1> QED  BY <1>4, <1>5, <1>6, <1>7

(* A key is looked up by its type and its number.                          *)
CelType(kind) ==
    IF kind \in {"int32", "int64"} THEN "int"
    ELSE IF kind \in {"uint32", "uint64"} THEN "uint" ELSE kind

LEMMA FindInternalIs ==
    ASSUME NEW b, P!IsMap(b), NEW type, NEW nums
    PROVE  P!FindInternal(b, type, nums) =
              {n \in DOMAIN b.entries : n \in nums /\ type = CelType(b.kind)}
<1>1. PICK D, L : /\ D = DOMAIN b.entries /\ L = b.kind
                  /\ L \in P!Kind /\ D \subseteq P!NativeKey(L)
  BY DEF P!IsMap
<1>2. ASSUME NEW i
      PROVE  P!ToNativeKey(L, [type |-> type, num |-> i]) =
                {n \in P!NativeKey(L) : n = i /\ type = CelType(L)}
  <2>3. PICK q : q = [type |-> type, num |-> i]
    OBVIOUS
  <2>1. q = [type |-> type, num |-> i] /\ q.type = type /\ q.num = i
    BY <2>3
  <2>2. P!ToNativeKey(L, q) = {n \in {q.num} : q.type = CelType(L) /\ n \in P!NativeKey(L)}
    BY <1>1 DEF P!ToNativeKey, CelType, P!Kind
  <2> QED  BY <2>1, <2>2
<1>3. PICK w : w = {P!ToNativeKey(L, [type |-> type, num |-> i]) : i \in nums}
  OBVIOUS
<1>4. P!FindInternal(b, type, nums) = D \cap UNION w
  BY <1>1, <1>3 DEF P!FindInternal
<1>5. \A n : n \in UNION w <=> \E i \in nums : n \in P!ToNativeKey(L, [type |-> type, num |-> i])
  BY <1>3
<1>7. \A n \in D : \A i : n \in P!ToNativeKey(L, [type |-> type, num |-> i])
                         <=> n = i /\ type = CelType(L)
  BY <1>1, <1>2
<1>6. \A n \in D : n \in UNION w <=> n \in nums /\ type = CelType(L)
  BY <1>5, <1>7
<1> QED  BY <1>1, <1>4, <1>6

(* What a key is found as is every key that is worth the same.             *)
LEMMA FindIs ==
    ASSUME P!ProtoMapAssumption, Conversions, NEW b, P!IsMap(b), NEW k \in P!CelKey,
           platform = "saturating" /\ k.type = "double" =>
              k.num # 2 * (IntMax + 1) /\ k.num # 2 * (P!UintMax + 1)
    PROVE  P!Find(b, k) = {n \in DOMAIN b.entries : P!Same(P!ToCelKey(b.kind, n), k)}
<1>1. PICK D, L : /\ D = DOMAIN b.entries /\ L = b.kind
                  /\ L \in P!Kind /\ D \subseteq P!NativeKey(L)
  BY DEF P!IsMap
<1>2. PICK type, num : /\ type = k.type /\ num = k.num /\ k = [type |-> type, num |-> num]
                       /\ type \in P!KeyType /\ num \in Int /\ num \in P!CelNumber(type)
  BY DEF P!CelKey
<1>3. \A t, nums : P!FindInternal(b, t, nums) = {n \in D : n \in nums /\ t = CelType(L)}
  BY <1>1, FindInternalIs
<1>4. /\ CelType(L) \in {"int", "uint", "bool", "string"}
      /\ \A n \in D : n \in Int
      /\ CelType(L) = "int" => \A n \in D : P!IntMin <= n /\ n <= IntMax
      /\ CelType(L) = "uint" => \A n \in D : 0 <= n /\ n <= P!UintMax
  BY <1>1 DEF P!ProtoMapAssumption, P!NativeKey, P!Kind, P!UintMax, P!IntMin, CelType
<1>5. ASSUME NEW n \in D
      PROVE  P!ToCelKey(L, n) = [type |-> CelType(L), num |-> n]
  BY <1>1 DEF P!ToCelKey, CelType, P!Kind
<1> DEFINE Wanted == {n \in D : P!Same(P!ToCelKey(L, n), k)}
<1>6. CASE type = "int"
  <2>1. Wanted = {n \in D : CelType(L) \in {"int", "uint"} /\ n = num}
    <3>1. ASSUME NEW n \in D
          PROVE  P!Same([type |-> CelType(L), num |-> n], k)
                    <=> CelType(L) \in {"int", "uint"} /\ n = num
      <4>1. 2 * n = 2 * num <=> n = num
        BY <1>2, <1>4
      <4> QED  BY <1>2, <1>4, <1>6, <4>1 DEF P!Same, P!Numeric, P!Worth
    <3> QED  BY <1>5, <3>1
  <2>2. P!Coerced(b, k) = {n \in D : n \in {i \in {num} : i >= 0} /\ "uint" = CelType(L)}
    BY <1>2, <1>3, <1>6 DEF P!Coerced
  <2>3. P!FindInternal(b, type, {num}) = {n \in D : n \in {num} /\ "int" = CelType(L)}
    BY <1>3, <1>6
  <2>4. P!Find(b, k) = IF P!FindInternal(b, type, {num}) # {}
                       THEN P!FindInternal(b, type, {num}) ELSE P!Coerced(b, k)
    BY <1>2 DEF P!Find
  <2>5. CASE CelType(L) = "uint"
    <3>1. P!Coerced(b, k) = {n \in D : n = num}
      BY <1>4, <2>2, <2>5
    <3>2. P!FindInternal(b, type, {num}) = {}
      BY <2>3, <2>5
    <3>3. Wanted = {n \in D : n = num}
      BY <2>1, <2>5
    <3> QED  BY <1>1, <2>4, <3>1, <3>2, <3>3
  <2>6. CASE CelType(L) # "uint"
    <3>1. P!Coerced(b, k) = {}
      BY <2>2, <2>6
    <3>2. P!FindInternal(b, type, {num}) = Wanted
      BY <2>1, <2>3, <2>6
    <3> QED  BY <1>1, <2>4, <3>1, <3>2
  <2> QED  BY <2>5, <2>6
<1>7. CASE type = "uint"
  <2>1. Wanted = {n \in D : CelType(L) \in {"int", "uint"} /\ n = num}
    <3>1. ASSUME NEW n \in D
          PROVE  P!Same([type |-> CelType(L), num |-> n], k)
                    <=> CelType(L) \in {"int", "uint"} /\ n = num
      <4>1. 2 * n = 2 * num <=> n = num
        BY <1>2, <1>4
      <4> QED  BY <1>2, <1>4, <1>7, <4>1 DEF P!Same, P!Numeric, P!Worth
    <3> QED  BY <1>5, <3>1
  <2>2. P!Coerced(b, k) = {n \in D : n \in {i \in {num} : i <= IntMax} /\ "int" = CelType(L)}
    BY <1>2, <1>3, <1>7 DEF P!Coerced
  <2>3. P!FindInternal(b, type, {num}) = {n \in D : n \in {num} /\ "uint" = CelType(L)}
    BY <1>3, <1>7
  <2>4. P!Find(b, k) = IF P!FindInternal(b, type, {num}) # {}
                       THEN P!FindInternal(b, type, {num}) ELSE P!Coerced(b, k)
    BY <1>2 DEF P!Find
  <2>5. CASE CelType(L) = "int"
    <3>1. P!Coerced(b, k) = {n \in D : n = num}
      BY <1>4, <2>2, <2>5
    <3>2. P!FindInternal(b, type, {num}) = {}
      BY <2>3, <2>5
    <3>3. Wanted = {n \in D : n = num}
      BY <2>1, <2>5
    <3> QED  BY <1>1, <2>4, <3>1, <3>2, <3>3
  <2>6. CASE CelType(L) # "int"
    <3>1. P!Coerced(b, k) = {}
      BY <2>2, <2>6
    <3>2. P!FindInternal(b, type, {num}) = Wanted
      BY <2>1, <2>3, <2>6
    <3> QED  BY <1>1, <2>4, <3>1, <3>2
  <2> QED  BY <2>5, <2>6
<1>8. CASE type = "double"
  <2>1. Wanted = {n \in D : CelType(L) \in {"int", "uint"} /\ 2 * n = num}
    <3>1. ASSUME NEW n \in D
          PROVE  P!Same([type |-> CelType(L), num |-> n], k)
                    <=> CelType(L) \in {"int", "uint"} /\ 2 * n = num
      BY <1>2, <1>4, <1>8 DEF P!Same, P!Numeric, P!Worth
    <3> QED  BY <1>5, <3>1
  <2>2. num \in P!Double
    BY <1>2, <1>8 DEF P!CelNumber
  <2>3. PICK ints, uints : /\ ints = {j \in P!IntMin .. IntMax : 2 * j = num}
                           /\ uints = {j \in 0 .. P!UintMax : 2 * j = num}
                           /\ ints = P!DoubleToInt64Lossless(num)
                           /\ uints = P!DoubleToUint64Lossless(num)
    BY <1>2, <1>8, <2>2, IntIs, UintIs
  <2>4. P!FindInternal(b, type, {num}) = {}
    BY <1>3, <1>4, <1>8
  <2>5. P!Coerced(b, k) = IF P!FindInternal(b, "int", ints) # {}
                          THEN P!FindInternal(b, "int", ints)
                          ELSE P!FindInternal(b, "uint", uints)
    BY <1>2, <1>8, <2>3 DEF P!Coerced
  <2>6. P!Find(b, k) = P!Coerced(b, k)
    BY <1>2, <2>4 DEF P!Find
  <2>7. PICK I1, I2 : /\ I1 = P!FindInternal(b, "int", ints)
                      /\ I2 = P!FindInternal(b, "uint", uints)
                      /\ I1 = {n \in D : n \in ints /\ "int" = CelType(L)}
                      /\ I2 = {n \in D : n \in uints /\ "uint" = CelType(L)}
    BY <1>3
  <2>8. I1 = {n \in D : 2 * n = num /\ "int" = CelType(L)}
    BY <1>4, <2>3, <2>7
  <2>9. I2 = {n \in D : 2 * n = num /\ "uint" = CelType(L)}
    BY <1>4, <2>3, <2>7
  <2>10. (IF I1 # {} THEN I1 ELSE I2) = Wanted
    <3> HIDE DEF Wanted
    <3>1. CASE CelType(L) = "int"
      BY <2>1, <2>8, <2>9, <3>1
    <3>2. CASE CelType(L) # "int"
      BY <1>4, <2>1, <2>8, <2>9, <3>2
    <3> QED  BY <3>1, <3>2
  <2> QED  BY <1>1, <2>5, <2>6, <2>7, <2>10
<1>9. CASE type \in {"bool", "string"}
  <2>1. ASSUME NEW n \in D
        PROVE  P!Same([type |-> CelType(L), num |-> n], k)
                  <=> CelType(L) = type /\ n = num
    BY <1>2, <1>4, <1>9 DEF P!Same, P!Numeric, P!Worth
  <2>2. Wanted = {n \in D : CelType(L) = type /\ n = num}
    BY <1>5, <2>1
  <2>3. P!Coerced(b, k) = {}
    BY <1>2, <1>9 DEF P!Coerced
  <2>4. P!FindInternal(b, type, {num}) = {n \in D : n \in {num} /\ type = CelType(L)}
    BY <1>3
  <2>5. P!FindInternal(b, type, {num}) = Wanted
    BY <2>2, <2>4
  <2>6. P!Find(b, k) = IF P!FindInternal(b, type, {num}) # {}
                       THEN P!FindInternal(b, type, {num}) ELSE P!Coerced(b, k)
    BY <1>2 DEF P!Find
  <2> QED  BY <1>1, <2>3, <2>5, <2>6
<1> QED  BY <1>2, <1>6, <1>7, <1>8, <1>9 DEF P!KeyType

LEMMA FoundStep ==
    ASSUME P!ProtoMapAssumption, MapInv, P!Next
    PROVE  P!FindExact'
<1>1. CASE P!FindKey
  <2>1. found' = P!Find(m, key) /\ UNCHANGED <<platform, m, key>>
    BY <1>1 DEF P!FindKey
  <2>2. /\ P!IsMap(m) /\ key \in P!CelKey /\ Conversions
    BY DEF MapInv, P!TypeOK, P!ProtoMapAssumption, Conversions
  <2>3. CASE P!Beyond
    BY <2>1, <2>3 DEF P!FindExact, P!Beyond
  <2>4. CASE ~P!Beyond
    <3>1. P!Find(m, key) = {n \in DOMAIN m.entries : P!Same(P!ToCelKey(m.kind, n), key)}
      BY <2>2, <2>4, FindIs DEF P!Beyond
    <3>2. found' = {n \in DOMAIN m'.entries : P!Same(P!ToCelKey(m'.kind, n), key')}
      BY <2>1, <3>1
    <3> QED  BY <3>2 DEF P!FindExact
  <2> QED  BY <2>3, <2>4
<1>2. CASE P!Equal \/ P!RangeEntry \/ P!RangeEnd
  <2>1. pc' \in {"range", "compared"}
    BY <1>2 DEF P!Equal, P!RangeEntry, P!RangeEnd
  <2> QED  BY <2>1 DEF P!FindExact
<1> QED  BY <1>1, <1>2 DEF P!Next

(* A key is found exactly if the map has one that is worth as much, for    *)
(* every width of the integers, every precision of the doubles and both of *)
(* Go's ways to convert what does not fit: no conversion loses anything    *)
(* and no conversion is missing (map_value.go:178-254, 327-352).           *)
THEOREM FindIsExact == Spec => []FindExact
<1>1. Init => FindExact
  BY DEF Init, P!Init, FindExact, P!FindExact
<1>2. ASSUME EqualInv, FindExact, [Next]_vars
      PROVE  FindExact'
  <2>1. CASE fn = "map" /\ Next
    <3>1. P!Next /\ fn' = fn
      BY <2>1 DEF Next
    <3>2. P!FindExact'
      BY <1>2, <2>1, <3>1, FoundStep, LibraryAssumption DEF EqualInv
    <3> QED  BY <3>2 DEF FindExact
  <2>2. CASE fn # "map" /\ Next
    BY <2>2 DEF Next, FindExact
  <2>3. CASE UNCHANGED vars
    <3>1. UNCHANGED <<fn, pc, platform, m, key, found>>
      BY <2>3 DEF vars, map
    <3>2. (fn = "map")' <=> fn = "map"
      BY <3>1
    <3>3. P!FindExact' <=> P!FindExact
      BY <3>1 DEF P!FindExact, P!Beyond, P!Same, P!Numeric, P!Worth, P!ToCelKey
    <3> QED  BY <1>2, <3>2, <3>3 DEF FindExact
  <2> QED  BY <1>2, <2>1, <2>2, <2>3
<1> QED  BY <1>1, <1>2, EqualInvInit, EqualInvStep, PTL DEF Spec

-----------------------------------------------------------------------------
(* Recursion over the positions of a sequence.                             *)

LEMMA Upwards ==
    ASSUME NEW N \in Nat, NEW T, 0 \in T,
           \A n \in 1 .. N : n - 1 \in T => n \in T
    PROVE  \A n \in 0 .. N : n \in T
<1> DEFINE R == {n \in 0 .. N : n \notin T}
<1> SUFFICES ASSUME R # {} PROVE FALSE
  OBVIOUS
<1>1. R \in SUBSET Nat
  OBVIOUS
<1>2. PICK k \in R : \A j \in R : ~(<<j, k>> \in OpToRel(<, Nat))
  <2> HIDE DEF R
  <2> QED  BY <1>1, WFMin, NatLessThanWellFounded
<1>3. k \in 1 .. N /\ k - 1 \in 0 .. N
  OBVIOUS
<1>4. k - 1 \notin R
  <2> SUFFICES ASSUME k - 1 \in R PROVE FALSE
    OBVIOUS
  <2>1. ~(<<k - 1, k>> \in OpToRel(<, Nat))
    BY <1>2
  <2>2. k - 1 \in Nat /\ k \in Nat /\ k - 1 < k
    BY <1>3
  <2> QED  BY <2>1, <2>2 DEF OpToRel
<1> QED  BY <1>3, <1>4

Solvable(N, S, a, step) ==
    \E f \in [0 .. N -> S] :
        f[0] = a /\ \A n \in 1 .. N : f[n] = step[n][f[n - 1]]

LEMMA Recursion ==
    ASSUME NEW N \in Nat, NEW S, NEW a \in S, NEW step \in [1 .. N -> [S -> S]]
    PROVE  Solvable(N, S, a, step)
<1> DEFINE Is(g, k) == g[0] = a /\ \A n \in 1 .. k : g[n] = step[n][g[n - 1]]
           T == {k \in 0 .. N : \E g \in [0 .. k -> S] : Is(g, k)}
<1>1. 0 \in T
  <2>1. \E g \in [0 .. 0 -> S] : Is(g, 0)
    <3> DEFINE g == [n \in 0 .. 0 |-> a]
    <3>1. g \in [0 .. 0 -> S] /\ g[0] = a
      OBVIOUS
    <3>2. Is(g, 0)
      BY <3>1
    <3> HIDE DEF g
    <3> QED  BY <3>1, <3>2
  <2>2. 0 \in 0 .. N
    OBVIOUS
  <2> HIDE DEF Is
  <2> QED  BY <2>1, <2>2
<1>2. ASSUME NEW k \in 1 .. N, k - 1 \in T
      PROVE  k \in T
  <2>1. PICK g \in [0 .. (k - 1) -> S] : Is(g, k - 1)
    BY <1>2
  <2> DEFINE h == [n \in 0 .. k |-> IF n < k THEN g[n] ELSE step[k][g[k - 1]]]
  <2>2. step[k][g[k - 1]] \in S
    <3>1. k - 1 \in 0 .. (k - 1) /\ step[k] \in [S -> S]
      OBVIOUS
    <3> QED  BY <2>1, <3>1
  <2>3. h \in [0 .. k -> S]
    <3>1. \A n \in 0 .. k : n < k => n \in 0 .. (k - 1)
      OBVIOUS
    <3> QED  BY <2>1, <2>2, <3>1
  <2>4. \A n \in 0 .. k : h[n] = IF n < k THEN g[n] ELSE step[k][g[k - 1]]
    OBVIOUS
  <2> HIDE DEF h
  <2>5. ASSUME NEW n \in 1 .. k PROVE h[n] = step[n][h[n - 1]]
    <3>1. h[n - 1] = g[n - 1]
      BY <2>4
    <3>2. CASE n = k
      BY <2>4, <3>1, <3>2
    <3>3. CASE n < k
      BY <2>1, <2>4, <3>1, <3>3
    <3> QED  BY <3>2, <3>3
  <2>6. Is(h, k)
    BY <2>1, <2>4, <2>5
  <2> QED  BY <2>3, <2>6
<1>3. N \in T
  <2>1. \A n \in 1 .. N : n - 1 \in T => n \in T
    BY <1>2
  <2> HIDE DEF T
  <2>2. \A n \in 0 .. N : n \in T
    BY <1>1, <2>1, Upwards
  <2> QED  BY <2>2
<1> QED  BY <1>3 DEF Solvable

-----------------------------------------------------------------------------
(* Split cuts a string at a character.                                     *)

Parts(C) == {p \in Seq(Seq(C)) : p # << >>}

(* The parts after one more character.                                     *)
Extended(p, d, c) ==
    IF d = c THEN Append(p, << >>)
    ELSE [p EXCEPT ![Len(p)] = Append(@, d)]

LEMMA ExtendedType ==
    ASSUME NEW C, NEW p \in Parts(C), NEW d \in C, NEW c
    PROVE  Extended(p, d, c) \in Parts(C)
<1>1. p \in Seq(Seq(C)) /\ Len(p) \in Nat /\ Len(p) \in DOMAIN p
  BY DEF Parts
<1>2. CASE d = c
  <2>1. << >> \in Seq(C)
    OBVIOUS
  <2>2. Append(p, << >>) \in Seq(Seq(C)) /\ Len(Append(p, << >>)) = Len(p) + 1
    BY <1>1, <2>1
  <2>3. Append(p, << >>) # << >>
    BY <1>1, <2>2
  <2> QED  BY <1>2, <2>2, <2>3 DEF Extended, Parts
<1>3. CASE d # c
  <2>1. p[Len(p)] \in Seq(C)
    BY <1>1
  <2>6. Append(p[Len(p)], d) \in Seq(C)
    BY <2>1
  <2>2. PICK v \in Seq(C) : v = Append(p[Len(p)], d)
    BY <2>6
  <2>3. [p EXCEPT ![Len(p)] = v] \in Seq(Seq(C))
    BY <1>1, <2>2
  <2>4. [p EXCEPT ![Len(p)] = v] # << >>
    <3>1. Len([p EXCEPT ![Len(p)] = v]) = Len(p) /\ Len(p) # 0
      BY <1>1, <2>2
    <3>2. Len(<< >>) = 0
      OBVIOUS
    <3> QED  BY <3>1, <3>2
  <2>5. Extended(p, d, c) = [p EXCEPT ![Len(p)] = v]
    BY <1>3, <2>2 DEF Extended
  <2> QED  BY <2>3, <2>4, <2>5 DEF Parts
<1> QED  BY <1>2, <1>3

SplitBy(C, s, c, f) ==
    /\ f \in [0 .. Len(s) -> Parts(C)]
    /\ f[0] = << << >> >>
    /\ \A n \in 1 .. Len(s) : f[n] = Extended(f[n - 1], s[n], c)
    /\ H!Split(s, c) = f[Len(s)]

LEMMA SplitSteps ==
    ASSUME NEW C, NEW s \in Seq(C), NEW c
    PROVE  \E f : SplitBy(C, s, c, f)
<1> DEFINE S == Parts(C)
           N == Len(s)
           step == [n \in 1 .. N |-> [p \in S |-> Extended(p, s[n], c)]]
           Good(f) == f = [n \in 0 .. N |->
                              IF n = 0 THEN << << >> >>
                              ELSE Extended(f[n - 1], s[n], c)]
           split == CHOOSE f : Good(f)
<1>1. N \in Nat /\ \A n \in 1 .. N : s[n] \in C
  OBVIOUS
<1>2. step \in [1 .. N -> [S -> S]]
  BY <1>1, ExtendedType
<1>3. << << >> >> \in S
  BY DEF Parts
<1>4. PICK f \in [0 .. N -> S] :
         f[0] = << << >> >> /\ \A n \in 1 .. N : f[n] = step[n][f[n - 1]]
  <2>1. PICK M \in Nat : M = N
    OBVIOUS
  <2>2. PICK Q : Q = S
    OBVIOUS
  <2>3. PICK g \in [1 .. M -> [Q -> Q]] : g = step
    BY <1>2, <2>1, <2>2
  <2>4. PICK a \in Q : a = << << >> >>
    BY <1>3, <2>2
  <2> HIDE DEF step, S, N
  <2>5. Solvable(M, Q, a, g)
    BY Recursion
  <2>6. Solvable(N, S, << << >> >>, step)
    BY <2>1, <2>2, <2>3, <2>4, <2>5
  <2> QED  BY <2>6 DEF Solvable
<1>5. \A n \in 1 .. N : f[n - 1] \in S /\ f[n] = Extended(f[n - 1], s[n], c)
  <2> SUFFICES ASSUME NEW n \in 1 .. N
               PROVE  f[n - 1] \in S /\ f[n] = Extended(f[n - 1], s[n], c)
    OBVIOUS
  <2>1. n - 1 \in 0 .. N
    BY <1>1
  <2>2. f[n - 1] \in S
    BY <1>4, <2>1
  <2> QED  BY <1>4, <2>2
<1>6. Good(f)
  <2>1. \A n \in 0 .. N : f[n] = IF n = 0 THEN << << >> >>
                                 ELSE Extended(f[n - 1], s[n], c)
    <3>1. \A n \in 0 .. N : n = 0 \/ n \in 1 .. N
      BY <1>1
    <3> HIDE DEF N, S
    <3> QED  BY <1>4, <1>5, <3>1
  <2> QED  BY <1>4, <2>1
<1>7. Good(split)
  <2> HIDE DEF Good
  <2> QED  BY <1>6
<1>8. H!Split(s, c) = split[N]
  BY DEF H!Split, Extended
<1>9. /\ split = [n \in 0 .. N |-> split[n]]
      /\ split[0] = << << >> >>
      /\ \A n \in 1 .. N : split[n] = Extended(split[n - 1], s[n], c)
  <2> HIDE DEF split
  <2>1. DOMAIN split = 0 .. N
    BY <1>7
  <2>2. \A n \in 0 .. N : split[n] = IF n = 0 THEN << << >> >>
                                     ELSE Extended(split[n - 1], s[n], c)
    BY <1>7
  <2>3. split = [n \in 0 .. N |-> split[n]]
    BY <1>7, <2>1
  <2>4. \A n \in 1 .. N : n \in 0 .. N /\ n # 0
    BY <1>1
  <2>5. 0 \in 0 .. N
    BY <1>1
  <2> HIDE DEF Good, N
  <2> QED  BY <2>2, <2>3, <2>4, <2>5
<1> HIDE DEF split, Good, step
<1>10. \A n \in 0 .. N : split[n] \in S
  <2> DEFINE T == {n \in 0 .. N : split[n] \in S}
  <2>1. 0 \in T
    BY <1>1, <1>3, <1>9
  <2>2. \A n \in 1 .. N : n - 1 \in T => n \in T
    <3> SUFFICES ASSUME NEW n \in 1 .. N, n - 1 \in T
                 PROVE  n \in T
      OBVIOUS
    <3>1. s[n] \in C /\ n \in 0 .. N
      BY <1>1
    <3>2. split[n] \in Parts(C)
      BY <1>9, <3>1, ExtendedType
    <3> QED  BY <3>1, <3>2
  <2> HIDE DEF T
  <2>3. \A n \in 0 .. N : n \in T
    BY <1>1, <2>1, <2>2, Upwards
  <2> USE DEF T
  <2> QED  BY <2>3
<1>11. split \in [0 .. N -> S]
  BY <1>9, <1>10
<1>12. SplitBy(C, s, c, split)
  BY <1>8, <1>9, <1>11 DEF SplitBy
<1> QED  BY <1>12

(* Where a string was cut: the parts lie between the cuts.                 *)
IsCut(s, c, n, p, cuts) ==
    /\ cuts \in [0 .. Len(p) -> 0 .. n + 1]
    /\ cuts[0] = 0 /\ cuts[Len(p)] = n + 1
    /\ \A k, l \in 0 .. Len(p) : k < l => cuts[k] < cuts[l]
    /\ \A k \in 1 .. Len(p) :
          /\ Len(p[k]) = cuts[k] - cuts[k - 1] - 1
          /\ \A j \in 1 .. Len(p[k]) : p[k][j] = s[cuts[k - 1] + j] /\ p[k][j] # c
    /\ \A k \in 1 .. Len(p) - 1 : s[cuts[k]] = c

LEMMA CutStep ==
    ASSUME NEW C, NEW s \in Seq(C), NEW c, NEW n \in 1 .. Len(s),
           NEW p \in Parts(C), NEW cuts, IsCut(s, c, n - 1, p, cuts)
    PROVE  \E d : IsCut(s, c, n, Extended(p, s[n], c), d)
<1>1. PICK z \in Nat : z = Len(p)
  BY DEF Parts
<1>2. /\ p \in Seq(Seq(C)) /\ z >= 1 /\ DOMAIN p = 1 .. z
      /\ s[n] \in C /\ n \in Nat /\ n >= 1
  BY <1>1 DEF Parts
<1>3. PICK q : q = Extended(p, s[n], c)
  OBVIOUS
<1>4. /\ cuts \in [0 .. z -> 0 .. n]
      /\ cuts[0] = 0 /\ cuts[z] = n
      /\ \A k, l \in 0 .. z : k < l => cuts[k] < cuts[l]
      /\ \A k \in 1 .. z :
            /\ Len(p[k]) = cuts[k] - cuts[k - 1] - 1
            /\ \A j \in 1 .. Len(p[k]) : p[k][j] = s[cuts[k - 1] + j] /\ p[k][j] # c
      /\ \A k \in 1 .. z - 1 : s[cuts[k]] = c
  <2>1. n - 1 + 1 = n
    BY <1>2
  <2> QED  BY <1>1, <2>1 DEF IsCut
<1>5. \A k \in 0 .. z : cuts[k] \in Int /\ cuts[k] >= 0 /\ cuts[k] <= n
  <2>1. cuts \in [0 .. z -> 0 .. n]
    BY <1>4
  <2>2. ASSUME NEW k \in 0 .. z
        PROVE  cuts[k] \in 0 .. n
    BY <2>1
  <2> QED  BY <1>2, <2>2
<1>8. cuts[0] = 0 /\ cuts[z] = n /\ \A k, l \in 0 .. z : k < l => cuts[k] < cuts[l]
  BY <1>4
<1>9. ASSUME NEW k \in 1 .. z, NEW part, part = p[k]
      PROVE  /\ Len(part) = cuts[k] - cuts[k - 1] - 1
             /\ \A j \in 1 .. Len(part) : part[j] = s[cuts[k - 1] + j] /\ part[j] # c
  BY <1>4, <1>9
<1>6. CASE s[n] = c
  <2> DEFINE d == [k \in 0 .. z + 1 |-> IF k <= z THEN cuts[k] ELSE n + 1]
  <2>1. /\ q \in Seq(Seq(C)) /\ Len(q) = z + 1
        /\ q[z + 1] = << >>
        /\ \A k \in 1 .. z : q[k] = p[k]
    <3>1. << >> \in Seq(C) /\ q = Append(p, << >>)
      BY <1>3, <1>6 DEF Extended
    <3> QED  BY <1>1, <1>2, <3>1
  <2>2. d \in [0 .. z + 1 -> 0 .. n + 1]
    BY <1>2, <1>5
  <2>3. /\ \A k \in 0 .. z : d[k] = cuts[k]
        /\ d[z + 1] = n + 1
    BY <1>1
  <2> HIDE DEF d
  <2>4. d[0] = 0 /\ d[z] = n
    <3>1. 0 \in 0 .. z /\ z \in 0 .. z
      BY <1>2
    <3> QED  BY <1>8, <2>3, <3>1
  <2>5. ASSUME NEW k \in 0 .. z + 1, NEW l \in 0 .. z + 1, k < l
        PROVE  d[k] < d[l]
    <3>1. k \in 0 .. z
      BY <2>5
    <3>2. CASE l \in 0 .. z
      BY <1>4, <2>3, <2>5, <3>1, <3>2
    <3>3. CASE l = z + 1
      <4>1. d[k] = cuts[k] /\ d[l] = n + 1
        BY <2>3, <3>1, <3>3
      <4>2. cuts[k] \in Int /\ cuts[k] <= n
        BY <1>5, <3>1
      <4>3. cuts[k] < n + 1
        BY <1>2, <4>2
      <4> QED  BY <4>1, <4>3
    <3> QED  BY <3>2, <3>3
  <2>6. ASSUME NEW k \in 1 .. z + 1
        PROVE  /\ Len(q[k]) = d[k] - d[k - 1] - 1
               /\ \A j \in 1 .. Len(q[k]) : q[k][j] = s[d[k - 1] + j] /\ q[k][j] # c
    <3>1. CASE k = z + 1
      <4>1. q[k] = << >> /\ Len(q[k]) = 0
        BY <2>1, <3>1
      <4>2. d[k - 1] = n /\ d[k] = n + 1
        BY <1>1, <2>3, <2>4, <3>1
      <4> QED  BY <1>2, <4>1, <4>2
    <3>2. CASE k \in 1 .. z
      <4>1. q[k] = p[k]
        BY <2>1, <3>2
      <4>2. d[k] = cuts[k]
        BY <2>3, <3>2
      <4>3. d[k - 1] = cuts[k - 1]
        BY <2>3, <3>2
      <4> QED  BY <1>9, <3>2, <4>1, <4>2, <4>3
    <3> QED  BY <3>1, <3>2
  <2>7. ASSUME NEW k \in 1 .. z
        PROVE  s[d[k]] = c
    <3>1. CASE k = z
      BY <1>6, <2>4, <3>1
    <3>2. CASE k \in 1 .. z - 1
      <4>1. s[cuts[k]] = c
        BY <1>4, <3>2
      <4>2. k \in 0 .. z
        BY <1>2
      <4> QED  BY <2>3, <4>1, <4>2
    <3> QED  BY <3>1, <3>2
  <2>8. PICK M \in Nat : M = z + 1 /\ M - 1 = z
    OBVIOUS
  <2>10. /\ Len(q) = M /\ d \in [0 .. M -> 0 .. n + 1]
         /\ d[0] = 0 /\ d[M] = n + 1
    BY <2>1, <2>2, <2>3, <2>4, <2>8
  <2>11. /\ \A k, l \in 0 .. M : k < l => d[k] < d[l]
         /\ \A k \in 1 .. M - 1 : s[d[k]] = c
    BY <2>5, <2>7, <2>8
  <2>12. \A k \in 1 .. M :
            /\ Len(q[k]) = d[k] - d[k - 1] - 1
            /\ \A j \in 1 .. Len(q[k]) : q[k][j] = s[d[k - 1] + j] /\ q[k][j] # c
    BY <2>6, <2>8
  <2>9. IsCut(s, c, n, q, d)
    BY <2>10, <2>11, <2>12 DEF IsCut
  <2> QED  BY <1>3, <2>9
<1>7. CASE s[n] # c
  <2> DEFINE d == [k \in 0 .. z |-> IF k = z THEN n + 1 ELSE cuts[k]]
  <2>1. /\ q \in Seq(Seq(C)) /\ Len(q) = z
        /\ q[z] = Append(p[z], s[n])
        /\ \A k \in 1 .. z - 1 : q[k] = p[k]
    <3>1. p[z] \in Seq(C)
      BY <1>2
    <3>2. Append(p[z], s[n]) \in Seq(C)
      BY <1>2, <3>1
    <3>3. PICK v \in Seq(C) : v = Append(p[z], s[n])
      BY <3>2
    <3>4. q = [p EXCEPT ![z] = v]
      BY <1>1, <1>3, <1>7, <3>3 DEF Extended
    <3> QED  BY <1>1, <1>2, <3>3, <3>4
  <2>2. d \in [0 .. z -> 0 .. n + 1]
    BY <1>2, <1>5
  <2>3. /\ \A k \in 0 .. z - 1 : d[k] = cuts[k]
        /\ d[z] = n + 1
    BY <1>1, <1>2
  <2> HIDE DEF d
  <2>4. d[0] = 0
    <3>1. 0 \in 0 .. z - 1
      BY <1>2
    <3> QED  BY <1>8, <2>3, <3>1
  <2>5. ASSUME NEW k \in 0 .. z, NEW l \in 0 .. z, k < l
        PROVE  d[k] < d[l]
    <3>1. k \in 0 .. z - 1
      BY <2>5
    <3>2. CASE l \in 0 .. z - 1
      BY <1>8, <2>3, <2>5, <3>1, <3>2
    <3>3. CASE l = z
      <4>1. d[k] = cuts[k] /\ d[l] = n + 1
        BY <2>3, <3>1, <3>3
      <4>2. cuts[k] \in Int /\ cuts[k] <= n
        BY <1>5
      <4> QED  BY <1>2, <4>1, <4>2
    <3> QED  BY <3>2, <3>3
  <2>6. ASSUME NEW k \in 1 .. z
        PROVE  /\ Len(q[k]) = d[k] - d[k - 1] - 1
               /\ \A j \in 1 .. Len(q[k]) : q[k][j] = s[d[k - 1] + j] /\ q[k][j] # c
    <3>1. CASE k = z
      <4>1. PICK a \in Int : a = cuts[z - 1]
        BY <1>2, <1>5
      <4>2. d[k - 1] = a /\ d[k] = n + 1
        BY <1>2, <2>3, <3>1, <4>1
      <4>3. PICK part \in Seq(C) : part = p[z]
        BY <1>2
      <4>8. /\ Len(part) = n - a - 1
            /\ \A j \in 1 .. Len(part) : part[j] = s[a + j] /\ part[j] # c
        <5>1. z \in 1 .. z
          BY <1>2
        <5> QED  BY <1>8, <1>9, <4>1, <4>3, <5>1
      <4>9. q[k] = Append(part, s[n])
        BY <2>1, <3>1, <4>3
      <4>4. PICK size \in Nat : size = Len(part)
        BY <4>3
      <4>5. size = n - a - 1
        BY <4>4, <4>8
      <4>6. Len(q[k]) = size + 1
        BY <4>3, <4>4, <4>9
      <4>7. ASSUME NEW j \in 1 .. size + 1
            PROVE  q[k][j] = s[a + j] /\ q[k][j] # c
        <5>1. CASE j = size + 1
          <6>1. q[k][j] = s[n]
            BY <4>3, <4>4, <4>9, <5>1
          <6>2. a + j = n
            BY <1>2, <4>5, <5>1
          <6> QED  BY <1>7, <6>1, <6>2
        <5>2. CASE j \in 1 .. size
          <6>1. q[k][j] = part[j]
            BY <4>3, <4>4, <4>9, <5>2
          <6>2. part[j] = s[a + j] /\ part[j] # c
            BY <4>4, <4>8, <5>2
          <6> QED  BY <6>1, <6>2
        <5> QED  BY <5>1, <5>2
      <4> QED  BY <1>2, <4>2, <4>5, <4>6, <4>7
    <3>2. CASE k \in 1 .. z - 1
      <4>1. q[k] = p[k]
        BY <2>1, <3>2
      <4>2. d[k] = cuts[k]
        BY <2>3, <3>2
      <4>3. d[k - 1] = cuts[k - 1]
        BY <2>3, <3>2
      <4> QED  BY <1>9, <3>2, <4>1, <4>2, <4>3
    <3> QED  BY <3>1, <3>2
  <2>7. ASSUME NEW k \in 1 .. z - 1
        PROVE  s[d[k]] = c
    <3>1. s[cuts[k]] = c
      BY <1>4
    <3>2. k \in 0 .. z - 1
      BY <1>2
    <3> QED  BY <2>3, <3>1, <3>2
  <2>8. IsCut(s, c, n, q, d)
    BY <2>1, <2>2, <2>3, <2>4, <2>5, <2>6, <2>7 DEF IsCut
  <2> QED  BY <1>3, <2>8
<1> QED  BY <1>6, <1>7

LEMMA SplitCuts ==
    ASSUME NEW C, NEW s \in Seq(C), NEW c
    PROVE  /\ H!Split(s, c) \in Parts(C)
           /\ \E cuts : IsCut(s, c, Len(s), H!Split(s, c), cuts)
<1>1. PICK f \in [0 .. Len(s) -> Parts(C)] :
         /\ f[0] = << << >> >>
         /\ \A n \in 1 .. Len(s) : f[n] = Extended(f[n - 1], s[n], c)
         /\ H!Split(s, c) = f[Len(s)]
  <2>1. PICK f : SplitBy(C, s, c, f)
    BY SplitSteps
  <2> QED  BY <2>1 DEF SplitBy
<1>2. PICK N \in Nat : N = Len(s)
  OBVIOUS
<1> DEFINE T == {n \in 0 .. N : \E cuts : IsCut(s, c, n, f[n], cuts)}
<1>3. 0 \in T
  <2> DEFINE cuts == [k \in 0 .. 1 |-> k]
  <2>0. 0 \in 0 .. Len(s)
    BY <1>2
  <2>1. PICK p \in Parts(C) : p = f[0]
    BY <1>1, <2>0
  <2>2. p = << << >> >> /\ Len(p) = 1 /\ Len(p[1]) = 0
    BY <1>1, <2>1
  <2>3. cuts \in [0 .. 1 -> 0 .. 0 + 1] /\ cuts[0] = 0 /\ cuts[1] = 1
    OBVIOUS
  <2> HIDE DEF cuts
  <2>4. \A k, l \in 0 .. 1 : k < l => cuts[k] < cuts[l]
    BY <2>3
  <2>5. \A k \in 1 .. 1 : Len(p[k]) = cuts[k] - cuts[k - 1] - 1
    BY <2>2, <2>3
  <2>6. IsCut(s, c, 0, p, cuts)
    BY <2>2, <2>3, <2>4, <2>5 DEF IsCut
  <2> QED  BY <1>2, <2>1, <2>6
<1>4. ASSUME NEW n \in 1 .. N, n - 1 \in T
      PROVE  n \in T
  <2>1. PICK cuts : IsCut(s, c, n - 1, f[n - 1], cuts)
    BY <1>4
  <2>2. n - 1 \in 0 .. Len(s) /\ n \in 1 .. Len(s)
    BY <1>2
  <2>3. PICK p \in Parts(C) : p = f[n - 1]
    BY <1>1, <2>2
  <2>4. \E d : IsCut(s, c, n, Extended(p, s[n], c), d)
    BY <2>1, <2>2, <2>3, CutStep
  <2> QED  BY <1>1, <2>2, <2>3, <2>4
<1>5. \A n \in 1 .. N : n - 1 \in T => n \in T
  BY <1>4
<1>6. N \in T
  <2> HIDE DEF T
  <2>1. \A n \in 0 .. N : n \in T
    BY <1>2, <1>3, <1>5, Upwards
  <2> QED  BY <2>1
<1>7. f[Len(s)] \in Parts(C)
  BY <1>1, <1>2
<1> QED  BY <1>1, <1>2, <1>6, <1>7

Cut(s, c, n, p, z, cuts) ==
    /\ n \in Nat /\ z \in Nat /\ z >= 1 /\ z = Len(p)
    /\ IsCut(s, c, n, p, cuts)

LEMMA CutFacts ==
    ASSUME NEW s, NEW c, NEW n, NEW p, NEW z, NEW cuts, Cut(s, c, n, p, z, cuts)
    PROVE  /\ n \in Nat /\ z \in Nat /\ z >= 1 /\ z = Len(p)
           /\ cuts[0] = 0 /\ cuts[z] = n + 1
           /\ \A k \in 0 .. z : cuts[k] \in 0 .. n + 1
           /\ \A k \in 1 .. z : cuts[k - 1] < cuts[k]
           /\ \A k \in 1 .. z : Len(p[k]) = cuts[k] - cuts[k - 1] - 1
           /\ \A k \in 1 .. z - 1 : cuts[k] \in 1 .. n /\ s[cuts[k]] = c
<1>1. n \in Nat /\ z \in Nat /\ z >= 1 /\ z = Len(p) /\ IsCut(s, c, n, p, cuts)
  BY DEF Cut
<1>2. /\ cuts[0] = 0 /\ cuts[z] = n + 1
      /\ \A k \in 0 .. z : cuts[k] \in 0 .. n + 1
      /\ \A k, l \in 0 .. z : k < l => cuts[k] < cuts[l]
  BY <1>1 DEF IsCut
<1>3. \A k \in 1 .. z : Len(p[k]) = cuts[k] - cuts[k - 1] - 1
  BY <1>1 DEF IsCut
<1>4. \A k \in 1 .. z - 1 : s[cuts[k]] = c
  BY <1>1 DEF IsCut
<1>5. ASSUME NEW k \in 1 .. z PROVE cuts[k - 1] < cuts[k]
  <2>1. k - 1 \in 0 .. z /\ k \in 0 .. z /\ k - 1 < k
    BY <1>1
  <2> QED  BY <1>2, <2>1
<1>6. ASSUME NEW k \in 1 .. z - 1 PROVE cuts[k] \in 1 .. n
  <2>1. k \in 0 .. z /\ 0 \in 0 .. z /\ z \in 0 .. z /\ 0 < k /\ k < z
    BY <1>1
  <2>2. cuts[0] < cuts[k] /\ cuts[k] < cuts[z] /\ cuts[k] \in Int
    BY <1>2, <2>1
  <2> QED  BY <1>1, <1>2, <2>2
<1> QED  BY <1>1, <1>2, <1>3, <1>4, <1>5, <1>6

(* Every place is in a part or is where it was cut.                        *)
LEMMA CutPlace ==
    ASSUME NEW s, NEW c, NEW n, NEW p, NEW z, NEW cuts, Cut(s, c, n, p, z, cuts),
           NEW i \in 1 .. n + 1
    PROVE  \E k \in 1 .. z : cuts[k - 1] < i /\ i <= cuts[k]
<1> SUFFICES ASSUME \A k \in 1 .. z : ~(cuts[k - 1] < i /\ i <= cuts[k])
             PROVE  FALSE
  OBVIOUS
<1>1. /\ n \in Nat /\ z \in Nat /\ cuts[0] = 0 /\ cuts[z] = n + 1
      /\ \A k \in 0 .. z : cuts[k] \in 0 .. n + 1
  BY CutFacts
<1> DEFINE T == {k \in 0 .. z : cuts[k] < i}
<1>2. 0 \in T
  BY <1>1
<1>3. ASSUME NEW k \in 1 .. z, k - 1 \in T PROVE k \in T
  <2>1. cuts[k - 1] < i /\ k \in 0 .. z
    BY <1>3
  <2>2. ~(i <= cuts[k]) /\ cuts[k] \in Int
    BY <1>1, <2>1
  <2> QED  BY <2>1, <2>2
<1>4. \A k \in 1 .. z : k - 1 \in T => k \in T
  BY <1>3
<1>5. z \in T
  <2> HIDE DEF T
  <2>1. \A k \in 0 .. z : k \in T
    BY <1>1, <1>2, <1>4, Upwards
  <2> QED  BY <1>1, <2>1
<1> QED  BY <1>1, <1>5

LEMMA CutInside ==
    ASSUME NEW s, NEW c, NEW n, NEW p, NEW z, NEW cuts, Cut(s, c, n, p, z, cuts),
           NEW k \in 1 .. z, NEW i \in Int, cuts[k - 1] < i, i < cuts[k]
    PROVE  /\ i - cuts[k - 1] \in 1 .. Len(p[k])
           /\ p[k][i - cuts[k - 1]] = s[i] /\ s[i] # c
           /\ i \in 1 .. n
<1>5. n \in Nat /\ z \in Nat /\ z = Len(p) /\ IsCut(s, c, n, p, cuts)
  BY DEF Cut
<1>1. PICK a, b \in Int : /\ a = cuts[k - 1] /\ b = cuts[k]
                          /\ a >= 0 /\ b <= n + 1
                          /\ Len(p[k]) = b - a - 1
  <2>1. k - 1 \in 0 .. z /\ k \in 0 .. z
    BY <1>5
  <2>2. cuts[k - 1] \in 0 .. n + 1 /\ cuts[k] \in 0 .. n + 1
    BY <2>1, CutFacts
  <2>3. Len(p[k]) = cuts[k] - cuts[k - 1] - 1
    BY CutFacts
  <2> QED  BY <1>5, <2>2, <2>3
<1>2. i - a \in 1 .. Len(p[k]) /\ i \in 1 .. n
  <2>1. a < i /\ i < b
    BY <1>1
  <2>2. PICK size \in Int : size = Len(p[k]) /\ size = b - a - 1
    BY <1>1
  <2>3. i - a >= 1 /\ i - a <= size
    BY <2>1, <2>2
  <2>4. i >= 1 /\ i <= n
    BY <1>1, <1>5, <2>1
  <2> QED  BY <2>2, <2>3, <2>4
<1>3. p[k][i - a] = s[a + (i - a)] /\ p[k][i - a] # c
  BY <1>1, <1>2, <1>5 DEF IsCut
<1>4. a + (i - a) = i
  BY <1>1
<1> QED  BY <1>1, <1>2, <1>3, <1>4

-----------------------------------------------------------------------------
(* Names: the rules of their parts and those of dots and hyphens are the   *)
(* same.                                                                   *)

NameChar == H!Alphanumeric \cup {H!Hyphen}

GoodLabel(part) ==
    /\ Len(part) \in 1 .. MaxLabel
    /\ part[1] # H!Hyphen /\ part[Len(part)] # H!Hyphen
    /\ \A j \in 1 .. Len(part) : part[j] \in NameChar

NotDigits(part) == \E j \in 1 .. Len(part) : part[j] \notin H!Digit

Labelled(p) ==
    /\ \A k \in 1 .. Len(p) : GoodLabel(p[k])
    /\ NotDigits(p[Len(p)])

(* IsName but for the greatest length.                                     *)
Punctuated(s) ==
    \A i \in 1 .. Len(s) : s[i] \in {H!Hyphen, H!Dot} =>
        /\ i \notin {1, Len(s)}
        /\ H!Dot \notin {s[i - 1], s[i + 1]}
Short(s) ==
    \A i \in 1 .. Len(s) : i + MaxLabel <= Len(s) =>
        \E j \in i .. i + MaxLabel : s[j] = H!Dot
Named(s) ==
    /\ Len(s) >= 1
    /\ \A i \in 1 .. Len(s) : s[i] \in NameChar \cup {H!Dot}
    /\ Punctuated(s) /\ Short(s)

LEMMA Characters ==
    /\ H!Dot \notin NameChar /\ H!Hyphen # H!Dot
    /\ H!Hyphen \in NameChar /\ NameChar \cup {H!Dot} \subseteq H!Char
    /\ H!Digit \subseteq NameChar
BY DEF NameChar, H!Dot, H!Hyphen, H!Alphanumeric, H!Alpha, H!Digit, H!V, H!Letter, H!Char

LEMMA LabelsName ==
    ASSUME NEW s, NEW n, n = Len(s), NEW p, NEW z, NEW cuts,
           Cut(s, H!Dot, n, p, z, cuts), MaxLabel \in Nat \ {0},
           \A k \in 1 .. z : GoodLabel(p[k])
    PROVE  Named(s)
<1>1. /\ n \in Nat /\ z \in Nat /\ z >= 1
      /\ cuts[0] = 0 /\ cuts[z] = n + 1
      /\ \A k \in 0 .. z : cuts[k] \in 0 .. n + 1
      /\ \A k \in 1 .. z : Len(p[k]) = cuts[k] - cuts[k - 1] - 1
      /\ \A k \in 1 .. z - 1 : cuts[k] \in 1 .. n /\ s[cuts[k]] = H!Dot
  BY CutFacts
<1>2. ASSUME NEW k \in 1 .. z
      PROVE  /\ cuts[k] \in Int /\ cuts[k - 1] \in Int
             /\ cuts[k - 1] >= 0 /\ cuts[k] <= n + 1
             /\ cuts[k] - cuts[k - 1] >= 2
             /\ cuts[k] - cuts[k - 1] - 1 <= MaxLabel
  <2>1. k - 1 \in 0 .. z /\ k \in 0 .. z
    BY <1>1
  <2>2. Len(p[k]) \in 1 .. MaxLabel
    BY DEF GoodLabel
  <2> QED  BY <1>1, <2>1, <2>2
<1>3. ASSUME NEW i \in 1 .. n
      PROVE  \E k \in 1 .. z :
                \/ i = cuts[k] /\ k # z
                \/ cuts[k - 1] < i /\ i < cuts[k]
  <2>1. i \in 1 .. n + 1
    BY <1>1
  <2>2. PICK k \in 1 .. z : cuts[k - 1] < i /\ i <= cuts[k]
    BY <2>1, CutPlace
  <2>3. i = cuts[k] \/ i < cuts[k]
    BY <1>2, <2>2
  <2>4. i = cuts[k] => k # z
    BY <1>1
  <2> QED  BY <2>2, <2>3, <2>4
<1>4. ASSUME NEW k \in 1 .. z, NEW i \in Int, cuts[k - 1] < i, i < cuts[k]
      PROVE  /\ s[i] \in NameChar /\ s[i] # H!Dot
             /\ s[i] = H!Hyphen => i # cuts[k - 1] + 1 /\ i # cuts[k] - 1
  <2>0. PICK c : c = H!Dot
    OBVIOUS
  <2>1. /\ i - cuts[k - 1] \in 1 .. Len(p[k])
        /\ p[k][i - cuts[k - 1]] = s[i] /\ s[i] # c
    BY <1>4, <2>0, CutInside
  <2>2. PICK a \in Int : a = cuts[k - 1] /\ Len(p[k]) = cuts[k] - a - 1
    BY <1>1, <1>2
  <2>3. s[i] \in NameChar
    BY <2>1 DEF GoodLabel
  <2>4. s[i] = H!Hyphen => i - a # 1 /\ i - a # Len(p[k])
    BY <2>1, <2>2 DEF GoodLabel
  <2>5. cuts[k] \in Int
    BY <1>2
  <2>6. i - a # 1 => i # a + 1
    OBVIOUS
  <2>7. i - a # Len(p[k]) => i # cuts[k] - 1
    BY <2>2, <2>5
  <2> QED  BY <2>0, <2>1, <2>2, <2>3, <2>4, <2>6, <2>7
<1>5. n >= 1
  <2>1. 1 \in 1 .. z /\ 1 - 1 = 0
    BY <1>1
  <2>2. cuts[1] >= 2 /\ cuts[1] <= n + 1 /\ cuts[1] \in Int
    BY <1>1, <1>2, <2>1
  <2> QED  BY <2>2
<1>6. ASSUME NEW i \in 1 .. n
      PROVE  s[i] \in NameChar \cup {H!Dot}
  <2>1. PICK k \in 1 .. z : \/ i = cuts[k] /\ k # z
                            \/ cuts[k - 1] < i /\ i < cuts[k]
    BY <1>3
  <2>2. CASE i = cuts[k] /\ k # z
    BY <1>1, <2>2
  <2>3. CASE cuts[k - 1] < i /\ i < cuts[k]
    BY <1>4, <2>3
  <2> QED  BY <2>1, <2>2, <2>3
<1>7. ASSUME NEW i \in 1 .. n, s[i] \in {H!Hyphen, H!Dot}
      PROVE  /\ i # 1 /\ i # n
             /\ H!Dot # s[i - 1] /\ H!Dot # s[i + 1]
  <2>1. PICK k \in 1 .. z : \/ i = cuts[k] /\ k # z
                            \/ cuts[k - 1] < i /\ i < cuts[k]
    BY <1>3
  <2>2. PICK a, b \in Int : a = cuts[k - 1] /\ b = cuts[k] /\ a >= 0 /\ b <= n + 1
                            /\ b - a >= 2
    BY <1>2
  <2>3. CASE i = cuts[k] /\ k # z
    <3>1. a < i - 1 /\ i - 1 < b
      BY <2>2, <2>3
    <3>2. s[i - 1] # H!Dot
      BY <1>4, <2>2, <3>1
    <3>3. PICK l \in 1 .. z : l = k + 1 /\ l - 1 = k
      BY <1>1, <2>3
    <3>4. PICK d \in Int : d = cuts[l] /\ d <= n + 1 /\ d - i >= 2
      BY <1>2, <2>3, <3>3
    <3>5. i < i + 1 /\ i + 1 < d
      BY <3>4
    <3>6. s[i + 1] # H!Dot
      BY <1>4, <2>3, <3>3, <3>4, <3>5
    <3>7. i # 1 /\ i # n
      <4>3. i = b /\ i \in Int
        BY <2>2, <2>3
      <4>1. i >= a + 2 /\ i + 2 <= d
        <5>1. b - a >= 2 /\ d - i >= 2
          BY <2>2, <3>4
        <5> QED  BY <4>3, <5>1
      <4>2. i >= 2 /\ i + 2 <= n + 1
        <5>1. a >= 0 /\ d <= n + 1 /\ n \in Nat
          BY <1>1, <2>2, <3>4
        <5> QED  BY <4>1, <4>3, <5>1
      <4> QED  BY <1>1, <4>2, <4>3
    <3> QED  BY <3>2, <3>6, <3>7
  <2>4. CASE cuts[k - 1] < i /\ i < cuts[k]
    <3>1. s[i] = H!Hyphen
      BY <1>4, <1>7, <2>4
    <3>2. i # a + 1 /\ i # b - 1
      BY <1>4, <2>2, <2>4, <3>1
    <3>3. a < i - 1 /\ i - 1 < b /\ a < i + 1 /\ i + 1 < b
      <4>1. a < i /\ i < b
        BY <2>2, <2>4
      <4> QED  BY <3>2, <4>1
    <3>4. s[i - 1] # H!Dot /\ s[i + 1] # H!Dot
      BY <1>4, <2>2, <3>3
    <3>5. i # 1 /\ i # n
      BY <2>2, <3>3
    <3> QED  BY <3>4, <3>5
  <2> QED  BY <2>1, <2>3, <2>4
<1>8. ASSUME NEW i \in 1 .. n, i + MaxLabel <= n
      PROVE  \E j \in i .. i + MaxLabel : s[j] = H!Dot
  <2>1. i \in 1 .. n + 1
    BY <1>1
  <2>2. PICK k \in 1 .. z : cuts[k - 1] < i /\ i <= cuts[k]
    BY <2>1, CutPlace
  <2>3. PICK a, b \in Int : /\ a = cuts[k - 1] /\ b = cuts[k]
                            /\ b - a - 1 <= MaxLabel
    BY <1>2
  <2>4. b <= i + MaxLabel /\ b <= n
    BY <1>8, <2>2, <2>3
  <2>5. k # z
    BY <1>1, <2>3, <2>4
  <2>6. s[b] = H!Dot
    BY <1>1, <2>3, <2>5
  <2>7. b \in i .. i + MaxLabel
    BY <2>2, <2>3, <2>4
  <2> QED  BY <2>6, <2>7
<1> QED  BY <1>5, <1>6, <1>7, <1>8 DEF Named, Punctuated, Short

LEMMA NameLabels ==
    ASSUME NEW s, NEW n, n = Len(s), NEW p, NEW z, NEW cuts,
           Cut(s, H!Dot, n, p, z, cuts), MaxLabel \in Nat \ {0}, Named(s)
    PROVE  \A k \in 1 .. z : GoodLabel(p[k])
<1>1. /\ n \in Nat /\ z \in Nat /\ z >= 1
      /\ cuts[0] = 0 /\ cuts[z] = n + 1
      /\ \A k \in 0 .. z : cuts[k] \in 0 .. n + 1
      /\ \A k \in 1 .. z : cuts[k - 1] < cuts[k]
      /\ \A k \in 1 .. z : Len(p[k]) = cuts[k] - cuts[k - 1] - 1
      /\ \A k \in 1 .. z - 1 : cuts[k] \in 1 .. n /\ s[cuts[k]] = H!Dot
  BY CutFacts
<1>2. /\ n >= 1
      /\ \A i \in 1 .. n : s[i] \in NameChar \cup {H!Dot}
      /\ \A i \in 1 .. n : s[i] \in {H!Hyphen, H!Dot} =>
            i # 1 /\ i # n /\ H!Dot # s[i - 1] /\ H!Dot # s[i + 1]
      /\ \A i \in 1 .. n : i + MaxLabel <= n => \E j \in i .. i + MaxLabel : s[j] = H!Dot
  BY DEF Named, Punctuated, Short
<1> TAKE k \in 1 .. z
<1>3. PICK a, b \in Int :
         /\ a = cuts[k - 1] /\ b = cuts[k] /\ a >= 0 /\ b <= n + 1 /\ a < b
         /\ Len(p[k]) = b - a - 1
  <2>1. k - 1 \in 0 .. z /\ k \in 0 .. z
    BY <1>1
  <2>2. cuts[k - 1] \in 0 .. n + 1 /\ cuts[k] \in 0 .. n + 1
    BY <1>1, <2>1
  <2>3. Len(p[k]) = cuts[k] - cuts[k - 1] - 1 /\ cuts[k - 1] < cuts[k]
    BY <1>1
  <2> QED  BY <2>2, <2>3
<1>4. \/ a = 0
      \/ a \in 1 .. n /\ s[a] = H!Dot
  <2>1. k = 1 \/ k - 1 \in 1 .. z - 1
    BY <1>1
  <2>2. CASE k = 1
    BY <1>1, <1>3, <2>2
  <2>3. CASE k - 1 \in 1 .. z - 1
    BY <1>1, <1>3, <2>3
  <2> QED  BY <2>1, <2>2, <2>3
<1>5. \/ b = n + 1
      \/ b \in 1 .. n /\ s[b] = H!Dot
  <2>1. k = z \/ k \in 1 .. z - 1
    BY <1>1
  <2>2. CASE k = z
    BY <1>1, <1>3, <2>2
  <2>3. CASE k \in 1 .. z - 1
    BY <1>1, <1>3, <2>3
  <2> QED  BY <2>1, <2>2, <2>3
<1>6. ASSUME NEW i \in Int, a < i, i < b
      PROVE  /\ i \in 1 .. n /\ s[i] # H!Dot /\ s[i] \in NameChar
             /\ s[i] = p[k][i - a]
  <2>0. PICK c : c = H!Dot
    OBVIOUS
  <2>3. Cut(s, c, n, p, z, cuts)
    BY <2>0
  <2>4. cuts[k - 1] < i /\ i < cuts[k]
    BY <1>3, <1>6
  <2>1. /\ p[k][i - cuts[k - 1]] = s[i] /\ s[i] # c /\ i \in 1 .. n
    BY <1>6, <2>3, <2>4, CutInside
  <2> QED  BY <1>2, <1>3, <2>0, <2>1
<1>7. b # a + 1
  <2> SUFFICES ASSUME b = a + 1 PROVE FALSE
    OBVIOUS
  <2>1. CASE a = 0
    <3>1. b = 1 /\ b \in 1 .. n /\ s[b] = H!Dot
      BY <1>1, <1>2, <1>3, <1>5, <2>1
    <3> QED  BY <1>2, <3>1
  <2>2. CASE a \in 1 .. n /\ s[a] = H!Dot
    <3>1. a # n /\ H!Dot # s[a + 1]
      BY <1>2, <2>2
    <3> QED  BY <1>1, <1>3, <1>5, <2>2, <3>1
  <2> QED  BY <1>4, <2>1, <2>2
<1>8. b - a - 1 <= MaxLabel
  <2> SUFFICES ASSUME b - a - 1 > MaxLabel PROVE FALSE
    BY <1>3
  <2>1. a + 1 \in 1 .. n /\ a + 1 + MaxLabel <= n /\ a + 1 + MaxLabel < b
    <3>1. n \in Nat /\ a >= 0 /\ b <= n + 1
      BY <1>1, <1>3
    <3>2. a + 1 + MaxLabel < b
      OBVIOUS
    <3>3. a + 1 + MaxLabel <= n
      BY <3>1, <3>2
    <3> QED  BY <3>1, <3>2, <3>3
  <2>2. PICK j \in (a + 1) .. (a + 1 + MaxLabel) : s[j] = H!Dot
    BY <1>2, <2>1
  <2>3. j \in Int /\ a < j /\ j < b
    BY <2>1
  <2> QED  BY <1>6, <2>2, <2>3
<1>9. a < a + 1 /\ a + 1 < b /\ a < b - 1 /\ b - 1 < b
  <2>1. a < b
    BY <1>3
  <2> QED  BY <1>7, <2>1
<1>10. p[k][1] # H!Hyphen
  <2>1. s[a + 1] = p[k][a + 1 - a] /\ a + 1 - a = 1 /\ a + 1 \in 1 .. n
    BY <1>6, <1>9
  <2>2. a + 1 - 1 = a
    BY <1>3
  <2>3. s[a + 1] = H!Hyphen => a + 1 # 1 /\ H!Dot # s[a]
    BY <1>2, <2>1, <2>2
  <2>4. a = 0 => a + 1 = 1
    BY <1>3
  <2>5. s[a + 1] # H!Hyphen
    BY <1>4, <2>3, <2>4
  <2> QED  BY <2>1, <2>5
<1>11. p[k][b - a - 1] # H!Hyphen
  <2>1. s[b - 1] = p[k][b - 1 - a] /\ b - 1 - a = b - a - 1 /\ b - 1 \in 1 .. n
    BY <1>6, <1>9
  <2>2. b - 1 + 1 = b
    BY <1>3
  <2>3. s[b - 1] = H!Hyphen => b - 1 # n /\ H!Dot # s[b]
    BY <1>2, <2>1, <2>2
  <2> QED  BY <1>1, <1>3, <1>5, <2>1, <2>3
<1>12. ASSUME NEW j \in 1 .. b - a - 1
       PROVE  p[k][j] \in NameChar
  <2>1. PICK i \in Int : i = a + j
    OBVIOUS
  <2>2. a < i /\ i < b /\ i - a = j
    BY <2>1
  <2> QED  BY <1>6, <2>2
<1>13. b - a - 1 \in 1 .. MaxLabel
  BY <1>3, <1>7, <1>8
<1> QED  BY <1>3, <1>10, <1>11, <1>12, <1>13 DEF GoodLabel

(* The last label is what follows the last dot.                            *)
LEMMA LastLabel ==
    ASSUME NEW s, NEW n, n = Len(s), NEW p, NEW z, NEW cuts,
           Cut(s, H!Dot, n, p, z, cuts), NEW last, last \in 0 .. n,
           last # 0 => s[last] = H!Dot,
           \A i \in last + 1 .. n : s[i] # H!Dot
    PROVE  NotDigits(p[z]) <=> \E i \in last + 1 .. n : s[i] \notin H!Digit
<1>1. /\ n \in Nat /\ z \in Nat /\ z >= 1
      /\ cuts[0] = 0 /\ cuts[z] = n + 1
      /\ \A k \in 0 .. z : cuts[k] \in 0 .. n + 1
      /\ \A k \in 1 .. z : cuts[k - 1] < cuts[k]
      /\ \A k \in 1 .. z : Len(p[k]) = cuts[k] - cuts[k - 1] - 1
      /\ \A k \in 1 .. z - 1 : cuts[k] \in 1 .. n /\ s[cuts[k]] = H!Dot
  BY CutFacts
<1>2. PICK a \in Int : a = cuts[z - 1] /\ a >= 0 /\ a <= n /\ Len(p[z]) = n - a
  <2>1. z - 1 \in 0 .. z /\ z \in 1 .. z
    BY <1>1
  <2>2. cuts[z - 1] \in 0 .. n + 1 /\ cuts[z - 1] < cuts[z]
    BY <1>1, <2>1
  <2>3. Len(p[z]) = cuts[z] - cuts[z - 1] - 1 /\ cuts[z] = n + 1
    BY <1>1, <2>1
  <2> QED  BY <1>1, <2>2, <2>3
<1>3. ASSUME NEW i \in a + 1 .. n
      PROVE  s[i] # H!Dot /\ p[z][i - a] = s[i]
  <2>0. PICK c : c = H!Dot
    OBVIOUS
  <2>1. i \in Int /\ cuts[z - 1] < i /\ i < cuts[z] /\ z \in 1 .. z
    <3>1. n \in Nat /\ i \in Int /\ a + 1 <= i /\ i <= n /\ a = cuts[z - 1]
      BY <1>1, <1>2
    <3>2. cuts[z] = n + 1 /\ z \in Nat /\ z >= 1
      BY <1>1
    <3>3. a < i /\ i < n + 1
      BY <3>1
    <3> QED  BY <3>1, <3>2, <3>3
  <2>2. p[z][i - cuts[z - 1]] = s[i] /\ s[i] # c
    BY <2>0, <2>1, CutInside
  <2> QED  BY <1>2, <2>0, <2>2
<1>4. a = last
  <2>1. last <= a
    <3> SUFFICES ASSUME a < last PROVE FALSE
      BY <1>1, <1>2
    <3>1. last \in a + 1 .. n /\ last # 0
      BY <1>1, <1>2
    <3> QED  BY <1>3, <3>1
  <2>2. a <= last
    <3> SUFFICES ASSUME last < a PROVE FALSE
      BY <1>1, <1>2
    <3>1. a \in last + 1 .. n /\ a # 0
      BY <1>1, <1>2
    <3>2. z - 1 \in 1 .. z - 1
      BY <1>1, <1>2, <3>1
    <3> QED  BY <1>1, <1>2, <3>1, <3>2
  <2> QED  BY <1>1, <1>2, <2>1, <2>2
<1>5. ASSUME NEW j \in 1 .. n - a, p[z][j] \notin H!Digit
      PROVE  \E i \in a + 1 .. n : s[i] \notin H!Digit
  <2>1. a + j \in a + 1 .. n /\ a + j - a = j
    <3>1. n \in Nat /\ j \in Int /\ 1 <= j /\ j <= n - a
      BY <1>1
    <3> QED  BY <3>1
  <2> QED  BY <1>3, <1>5, <2>1
<1>6. ASSUME NEW i \in a + 1 .. n, s[i] \notin H!Digit
      PROVE  \E j \in 1 .. n - a : p[z][j] \notin H!Digit
  <2>1. i - a \in 1 .. n - a
    <3>1. n \in Nat /\ i \in Int /\ a + 1 <= i /\ i <= n
      BY <1>1
    <3> QED  BY <3>1
  <2> QED  BY <1>3, <1>6, <2>1
<1> QED  BY <1>2, <1>4, <1>5, <1>6 DEF NotDigits

LEMMA Greatest ==
    ASSUME NEW N \in Nat, NEW T \in SUBSET (1 .. N), T # {}
    PROVE  \E k \in T : \A j \in T : j <= k
<1> SUFFICES ASSUME \A k \in T : \E j \in T : k < j
             PROVE  FALSE
  <2>0. \A j \in T : j \in Int
    OBVIOUS
  <2>1. \A j, k \in T : ~(k < j) => j <= k
    BY ONLY <2>0
  <2> QED  BY <2>1
<1> DEFINE R == {k \in 0 .. N : \E j \in T : k <= j}
<1>1. 0 \in R
  <2>1. PICK j : j \in T
    BY Zenon
  <2>2. j \in 1 .. N /\ 0 \in 0 .. N /\ 0 <= j
    BY <2>1
  <2> QED  BY <2>1, <2>2
<1>2. ASSUME NEW k \in 1 .. N, k - 1 \in R PROVE k \in R
  <2>1. PICK j \in T : k - 1 <= j
    BY <1>2
  <2>2. PICK i \in T : j < i
    OBVIOUS
  <2>3. k <= i
    BY <2>1, <2>2
  <2> QED  BY <2>3
<1>3. N \in R
  <2>1. \A k \in 1 .. N : k - 1 \in R => k \in R
    BY <1>2
  <2> HIDE DEF R
  <2>2. \A k \in 0 .. N : k \in R
    BY <1>1, <2>1, Upwards
  <2> QED  BY <2>2
<1>4. PICK k \in T : N <= k
  BY <1>3
<1>5. PICK j \in T : k < j
  OBVIOUS
<1> QED  BY <1>4, <1>5

(* Where a character is last.                                              *)
LastPlace(s, c) == H!SelectLastInSeq(s, LAMBDA d : d = c)

LEMMA LastPlaceIs ==
    ASSUME NEW s, NEW n \in Nat, n = Len(s), NEW c
    PROVE  /\ LastPlace(s, c) \in 0 .. n
           /\ LastPlace(s, c) # 0 => s[LastPlace(s, c)] = c
           /\ \A i \in LastPlace(s, c) + 1 .. n : s[i] # c
<1> DEFINE T == {i \in 1 .. n : s[i] = c}
<1>1. LastPlace(s, c) = IF T # {} THEN H!Max(T) ELSE 0
  BY DEF LastPlace, H!SelectLastInSeq
<1>2. CASE T # {}
  <2>1. T \in SUBSET (1 .. n)
    OBVIOUS
  <2>2. H!Max(T) \in T /\ \A j \in T : j <= H!Max(T)
    <3> HIDE DEF T
    <3>1. \E k \in T : \A j \in T : j <= k
      BY <1>2, <2>1, Greatest
    <3>2. \A j \in T : j \in Int
      BY <2>1
    <3>3. \E k \in T : \A j \in T : k >= j
      BY <3>1, <3>2
    <3>4. H!Max(T) \in T /\ \A j \in T : H!Max(T) >= j
      BY <3>3 DEF H!Max
    <3> QED  BY <3>2, <3>4
  <2>3. PICK k \in 1 .. n : k = H!Max(T) /\ s[k] = c /\ \A j \in T : j <= k
    BY <2>2
  <2>4. \A i \in k + 1 .. n : s[i] # c
    BY <2>3
  <2> QED  BY <1>1, <1>2, <2>3, <2>4
<1>3. CASE T = {}
  BY <1>1, <1>3
<1> QED  BY <1>2, <1>3

LEMMA WellCut ==
    ASSUME NEW s \in Seq(H!Char), MaxLabel \in Nat \ {0}
    PROVE  Labelled(H!Split(s, H!Dot))
             <=> Named(s) /\ \E i \in LastPlace(s, H!Dot) + 1 .. Len(s) : s[i] \notin H!Digit
<1>1. PICK C : C = H!Char
  OBVIOUS
<1>2. PICK c : c = H!Dot
  OBVIOUS
<1>3. PICK p : p = H!Split(s, c)
  OBVIOUS
<1>4. p \in Parts(C) /\ \E cuts : IsCut(s, c, Len(s), p, cuts)
  BY <1>1, <1>3, SplitCuts
<1>5. PICK cuts : IsCut(s, c, Len(s), p, cuts)
  BY <1>4
<1>6. PICK n \in Nat : n = Len(s)
  OBVIOUS
<1>7. PICK z \in Nat : z = Len(p) /\ z >= 1
  BY <1>4 DEF Parts
<1>8. Cut(s, H!Dot, n, p, z, cuts)
  BY <1>2, <1>5, <1>6, <1>7 DEF Cut
<1>9. PICK last : last = LastPlace(s, H!Dot)
  OBVIOUS
<1>10. /\ last \in 0 .. n
       /\ last # 0 => s[last] = H!Dot
       /\ \A i \in last + 1 .. n : s[i] # H!Dot
  BY <1>2, <1>6, <1>9, LastPlaceIs
<1>11. NotDigits(p[z]) <=> \E i \in last + 1 .. n : s[i] \notin H!Digit
  <2>1. /\ n = Len(s) /\ Cut(s, H!Dot, n, p, z, cuts) /\ last \in 0 .. n
        /\ last # 0 => s[last] = H!Dot
        /\ \A i \in last + 1 .. n : s[i] # H!Dot
    BY <1>6, <1>8, <1>10
  <2> QED  BY ONLY <2>1, LastLabel, Zenon
<1>12. (\A k \in 1 .. z : GoodLabel(p[k])) <=> Named(s)
  BY <1>6, <1>8, LabelsName, NameLabels
<1> QED  BY <1>2, <1>3, <1>6, <1>7, <1>9, <1>11, <1>12 DEF Labelled

LEMMA NameIs ==
    ASSUME NEW s \in Seq(H!Char), {MaxName, MaxLabel} \subseteq Nat \ {0}
    PROVE  H!IsName(s) <=> Len(s) <= MaxName /\ Labelled(H!Split(s, H!Dot))
<1>1. PICK n \in Nat : n = Len(s)
  OBVIOUS
<1>2. DOMAIN s = 1 .. n
  BY <1>1
<1>3. H!ToSet(s) \subseteq NameChar \cup {H!Dot}
        <=> \A i \in 1 .. n : s[i] \in NameChar \cup {H!Dot}
  BY <1>2 DEF H!ToSet
<1>4. H!Alphanumeric \cup {H!Hyphen, H!Dot} = NameChar \cup {H!Dot}
  BY DEF NameChar
<1>5. H!IsName(s) <=>
        /\ n \in 1 .. MaxName
        /\ \A i \in 1 .. n : s[i] \in NameChar \cup {H!Dot}
        /\ Punctuated(s) /\ Short(s)
        /\ \E i \in LastPlace(s, H!Dot) + 1 .. n : s[i] \notin H!Digit
  BY <1>1, <1>2, <1>3, <1>4 DEF H!IsName, Punctuated, Short, LastPlace
<1>6. n \in 1 .. MaxName <=> n >= 1 /\ n <= MaxName
  OBVIOUS
<1> QED  BY <1>1, <1>5, <1>6, WellCut DEF Named

LEMMA HostnameParts ==
    ASSUME NEW s \in Seq(H!Char)
    PROVE  LET parts == H!Split(s, H!Dot)
           IN  Labelled(parts) <=>
                 /\ \A part \in H!ToSet(parts) :
                       /\ Len(part) \in 1 .. MaxLabel
                       /\ H!Hyphen \notin {Head(part), H!Last(part)}
                       /\ H!ToSet(part) \subseteq H!Alphanumeric \cup {H!Hyphen}
                 /\ ~(H!ToSet(H!Last(parts)) \subseteq H!Digit)
<1>1. PICK C : C = H!Char
  OBVIOUS
<1>2. PICK c : c = H!Dot
  OBVIOUS
<1>3. PICK p \in Parts(C) : p = H!Split(s, H!Dot)
  BY <1>1, <1>2, SplitCuts
<1>4. PICK z \in Nat : z = Len(p) /\ z >= 1 /\ DOMAIN p = 1 .. z
  BY DEF Parts
<1> DEFINE Good(part) ==
              /\ Len(part) \in 1 .. MaxLabel
              /\ H!Hyphen \notin {Head(part), H!Last(part)}
              /\ H!ToSet(part) \subseteq H!Alphanumeric \cup {H!Hyphen}
<1>5. ASSUME NEW part \in Seq(C)
      PROVE  /\ Good(part) <=> GoodLabel(part)
             /\ NotDigits(part) <=> ~(H!ToSet(part) \subseteq H!Digit)
  <2>1. DOMAIN part = 1 .. Len(part)
    OBVIOUS
  <2>2. H!ToSet(part) = {part[j] : j \in 1 .. Len(part)}
    BY <2>1 DEF H!ToSet
  <2>3. H!Last(part) = part[Len(part)]
    BY DEF H!Last
  <2>4. Len(part) \in 1 .. MaxLabel => Head(part) = part[1]
    OBVIOUS
  <2>5. Good(part) <=> GoodLabel(part)
    BY <2>2, <2>3, <2>4 DEF GoodLabel, NameChar
  <2>6. NotDigits(part) <=> ~(H!ToSet(part) \subseteq H!Digit)
    BY <2>2 DEF NotDigits
  <2> QED  BY <2>5, <2>6
<1>6. \A k \in 1 .. z : p[k] \in Seq(C)
  BY <1>4 DEF Parts
<1> HIDE DEF Good
<1>7. (\A part \in H!ToSet(p) : Good(part)) <=> \A k \in 1 .. z : GoodLabel(p[k])
  <2>1. H!ToSet(p) = {p[k] : k \in 1 .. z}
    BY <1>4 DEF H!ToSet
  <2> QED  BY <1>5, <1>6, <2>1
<1>8. NotDigits(p[z]) <=> ~(H!ToSet(H!Last(p)) \subseteq H!Digit)
  <2>1. H!Last(p) = p[z] /\ z \in 1 .. z
    BY <1>4 DEF H!Last
  <2> QED  BY <1>5, <1>6, <2>1
<1>9. Labelled(p) <=> (\A k \in 1 .. z : GoodLabel(p[k])) /\ NotDigits(p[z])
  BY <1>4 DEF Labelled
<1>10. Labelled(p) <=>
         /\ \A part \in H!ToSet(p) : Good(part)
         /\ ~(H!ToSet(H!Last(p)) \subseteq H!Digit)
  BY <1>7, <1>8, <1>9
<1> QED  BY <1>3, <1>10 DEF Good

LEMMA HostnameIs ==
    ASSUME NEW val \in Seq(H!Char), {MaxName, MaxLabel} \subseteq Nat \ {0},
           ~(Len(val) = MaxName + 1 /\ H!Last(val) = H!Dot)
    PROVE  H!IsHostname(val) <=> H!IsDottedName(val)
<1>1. PICK n \in Nat : n = Len(val)
  OBVIOUS
<1>2. CASE val # << >> /\ H!Last(val) = H!Dot
  <2>1. n >= 1 /\ val[n] = H!Dot
    BY <1>1, <1>2 DEF H!Last
  <2>2. PICK s \in Seq(H!Char) : s = H!Front(val) /\ Len(s) = n - 1
    <3>1. H!Front(val) = SubSeq(val, 1, n - 1)
      BY <1>1 DEF H!Front
    <3>2. SubSeq(val, 1, n - 1) \in Seq(H!Char) /\ Len(SubSeq(val, 1, n - 1)) = n - 1
      BY <1>1, <2>1
    <3> QED  BY <3>1, <3>2
  <2>3. ~H!IsName(val)
    <3>1. n \in DOMAIN val /\ val[n] \in {H!Hyphen, H!Dot} /\ n \in {1, Len(val)}
      BY <1>1, <2>1
    <3> QED  BY <3>1 DEF H!IsName
  <2>4. H!IsDottedName(val) <=> H!IsName(s)
    BY <1>2, <2>2, <2>3 DEF H!IsDottedName
  <2>5. H!IsHostname(val) <=> n <= MaxName /\ Labelled(H!Split(s, H!Dot))
    <3>1. PICK parts : parts = H!Split(s, H!Dot)
      OBVIOUS
    <3>2. H!IsHostname(val) <=>
             /\ Len(val) <= MaxName
             /\ \A part \in H!ToSet(parts) :
                   /\ Len(part) \in 1 .. MaxLabel
                   /\ H!Hyphen \notin {Head(part), H!Last(part)}
                   /\ H!ToSet(part) \subseteq H!Alphanumeric \cup {H!Hyphen}
             /\ ~(H!ToSet(H!Last(parts)) \subseteq H!Digit)
      BY <1>2, <2>2, <3>1 DEF H!IsHostname
    <3> QED  BY <1>1, <3>1, <3>2, HostnameParts
  <2>6. n <= MaxName <=> n - 1 <= MaxName
    <3>1. n # MaxName + 1 /\ MaxName \in Nat
      BY <1>1, <1>2
    <3> QED  BY <3>1
  <2> QED  BY <2>2, <2>4, <2>5, <2>6, NameIs
<1>3. CASE ~(val # << >> /\ H!Last(val) = H!Dot)
  <2>1. H!IsDottedName(val) <=> H!IsName(val)
    BY <1>3 DEF H!IsDottedName
  <2>2. H!IsHostname(val) <=> n <= MaxName /\ Labelled(H!Split(val, H!Dot))
    <3>1. PICK parts : parts = H!Split(val, H!Dot)
      OBVIOUS
    <3>2. H!IsHostname(val) <=>
             /\ Len(val) <= MaxName
             /\ \A part \in H!ToSet(parts) :
                   /\ Len(part) \in 1 .. MaxLabel
                   /\ H!Hyphen \notin {Head(part), H!Last(part)}
                   /\ H!ToSet(part) \subseteq H!Alphanumeric \cup {H!Hyphen}
             /\ ~(H!ToSet(H!Last(parts)) \subseteq H!Digit)
      BY <1>3, <3>1 DEF H!IsHostname
    <3> QED  BY <1>1, <3>1, <3>2, HostnameParts
  <2> QED  BY <1>1, <2>1, <2>2, NameIs
<1> QED  BY <1>2, <1>3

-----------------------------------------------------------------------------
(* Numbers.                                                                *)

LEMMA NumberSteps ==
    ASSUME NEW d \in Seq(Nat), NEW base \in Nat
    PROVE  \E f \in [0 .. Len(d) -> Nat] :
              /\ f[0] = 0
              /\ \A n \in 1 .. Len(d) : f[n] = base * f[n - 1] + d[n]
              /\ H!Number(d, base) = f[Len(d)]
<1> DEFINE N == Len(d)
           Next1(n, x) == base * x + d[n]
           step == [n \in 1 .. N |-> [x \in Nat |-> Next1(n, x)]]
           Good(f) == f = [n \in 0 .. N |->
                              IF n = 0 THEN 0 ELSE base * f[n - 1] + d[n]]
           number == CHOOSE f : Good(f)
<1>1. N \in Nat /\ \A n \in 1 .. N : d[n] \in Nat
  OBVIOUS
<1>2. \A n \in 1 .. N, x \in Nat : Next1(n, x) \in Nat
  BY <1>1
<1>3. step \in [1 .. N -> [Nat -> Nat]]
  <2> HIDE DEF Next1, N
  <2> QED  BY <1>2
<1>4. PICK f \in [0 .. N -> Nat] :
         f[0] = 0 /\ \A n \in 1 .. N : f[n] = step[n][f[n - 1]]
  <2>1. PICK M \in Nat : M = N
    OBVIOUS
  <2>2. PICK Q : Q = Nat
    OBVIOUS
  <2>3. PICK g \in [1 .. M -> [Q -> Q]] : g = step
    BY <1>3, <2>1, <2>2
  <2>4. PICK a \in Q : a = 0
    BY <2>2
  <2> HIDE DEF step, N
  <2>5. Solvable(M, Q, a, g)
    BY Recursion
  <2>6. Solvable(N, Nat, 0, step)
    BY <2>1, <2>2, <2>3, <2>4, <2>5
  <2> QED  BY <2>6 DEF Solvable
<1>5. \A n \in 1 .. N : f[n] = base * f[n - 1] + d[n]
  <2> SUFFICES ASSUME NEW n \in 1 .. N
               PROVE  f[n] = base * f[n - 1] + d[n]
    OBVIOUS
  <2>1. n - 1 \in 0 .. N
    BY <1>1
  <2>2. PICK x \in Nat : x = f[n - 1]
    BY <1>4, <2>1
  <2>3. f[n] = Next1(n, x)
    <3> HIDE DEF Next1
    <3> QED  BY <1>4, <2>2
  <2> QED  BY <2>2, <2>3
<1>6. Good(f)
  <2>1. \A n \in 0 .. N : n = 0 \/ n \in 1 .. N
    BY <1>1
  <2> HIDE DEF N
  <2>2. \A n \in 0 .. N : f[n] = IF n = 0 THEN 0 ELSE base * f[n - 1] + d[n]
    BY <1>4, <1>5, <2>1
  <2> QED  BY <1>4, <2>2
<1>7. Good(number)
  <2> HIDE DEF Good
  <2> QED  BY <1>6
<1>8. H!Number(d, base) = number[N]
  BY DEF H!Number
<1>9. /\ number = [n \in 0 .. N |-> number[n]]
      /\ number[0] = 0
      /\ \A n \in 1 .. N : number[n] = base * number[n - 1] + d[n]
  <2> HIDE DEF number
  <2>1. DOMAIN number = 0 .. N
    BY <1>7
  <2>2. \A n \in 0 .. N : number[n] = IF n = 0 THEN 0 ELSE base * number[n - 1] + d[n]
    BY <1>7
  <2>3. number = [n \in 0 .. N |-> number[n]]
    BY <1>7, <2>1
  <2>4. \A n \in 1 .. N : n \in 0 .. N /\ n # 0
    BY <1>1
  <2>5. 0 \in 0 .. N
    BY <1>1
  <2> HIDE DEF Good, N
  <2> QED  BY <2>2, <2>3, <2>4, <2>5
<1> HIDE DEF number, Good, step
<1>10. \A n \in 0 .. N : number[n] \in Nat
  <2> DEFINE T == {n \in 0 .. N : number[n] \in Nat}
  <2>1. 0 \in T
    BY <1>1, <1>9
  <2>2. \A n \in 1 .. N : n - 1 \in T => n \in T
    <3> SUFFICES ASSUME NEW n \in 1 .. N, n - 1 \in T
                 PROVE  n \in T
      OBVIOUS
    <3>1. n \in 0 .. N /\ number[n - 1] \in Nat
      BY <1>1
    <3>2. PICK x \in Nat : x = number[n - 1]
      BY <3>1
    <3>3. number[n] = Next1(n, x)
      BY <1>9, <3>2
    <3>4. number[n] \in Nat
      <4> HIDE DEF Next1
      <4> QED  BY <1>2, <3>3
    <3> QED  BY <3>1, <3>4
  <2> HIDE DEF T
  <2>3. \A n \in 0 .. N : n \in T
    BY <1>1, <2>1, <2>2, Upwards
  <2> USE DEF T
  <2> QED  BY <2>3
<1>11. number \in [0 .. N -> Nat]
  BY <1>9, <1>10
<1> QED  BY <1>8, <1>9, <1>11

LEMMA NumberType ==
    ASSUME NEW d \in Seq(Nat), NEW base \in Nat
    PROVE  H!Number(d, base) \in Nat
<1>1. PICK f \in [0 .. Len(d) -> Nat] :
         /\ f[0] = 0
         /\ \A n \in 1 .. Len(d) : f[n] = base * f[n - 1] + d[n]
         /\ H!Number(d, base) = f[Len(d)]
  BY NumberSteps
<1>2. Len(d) \in 0 .. Len(d)
  OBVIOUS
<1> QED  BY <1>1, <1>2

(* A number of six digits or more, the first of which is not zero.         *)
LEMMA LongNumber ==
    ASSUME NEW d \in Seq(Nat), Len(d) >= 6, d[1] # 0
    PROVE  H!Number(d, 10) >= 100000
<1>1. PICK N \in Nat : N = Len(d) /\ N >= 6
  OBVIOUS
<1>2. PICK f \in [0 .. N -> Nat] :
         /\ f[0] = 0
         /\ \A n \in 1 .. N : f[n] = 10 * f[n - 1] + d[n]
         /\ H!Number(d, 10) = f[N]
  <2>1. PICK base \in Nat : base = 10
    OBVIOUS
  <2> QED  BY <1>1, <2>1, NumberSteps
<1>3. \A n \in 1 .. N : d[n] \in Nat
  BY <1>1
<1>4. \A n \in 0 .. N : f[n] \in Nat
  BY <1>2
<1>5. \A n \in 1 .. N : f[n] >= 10 * f[n - 1]
  <2> SUFFICES ASSUME NEW n \in 1 .. N PROVE f[n] >= 10 * f[n - 1]
    OBVIOUS
  <2>1. n - 1 \in 0 .. N
    BY <1>1
  <2>2. PICK x, y \in Nat : x = f[n - 1] /\ y = d[n]
    BY <1>3, <1>4, <2>1
  <2>3. f[n] = 10 * x + y
    BY <1>2, <2>2
  <2>4. 10 * x + y >= 10 * x
    OBVIOUS
  <2> QED  BY <2>2, <2>3, <2>4
<1>6. f[6] >= 100000
  <2>1. f[1] = 10 * f[0] + d[1] /\ d[1] \in Nat
    BY <1>1, <1>2, <1>3
  <2>2. f[1] >= 1
    BY <1>2, <2>1
  <2>3. /\ f[2] >= 10 * f[1] /\ f[3] >= 10 * f[2] /\ f[4] >= 10 * f[3]
        /\ f[5] >= 10 * f[4] /\ f[6] >= 10 * f[5]
    <3>1. 2 - 1 = 1 /\ 3 - 1 = 2 /\ 4 - 1 = 3 /\ 5 - 1 = 4 /\ 6 - 1 = 5
      OBVIOUS
    <3>2. {2, 3, 4, 5, 6} \subseteq 1 .. N
      BY <1>1
    <3> QED  BY <1>5, <3>1, <3>2
  <2>4. {f[1], f[2], f[3], f[4], f[5], f[6]} \subseteq Nat
    <3>1. {1, 2, 3, 4, 5, 6} \subseteq 0 .. N
      BY <1>1
    <3> QED  BY <1>4, <3>1
  <2>5. PICK a1, a2, a3, a4, a5, a6 \in Nat :
           /\ a1 = f[1] /\ a2 = f[2] /\ a3 = f[3]
           /\ a4 = f[4] /\ a5 = f[5] /\ a6 = f[6]
    BY <2>4
  <2>6. /\ a1 >= 1 /\ a2 >= 10 * a1 /\ a3 >= 10 * a2 /\ a4 >= 10 * a3
        /\ a5 >= 10 * a4 /\ a6 >= 10 * a5
    BY <2>2, <2>3, <2>5
  <2>7. a6 >= 100000
    BY <2>6
  <2> QED  BY <2>5, <2>7
<1> DEFINE T == {n \in 0 .. N : n >= 6 => f[n] >= 100000}
<1>7. 0 \in T
  BY <1>1
<1>8. ASSUME NEW n \in 1 .. N, n - 1 \in T PROVE n \in T
  <2>1. CASE n <= 6
    BY <1>1, <1>6, <2>1
  <2>2. CASE n > 6
    <3>1. n - 1 \in 0 .. N /\ n - 1 >= 6
      BY <1>1, <2>2
    <3>2. PICK x, y \in Nat : x = f[n - 1] /\ y = f[n] /\ n \in 0 .. N
      BY <1>1, <1>4, <3>1
    <3>3. x >= 100000 /\ y >= 10 * x
      BY <1>5, <1>8, <3>1, <3>2
    <3> QED  BY <3>2, <3>3
  <2> QED  BY <2>1, <2>2
<1>9. N \in T
  <2>1. \A n \in 1 .. N : n - 1 \in T => n \in T
    BY <1>8
  <2> HIDE DEF T
  <2>2. \A n \in 0 .. N : n \in T
    BY <1>1, <1>7, <2>1, Upwards
  <2> QED  BY <1>1, <2>2
<1> QED  BY <1>1, <1>2, <1>9

-----------------------------------------------------------------------------
(* Hosts and ports: what a host or a port consists of.                     *)

LEMMA CutCovers ==
    ASSUME NEW s, NEW c, NEW n, NEW p, NEW z, NEW cuts, Cut(s, c, n, p, z, cuts),
           NEW D, \A k \in 1 .. z : \A j \in 1 .. Len(p[k]) : p[k][j] \in D
    PROVE  \A i \in 1 .. n : s[i] \in D \cup {c}
<1>1. n \in Nat /\ z \in Nat /\ z >= 1 /\ cuts[z] = n + 1
      /\ (\A k \in 0 .. z : cuts[k] \in 0 .. n + 1)
      /\ (\A k \in 1 .. z - 1 : s[cuts[k]] = c)
  BY CutFacts
<1> TAKE i \in 1 .. n
<1>2. i \in 1 .. n + 1
  BY <1>1
<1>3. PICK k \in 1 .. z : cuts[k - 1] < i /\ i <= cuts[k]
  BY <1>2, CutPlace
<1>4. cuts[k] \in Int
  BY <1>1
<1>5. CASE i = cuts[k]
  <2>1. k \in 1 .. z - 1
    BY <1>1, <1>5
  <2> QED  BY <1>1, <1>5, <2>1
<1>6. CASE i < cuts[k]
  <2>1. i - cuts[k - 1] \in 1 .. Len(p[k]) /\ p[k][i - cuts[k - 1]] = s[i]
    BY <1>3, <1>6, CutInside
  <2> QED  BY <2>1
<1> QED  BY <1>3, <1>4, <1>5, <1>6

Host == NameChar \cup {H!Dot}

(* A dotted quad is not empty, and has digits and dots.                    *)
LEMMA Ip4Characters ==
    ASSUME NEW s \in Seq(H!Char), H!IsIp4(s)
    PROVE  s # << >> /\ \A i \in 1 .. Len(s) : s[i] \in Host
<1>1. PICK C : C = H!Char
  OBVIOUS
<1>2. PICK c : c = H!Dot
  OBVIOUS
<1>3. PICK p : p = H!Split(s, c)
  OBVIOUS
<1>4. p \in Parts(C) /\ \E cuts : IsCut(s, c, Len(s), p, cuts)
  BY <1>1, <1>3, SplitCuts
<1>5. PICK cuts : IsCut(s, c, Len(s), p, cuts)
  BY <1>4
<1>6. PICK n \in Nat : n = Len(s)
  OBVIOUS
<1>7. Len(p) = 4 /\ \A k \in 1 .. 4 : H!IsDecimal(p[k], 255)
  BY <1>2, <1>3 DEF H!IsIp4, H!Octets
<1>8. Cut(s, c, n, p, 4, cuts)
  BY <1>5, <1>6, <1>7 DEF Cut
<1>9. \A k \in 1 .. 4 : \A j \in 1 .. Len(p[k]) : p[k][j] \in H!Digit
  <2> SUFFICES ASSUME NEW k \in 1 .. 4 PROVE \A j \in 1 .. Len(p[k]) : p[k][j] \in H!Digit
    OBVIOUS
  <2>1. H!ToSet(p[k]) \subseteq H!Digit
    BY <1>7 DEF H!IsDecimal
  <2>2. PICK part \in Seq(C) : part = p[k]
    <3>1. p \in Seq(Seq(C)) /\ DOMAIN p = 1 .. 4
      BY <1>4, <1>7 DEF Parts
    <3>2. k \in DOMAIN p
      BY <3>1
    <3>3. p[k] \in Seq(C)
      <4>1. PICK S : S = Seq(C)
        OBVIOUS
      <4>2. p \in Seq(S) /\ k \in 1 .. Len(p)
        BY <3>1, <3>2, <4>1, <1>7
      <4>3. p[k] \in S
        BY ONLY <4>2
      <4> QED  BY <4>1, <4>3
    <3> QED  BY <3>3
  <2>3. DOMAIN part = 1 .. Len(part)
    OBVIOUS
  <2> QED  BY <2>1, <2>2, <2>3 DEF H!ToSet
<1>10. \A i \in 1 .. n : s[i] \in H!Digit \cup {c}
  BY <1>8, <1>9, CutCovers
<1>11. s # << >>
  <2>1. \A k \in 1 .. 4 - 1 : cuts[k] \in 1 .. n
    BY <1>8, CutFacts
  <2>2. cuts[1] \in 1 .. n
    BY <2>1
  <2>3. n # 0
    BY <2>2
  <2> QED  BY <1>6, <2>3
<1> QED  BY <1>2, <1>6, <1>10, <1>11, Characters DEF Host

LEMMA NameCharacters ==
    ASSUME NEW s \in Seq(H!Char), H!IsDottedName(s)
    PROVE  s # << >> /\ \A i \in 1 .. Len(s) : s[i] \in Host
<1>1. ASSUME NEW t \in Seq(H!Char), H!IsName(t)
      PROVE  t # << >> /\ \A i \in 1 .. Len(t) : t[i] \in Host
  <2>1. PICK n \in Nat : n = Len(t) /\ DOMAIN t = 1 .. n
    OBVIOUS
  <2>2. n \in 1 .. MaxName /\ H!ToSet(t) \subseteq H!Alphanumeric \cup {H!Hyphen, H!Dot}
    BY <1>1, <2>1 DEF H!IsName
  <2>3. t # << >>
    BY <2>1, <2>2
  <2>4. \A i \in 1 .. n : t[i] \in H!ToSet(t)
    BY <2>1 DEF H!ToSet
  <2> QED  BY <2>1, <2>2, <2>3, <2>4 DEF Host, NameChar
<1>2. CASE H!IsName(s)
  BY <1>1, <1>2
<1>3. CASE s # << >> /\ H!Last(s) = H!Dot /\ H!IsName(H!Front(s))
  <2>1. PICK n \in Nat : n = Len(s) /\ n >= 1
    BY <1>3
  <2>2. s[n] = H!Dot
    BY <1>3, <2>1 DEF H!Last
  <2>3. PICK t \in Seq(H!Char) : /\ t = H!Front(s) /\ Len(t) = n - 1
                                 /\ \A i \in 1 .. n - 1 : t[i] = s[i]
    <3>1. H!Front(s) = SubSeq(s, 1, n - 1)
      BY <2>1 DEF H!Front
    <3>2. /\ SubSeq(s, 1, n - 1) \in Seq(H!Char) /\ Len(SubSeq(s, 1, n - 1)) = n - 1
          /\ \A i \in 1 .. n - 1 : SubSeq(s, 1, n - 1)[i] = s[i]
      BY <2>1
    <3> QED  BY <3>1, <3>2
  <2>4. \A i \in 1 .. n - 1 : s[i] \in Host
    BY <1>1, <1>3, <2>3
  <2>5. \A i \in 1 .. n : i = n \/ i \in 1 .. n - 1
    BY <2>1
  <2> QED  BY <1>3, <2>1, <2>2, <2>4, <2>5 DEF Host
<1> QED  BY <1>2, <1>3 DEF H!IsDottedName

LEMMA NothingIsIp6 == ~H!IsIp6(<< >>)
<1>1. H!Address8(<< >>) = {}
  <2>1. \A i \in 1 .. Len(<< >>) - 1 : FALSE
    OBVIOUS
  <2>2. H!Words(<< >>) = {<< >>}
    BY DEF H!Words
  <2>3. \A w \in H!Words(<< >>) : Len(w) # 8
    BY <2>2
  <2> QED  BY <2>1, <2>3 DEF H!Address8
<1>2. ~H!IsZoned(<< >>)
  BY DEF H!IsZoned
<1> QED  BY <1>1, <1>2 DEF H!IsIp6

(* A port, by its place in a string.                                       *)
PortFrom(s, i) ==
    /\ Len(s) - i \in 1 .. 5
    /\ H!ToSet(H!After(s, i)) \subseteq H!Digit
    /\ s[i + 1] = 0 => Len(s) = i + 1
    /\ H!Number(H!After(s, i), 10) <= MaxPort

LEMMA PortIs ==
    ASSUME NEW s \in Seq(H!Char), NEW i \in 1 .. Len(s), MaxPort \in Nat, MaxPort < 100000
    PROVE  /\ H!IsPort(H!After(s, i)) <=> PortFrom(s, i)
           /\ PortFrom(s, i) => /\ i < Len(s)
                                /\ \A j \in i + 1 .. Len(s) : s[j] \in H!Digit
<1>1. PICK n \in Nat : n = Len(s)
  OBVIOUS
<1>2. PICK d \in Seq(H!Char) : /\ d = H!After(s, i) /\ Len(d) = n - i
                               /\ \A j \in 1 .. n - i : d[j] = s[i + j]
  <2>1. H!After(s, i) = SubSeq(s, i + 1, n)
    BY <1>1 DEF H!After
  <2>2. /\ SubSeq(s, i + 1, n) \in Seq(H!Char)
        /\ Len(SubSeq(s, i + 1, n)) = n - i
        /\ \A j \in 1 .. n - i : SubSeq(s, i + 1, n)[j] = s[i + j]
    BY <1>1
  <2>3. PICK e : e = H!After(s, i)
    OBVIOUS
  <2>4. /\ e \in Seq(H!Char) /\ Len(e) = n - i
        /\ \A j \in 1 .. n - i : e[j] = s[i + j]
    BY <2>1, <2>2, <2>3
  <2> QED  BY <2>3, <2>4
<1>3. i \in 1 .. n /\ DOMAIN d = 1 .. n - i
  BY <1>1, <1>2
<1>4. d # << >> <=> n - i >= 1
  BY <1>2, <1>3
<1>5. n - i >= 1 => d[1] = s[i + 1]
  BY <1>2, <1>3
<1>6. ASSUME H!ToSet(d) \subseteq H!Digit, n - i >= 1, n - i > 1 => d[1] # 0,
             H!Number(d, 10) <= MaxPort
      PROVE  n - i <= 5
  <2> SUFFICES ASSUME n - i >= 6 PROVE FALSE
    BY <1>3
  <2>1. H!Char \subseteq Nat
    BY DEF H!Char
  <2>2. PICK e \in Seq(Nat) : e = d
    <3>1. PICK C : C = H!Char
      OBVIOUS
    <3>2. PICK M \in {Nat} : M = Nat
      OBVIOUS
    <3>3. d \in Seq(C) /\ C \subseteq M
      BY <2>1, <3>1, <3>2
    <3>4. d \in Seq(M)
      BY ONLY <3>3, SeqMonotonic, Zenon
    <3> QED  BY <3>2, <3>4
  <2>3. Len(e) >= 6 /\ e[1] # 0
    BY <1>2, <1>6, <2>2
  <2>4. H!Number(e, 10) >= 100000
    BY <2>3, LongNumber
  <2>5. H!Number(e, 10) \in Nat
    <3>1. 10 \in Nat
      OBVIOUS
    <3>2. PICK base \in Nat : base = 10
      BY <3>1
    <3>3. e \in Seq(Nat) /\ base \in Nat
      OBVIOUS
    <3>4. H!Number(e, base) \in Nat
      BY ONLY <3>3, NumberType, Zenon
    <3> QED  BY <3>2, <3>4
  <2> QED  BY <1>6, <2>2, <2>4, <2>5
<1>7. H!IsPort(d) <=> /\ n - i >= 1
                      /\ H!ToSet(d) \subseteq H!Digit
                      /\ n - i > 1 => d[1] # 0
                      /\ H!Number(d, 10) <= MaxPort
  BY <1>2, <1>4 DEF H!IsPort
<1>8. PortFrom(s, i) <=> /\ n - i >= 1 /\ n - i <= 5
                         /\ H!ToSet(d) \subseteq H!Digit
                         /\ s[i + 1] = 0 => n = i + 1
                         /\ H!Number(d, 10) <= MaxPort
  <2>1. n - i \in 1 .. 5 <=> n - i >= 1 /\ n - i <= 5
    BY <1>3
  <2> QED  BY <1>1, <1>2, <2>1 DEF PortFrom
<1>9. n - i >= 1 => ((n - i > 1 => d[1] # 0) <=> (s[i + 1] = 0 => n = i + 1))
  <2>1. n - i > 1 <=> ~(n - i < 1) /\ n # i + 1
    BY <1>3
  <2> QED  BY <1>3, <1>5, <2>1
<1>10. H!IsPort(d) <=> PortFrom(s, i)
  BY <1>6, <1>7, <1>8, <1>9
<1>11. ASSUME PortFrom(s, i)
       PROVE  i < n /\ \A j \in i + 1 .. n : s[j] \in H!Digit
  <2>1. n - i >= 1 /\ H!ToSet(d) \subseteq H!Digit
    BY <1>8, <1>11
  <2>2. ASSUME NEW j \in i + 1 .. n PROVE s[j] \in H!Digit
    <3>1. j - i \in 1 .. n - i /\ i + (j - i) = j
      BY <1>3
    <3>2. d[j - i] \in H!ToSet(d) /\ d[j - i] = s[j]
      BY <1>2, <1>3, <3>1 DEF H!ToSet
    <3> QED  BY <2>1, <3>2
  <2> QED  BY <1>3, <2>1, <2>2
<1> QED  BY <1>1, <1>2, <1>10, <1>11

(* The string up to a place.                                               *)
LEMMA BeforeIs ==
    ASSUME NEW s \in Seq(H!Char), NEW i \in 1 .. Len(s)
    PROVE  /\ H!Before(s, i) \in Seq(H!Char) /\ Len(H!Before(s, i)) = i - 1
           /\ \A j \in 1 .. i - 1 : H!Before(s, i)[j] = s[j]
           /\ H!Before(s, i) = SubSeq(s, 1, i - 1)
<1>1. H!Before(s, i) = SubSeq(s, 1, i - 1)
  BY DEF H!Before
<1>2. /\ SubSeq(s, 1, i - 1) \in Seq(H!Char) /\ Len(SubSeq(s, 1, i - 1)) = i - 1
      /\ \A j \in 1 .. i - 1 : SubSeq(s, 1, i - 1)[j] = s[j]
  OBVIOUS
<1> QED  BY <1>1, <1>2

PlainHost(s) == H!IsDottedName(s) \/ H!IsIp4(s)

LEMMA PlainCharacters ==
    ASSUME NEW s \in Seq(H!Char), PlainHost(s)
    PROVE  /\ s # << >>
           /\ \A i \in 1 .. Len(s) : s[i] \notin {H!Colon, H!Open, H!Close}
<1>1. s # << >> /\ \A i \in 1 .. Len(s) : s[i] \in Host
  BY Ip4Characters, NameCharacters DEF PlainHost
<1>2. {H!Colon, H!Open, H!Close} \cap Host = {}
  BY DEF Host, NameChar, H!Colon, H!Open, H!Close, H!Dot, H!Hyphen,
         H!Alphanumeric, H!Alpha, H!Digit, H!V, H!Letter
<1> QED  BY <1>1, <1>2

(* A host in brackets and one without differ in the first character.       *)
LEMMA HostIs ==
    ASSUME NEW s \in Seq(H!Char), s # << >>
    PROVE  /\ s[1] # H!Open => (H!IsHost(s) <=> PlainHost(s))
           /\ s[1] = H!Open =>
                 (H!IsHost(s) <=> /\ s[Len(s)] = H!Close
                                  /\ H!IsIp6(SubSeq(s, 2, Len(s) - 1)))
<1>1. PICK n \in Nat : n = Len(s) /\ n >= 1
  OBVIOUS
<1>2. H!IsHost(s) <=> \/ PlainHost(s)
                      \/ /\ n > 2 /\ s[1] = H!Open /\ s[n] = H!Close
                         /\ H!IsIp6(SubSeq(s, 2, n - 1))
  BY <1>1 DEF H!IsHost, PlainHost, H!Last
<1>3. s[1] = H!Open => ~PlainHost(s)
  BY <1>1, PlainCharacters
<1>4. s[1] = H!Open /\ s[n] = H!Close /\ H!IsIp6(SubSeq(s, 2, n - 1)) => n > 2
  <2> SUFFICES ASSUME s[1] = H!Open, s[n] = H!Close, n <= 2,
                      H!IsIp6(SubSeq(s, 2, n - 1))
               PROVE  FALSE
    BY <1>1
  <2>1. n = 2 \/ n = 1
    BY <1>1
  <2>2. n # 1
    BY DEF H!Open, H!Close
  <2>3. n - 1 < 2
    OBVIOUS
  <2>4. SubSeq(s, 2, n - 1) = << >>
    BY <1>1, <2>3
  <2> QED  BY <2>4, NothingIsIp6
<1> QED  BY <1>1, <1>2, <1>3, <1>4

ExpectedPort(s, required) ==
    \/ ~required /\ H!IsHost(s)
    \/ \E i \in 1 .. Len(s) : s[i] = H!Colon /\ H!IsHost(H!Before(s, i)) /\ PortFrom(s, i)

Names(s) ==
    /\ ~(Len(s) = MaxName + 1 /\ H!Last(s) = H!Dot)
    /\ \A i \in 1 .. Len(s) :
          ~(Len(H!Before(s, i)) = MaxName + 1 /\ H!Last(H!Before(s, i)) = H!Dot)

Bounds ==
    /\ {MaxName, MaxLabel, MaxPort} \subseteq Nat \ {0}
    /\ MaxPort < 100000

LEMMA HostAndPortIs ==
    ASSUME NEW s \in Seq(H!Char), NEW required \in BOOLEAN, Names(s), Bounds
    PROVE  H!IsHostAndPort(s, required) <=> ExpectedPort(s, required)
<1>1. PICK n \in Nat : n = Len(s)
  OBVIOUS
<1>2. PICK colon \in 0 .. n : /\ colon = LastPlace(s, H!Colon)
                              /\ colon # 0 => s[colon] = H!Colon
                              /\ \A i \in colon + 1 .. n : s[i] # H!Colon
  <2>1. PICK c : c = H!Colon
    OBVIOUS
  <2> QED  BY <1>1, <2>1, LastPlaceIs
<1>3. PICK close \in 0 .. n : /\ close = LastPlace(s, H!Close)
                              /\ close # 0 => s[close] = H!Close
                              /\ \A i \in close + 1 .. n : s[i] # H!Close
  <2>1. PICK c : c = H!Close
    OBVIOUS
  <2> QED  BY <1>1, <2>1, LastPlaceIs
<1>4. /\ H!Colon \notin H!Digit /\ H!Close \notin H!Digit
      /\ H!Colon # H!Close /\ H!Colon # H!Open /\ H!Close # H!Open
  BY DEF H!Colon, H!Close, H!Open, H!Digit
<1>5. \A i \in 1 .. n : PortFrom(s, i) => i < n /\ \A j \in i + 1 .. n : s[j] \in H!Digit
  BY <1>1, PortIs DEF Bounds
(* A port begins after the last colon.                                     *)
<1>6. ExpectedPort(s, required) <=>
         \/ ~required /\ H!IsHost(s)
         \/ colon # 0 /\ H!IsHost(H!Before(s, colon)) /\ PortFrom(s, colon)
  <2>1. ASSUME NEW i \in 1 .. n, s[i] = H!Colon, PortFrom(s, i)
        PROVE  i = colon
    <3>1. ~(i < colon)
      <4> SUFFICES ASSUME i < colon PROVE FALSE
        OBVIOUS
      <4>1. colon \in i + 1 .. n /\ colon # 0
        BY <1>2
      <4> QED  BY <1>2, <1>4, <1>5, <2>1, <4>1
    <3>2. ~(colon < i)
      <4> SUFFICES ASSUME colon < i PROVE FALSE
        OBVIOUS
      <4>1. i \in colon + 1 .. n
        BY <1>2
      <4> QED  BY <1>2, <2>1, <4>1
    <3> QED  BY <3>1, <3>2
  <2>2. colon # 0 => colon \in 1 .. n /\ s[colon] = H!Colon
    BY <1>2
  <2> QED  BY <1>1, <2>1, <2>2 DEF ExpectedPort
<1>7. PICK before, inner, port :
         /\ before = SubSeq(s, 1, colon - 1)
         /\ inner = SubSeq(s, 2, close - 1)
         /\ port = H!After(s, colon)
  OBVIOUS
<1>8. H!IsHostAndPort(s, required) <=>
         /\ s # << >>
         /\ s[1] = H!Open =>
               \/ close = n /\ ~required /\ H!IsIp6(inner)
               \/ close # n /\ close = colon - 1 /\ H!IsIp6(inner) /\ H!IsPort(port)
         /\ s[1] # H!Open =>
               \/ colon = 0 /\ ~required /\ (H!IsHostname(s) \/ H!IsIp4(s))
               \/ colon # 0 /\ (H!IsHostname(before) \/ H!IsIp4(before)) /\ H!IsPort(port)
  <2>1. H!LastIndex(s, H!Colon) = colon - 1 /\ H!LastIndex(s, H!Close) = close - 1
    BY <1>2, <1>3 DEF H!LastIndex, LastPlace
  <2>2. /\ colon - 1 + 1 = colon /\ close - 1 + 1 = close
        /\ colon - 1 < 0 <=> colon = 0
    OBVIOUS
  <2>3. PICK splitIdx, end \in Int :
           /\ splitIdx = H!LastIndex(s, H!Colon) /\ end = H!LastIndex(s, H!Close)
           /\ splitIdx = colon - 1 /\ end = close - 1
           /\ splitIdx + 1 = colon /\ end + 1 = close
           /\ splitIdx < 0 <=> colon = 0
    BY <2>1, <2>2
  <2>4. H!IsHostAndPort(s, required) <=>
          IF s = << >> THEN FALSE
          ELSE IF s[1] = H!Open
          THEN CASE close = Len(s) -> ~required /\ H!IsIp6(inner)
                 [] close = splitIdx -> H!IsIp6(inner) /\ H!IsPort(port)
                 [] OTHER -> FALSE
          ELSE IF splitIdx < 0
          THEN ~required /\ (H!IsHostname(s) \/ H!IsIp4(s))
          ELSE (H!IsHostname(before) \/ H!IsIp4(before)) /\ H!IsPort(port)
    BY <1>7, <2>3, Zenon DEF H!IsHostAndPort
  <2>5. ~(n = colon - 1)
    BY <1>2
  <2>6. (CASE close = Len(s) -> ~required /\ H!IsIp6(inner)
           [] close = splitIdx -> H!IsIp6(inner) /\ H!IsPort(port)
           [] OTHER -> FALSE)
        <=> \/ close = n /\ ~required /\ H!IsIp6(inner)
            \/ close # n /\ close = colon - 1 /\ H!IsIp6(inner) /\ H!IsPort(port)
    <3>1. close = n /\ close = splitIdx => FALSE
      BY <2>3, <2>5
    <3>2. close = splitIdx <=> close = colon - 1
      BY <2>3
    <3> QED  BY <1>1, <3>1, <3>2, Zenon
  <2> QED  BY <2>3, <2>4, <2>6, Zenon
<1>9. colon # 0 => (H!IsPort(port) <=> PortFrom(s, colon))
  <2>1. colon # 0 => colon \in 1 .. Len(s)
    BY <1>1, <1>2
  <2> QED  BY <1>7, <2>1, PortIs DEF Bounds
<1>10. CASE s = << >>
  <2>1. n = 0 /\ colon = 0
    BY <1>1, <1>2, <1>10
  <2>2. ~H!IsHost(s)
    <3>1. ~PlainHost(s)
      BY <1>10, PlainCharacters
    <3>2. ~(Len(s) > 2)
      BY <1>1, <2>1
    <3> QED  BY <3>1, <3>2 DEF H!IsHost, PlainHost
  <2> QED  BY <1>6, <1>8, <1>10, <2>1, <2>2
<1>11. CASE s # << >> /\ s[1] = H!Open
  <2>1. n >= 1
    BY <1>1, <1>11
  <2>2. close = n <=> s[n] = H!Close
    <3>1. s[n] = H!Close => ~(n \in close + 1 .. n)
      BY <1>3
    <3>2. s[n] = H!Close => close = n
      BY <1>3, <2>1, <3>1
    <3> QED  BY <1>3, <2>1, <3>2
  <2>3. H!IsHost(s) <=> close = n /\ H!IsIp6(inner)
    BY <1>1, <1>7, <1>11, <2>2, HostIs
  <2>4. colon # 1
    BY <1>2, <1>4, <1>11
  <2>5. ASSUME colon # 0, PortFrom(s, colon)
        PROVE  H!IsHost(H!Before(s, colon))
                 <=> close = colon - 1 /\ H!IsIp6(inner)
    <3>1. colon \in 1 .. Len(s) /\ colon >= 2 /\ colon <= n
      BY <1>1, <1>2, <2>4, <2>5
    <3>2. PICK b \in Seq(H!Char) :
             /\ b = H!Before(s, colon) /\ Len(b) = colon - 1
             /\ \A j \in 1 .. colon - 1 : b[j] = s[j]
             /\ b = SubSeq(s, 1, colon - 1)
      BY <3>1, BeforeIs
    <3>3. b # << >> /\ b[1] = H!Open /\ b[colon - 1] = s[colon - 1]
      BY <1>11, <3>1, <3>2
    <3>4. H!IsHost(b) <=> /\ s[colon - 1] = H!Close
                          /\ H!IsIp6(SubSeq(b, 2, colon - 2))
      <4>1. Len(b) - 1 = colon - 2
        BY <3>1, <3>2
      <4> QED  BY <3>2, <3>3, <4>1, HostIs
    <3>5. s[colon - 1] = H!Close <=> close = colon - 1
      <4>1. \A j \in colon .. n : s[j] # H!Close
        <5>1. \A j \in colon .. n : j = colon \/ j \in colon + 1 .. n
          BY <3>1
        <5> QED  BY <1>2, <1>4, <1>5, <2>5, <3>1, <5>1
      <4>2. ~(close >= colon)
        <5> SUFFICES ASSUME close >= colon PROVE FALSE
          OBVIOUS
        <5>1. close \in colon .. n /\ close # 0
          BY <1>3, <3>1
        <5> QED  BY <1>3, <4>1, <5>1
      <4>3. close < colon - 1 => s[colon - 1] # H!Close
        <5>1. close < colon - 1 => colon - 1 \in close + 1 .. n
          BY <3>1
        <5> QED  BY <1>3, <5>1
      <4>4. close = colon - 1 => close # 0
        BY <3>1
      <4>5. close < colon - 1 \/ close = colon - 1
        BY <3>1, <4>2
      <4> QED  BY <1>3, <4>3, <4>4, <4>5
    <3>6. close = colon - 1 => SubSeq(b, 2, colon - 2) = inner
      <4> SUFFICES ASSUME close = colon - 1
                   PROVE  SubSeq(b, 2, colon - 2) = SubSeq(s, 2, colon - 2)
        BY <1>7
      <4>1. \A j \in 2 .. colon - 2 : b[j] = s[j]
        BY <3>1, <3>2
      <4> QED  BY <1>1, <3>1, <3>2, <4>1
    <3> QED  BY <3>2, <3>4, <3>5, <3>6
  <2>6. close = colon - 1 => colon # 0
    BY <1>3
  <2>7. close = n /\ colon # 0 /\ PortFrom(s, colon) => FALSE
    <3> SUFFICES ASSUME close = n, colon # 0, PortFrom(s, colon) PROVE FALSE
      OBVIOUS
    <3>1. n \in colon + 1 .. n /\ colon \in 1 .. n
      BY <1>2, <1>5
    <3>2. s[n] \in H!Digit
      BY <1>5, <3>1
    <3> QED  BY <1>3, <1>4, <2>1, <3>2
  <2> QED  BY <1>6, <1>8, <1>9, <1>11, <2>3, <2>5, <2>6, <2>7, Zenon
<1>12. CASE s # << >> /\ s[1] # H!Open
  <2>1. H!IsHost(s) <=> PlainHost(s)
    BY <1>12, HostIs
  <2>2. H!IsHostname(s) <=> H!IsDottedName(s)
    BY HostnameIs DEF Names, Bounds
  <2>3. colon # 0 => ~PlainHost(s)
    BY <1>1, <1>2, PlainCharacters
  <2>4. ASSUME colon # 0
        PROVE  H!IsHost(H!Before(s, colon)) <=> H!IsHostname(before) \/ H!IsIp4(before)
    <3>1. colon \in 1 .. Len(s)
      BY <1>1, <1>2, <2>4
    <3>2. PICK b \in Seq(H!Char) :
             /\ b = H!Before(s, colon) /\ Len(b) = colon - 1
             /\ \A j \in 1 .. colon - 1 : b[j] = s[j]
             /\ b = SubSeq(s, 1, colon - 1)
      BY <3>1, BeforeIs
    <3>3. H!IsHostname(b) <=> H!IsDottedName(b)
      <4>1. ~(Len(b) = MaxName + 1 /\ H!Last(b) = H!Dot)
        BY <3>1, <3>2 DEF Names
      <4> QED  BY <4>1, HostnameIs DEF Bounds
    <3>4. H!IsHost(b) <=> PlainHost(b)
      <4>1. CASE b = << >>
        <5>1. ~(Len(b) > 2)
          BY <4>1
        <5> QED  BY <5>1 DEF H!IsHost, PlainHost
      <4>2. CASE b # << >>
        <5>1. b[1] = s[1]
          BY <3>2, <4>2
        <5> QED  BY <1>12, <4>2, <5>1, HostIs
      <4> QED  BY <4>1, <4>2
    <3> QED  BY <1>7, <3>2, <3>3, <3>4 DEF PlainHost
  <2> QED  BY <1>6, <1>8, <1>9, <1>12, <2>1, <2>2, <2>3, <2>4, Zenon DEF PlainHost
<1> QED  BY <1>10, <1>11, <1>12

-----------------------------------------------------------------------------
(* What has been answered is what the function says of the string.         *)
HostInv ==
    fn = "host" =>
        /\ str \in HostStrings /\ call \in H!Calls /\ portRequired \in BOOLEAN
        /\ pc = "done" /\ call = "isHostname" => (answer <=> H!IsHostname(str))
        /\ pc = "done" /\ call = "isHostAndPort" =>
              (answer <=> H!IsHostAndPort(str, portRequired))

LEMMA HostInvInit ==
    ASSUME Init
    PROVE  HostInv
<1>1. CASE fn = "host"
  <2>1. H!Init
    BY <1>1 DEF Init
  <2>2. /\ str \in HostStrings /\ call \in H!Calls /\ pc = "call"
        /\ portRequired \in IF call = "isHostname" THEN {FALSE} ELSE BOOLEAN
    BY <2>1 DEF H!Init
  <2>3. portRequired \in BOOLEAN
    BY <2>2
  <2> QED  BY <2>2, <2>3 DEF HostInv
<1> QED  BY <1>1 DEF HostInv

LEMMA HostInvStep ==
    ASSUME HostInv, [Next]_vars
    PROVE  HostInv'
<1>1. CASE fn = "host" /\ Next
  <2>1. H!Return /\ fn' = fn
    BY <1>1 DEF Next, H!Next
  <2>2. /\ UNCHANGED <<str, call, portRequired>>
        /\ answer' = IF call = "isHostname" THEN H!IsHostname(str)
                     ELSE H!IsHostAndPort(str, portRequired)
    BY <2>1 DEF H!Return
  <2>3. /\ call = "isHostname" => (answer' <=> H!IsHostname(str))
        /\ call = "isHostAndPort" => (answer' <=> H!IsHostAndPort(str, portRequired))
    BY <2>2, Zenon
  <2>4. /\ str' \in HostStrings /\ call' \in H!Calls /\ portRequired' \in BOOLEAN
    BY <1>1, <2>2 DEF HostInv
  <2>5. /\ call' = "isHostname" => (answer' <=> H!IsHostname(str'))
        /\ call' = "isHostAndPort" => (answer' <=> H!IsHostAndPort(str', portRequired'))
    BY <2>2, <2>3, Zenon
  <2> QED  BY <2>4, <2>5, Zenon DEF HostInv
<1>2. CASE fn # "host" /\ Next
  BY <1>2 DEF Next, HostInv
<1>3. CASE UNCHANGED vars
  BY <1>3 DEF vars, text, host, HostInv
<1> QED  BY <1>1, <1>2, <1>3

LEMMA HostStrings1 ==
    /\ HostStrings \subseteq Seq(H!Char)
    /\ Bounds
BY LibraryAssumption DEF H!HostPortAssumption, Bounds

LEMMA NotFull ==
    ASSUME str \in Seq(H!Char), ~H!FullWithDot
    PROVE  Names(str)
<1>1. DOMAIN str = 1 .. Len(str)
  OBVIOUS
<1>2. \A s \in {str} \cup {H!Before(str, i) : i \in DOMAIN str} :
         ~(Len(s) = MaxName + 1 /\ H!Last(s) = H!Dot)
  BY DEF H!FullWithDot
<1>3. \A i \in 1 .. Len(str) :
         H!Before(str, i) \in {str} \cup {H!Before(str, j) : j \in DOMAIN str}
  BY <1>1
<1> QED  BY <1>2, <1>3 DEF Names

(* isHostname accepts the names, whatever the limits of names and labels   *)
(* and for any string, save a name of the greatest length with a dot after *)
(* it (cel/library.go:1022-1055).                                          *)
THEOREM HostnamesAreExact == Spec => []HostnameExact
<1>1. HostInv => HostnameExact
  <2> SUFFICES ASSUME HostInv, fn = "host", pc = "done", call = "isHostname",
                      ~H!FullWithDot
               PROVE  answer <=> H!Expected
    BY DEF HostnameExact, H!HostnameExact
  <2>1. str \in Seq(H!Char) /\ (answer <=> H!IsHostname(str))
    BY HostStrings1 DEF HostInv
  <2>2. PICK s \in Seq(H!Char) : s = str
    BY <2>1
  <2>3. ~(Len(s) = MaxName + 1 /\ H!Last(s) = H!Dot)
    BY <2>1, <2>2, NotFull DEF Names
  <2>4. H!IsHostname(s) <=> H!IsDottedName(s)
    BY <2>3, HostnameIs, HostStrings1 DEF Bounds
  <2> QED  BY <2>1, <2>2, <2>4 DEF H!Expected
<1> QED  BY <1>1, HostInvInit, HostInvStep, PTL DEF Spec

(* isHostAndPort takes as the port what follows the address or the name,   *)
(* whatever other colons and brackets a string of any length has           *)
(* (cel/library.go:1070-1115).                                             *)
THEOREM HostsAndPortsAreExact == Spec => []HostAndPortExact
<1>1. HostInv => HostAndPortExact
  <2> SUFFICES ASSUME HostInv, fn = "host", pc = "done", call = "isHostAndPort",
                      ~H!FullWithDot
               PROVE  answer <=> H!Expected
    BY DEF HostAndPortExact, H!HostAndPortExact
  <2>1. /\ str \in Seq(H!Char) /\ portRequired \in BOOLEAN
        /\ answer <=> H!IsHostAndPort(str, portRequired)
    BY HostStrings1 DEF HostInv
  <2>2. PICK s \in Seq(H!Char), required \in BOOLEAN : s = str /\ required = portRequired
    BY <2>1
  <2>3. Names(s)
    BY <2>1, <2>2, NotFull
  <2>4. H!IsHostAndPort(s, required) <=> ExpectedPort(s, required)
    BY <2>3, HostAndPortIs, HostStrings1
  <2>5. H!Expected <=> ExpectedPort(s, required)
    <3>1. DOMAIN s = 1 .. Len(s)
      OBVIOUS
    <3>2. H!Expected <=>
            \/ ~portRequired /\ H!IsHost(str)
            \/ \E i \in DOMAIN str :
                  s[i] = H!Colon /\ H!IsHost(H!Before(str, i)) /\ PortFrom(str, i)
      BY <2>2 DEF H!Expected, PortFrom
    <3> QED  BY <2>2, <3>1, <3>2 DEF ExpectedPort
  <2> QED  BY <2>1, <2>2, <2>4, <2>5
<1> QED  BY <1>1, HostInvInit, HostInvStep, PTL DEF Spec

-----------------------------------------------------------------------------
(* The cursor of the parser of addresses, and what it has read.            *)

(* I!Run and U!Run.                                                        *)
RunOf(s, i, class) ==
    CHOOSE n \in 0 .. Len(s) - i :
        /\ \A k \in 1 .. n : s[i + k] \in class
        /\ i + n < Len(s) => s[i + n + 1] \notin class

LEMMA RunIs ==
    ASSUME NEW C, NEW s \in Seq(C), NEW i \in 0 .. Len(s), NEW class
    PROVE  /\ RunOf(s, i, class) \in 0 .. Len(s) - i
           /\ \A k \in 1 .. RunOf(s, i, class) : s[i + k] \in class
<1>1. PICK N \in Nat : N = Len(s)
  OBVIOUS
<1> DEFINE T == {n \in 0 .. N - i : n = N - i \/ s[i + n + 1] \notin class}
           Is(n) == /\ \A k \in 1 .. n : s[i + k] \in class
                    /\ i + n < N => s[i + n + 1] \notin class
<1>2. PICK n \in T : \A k \in T : n <= k
  <2>1. T \in SUBSET Nat
    OBVIOUS
  <2>2. N - i \in T
    BY <1>1
  <2> HIDE DEF T
  <2> QED  BY <2>1, <2>2, Least
<1>3. n \in 0 .. N - i /\ (i + n < N => s[i + n + 1] \notin class)
  BY <1>1, <1>2
<1>4. ASSUME NEW k \in 1 .. n PROVE s[i + k] \in class
  <2>1. k - 1 \in 0 .. N - i /\ k - 1 # N - i /\ k - 1 < n
    BY <1>1, <1>3
  <2>2. k - 1 \notin T
    <3> HIDE DEF T
    <3> QED  BY <1>2, <1>3, <2>1
  <2>3. s[i + (k - 1) + 1] \in class
    BY <2>1, <2>2
  <2>4. i + (k - 1) + 1 = i + k
    BY <1>1, <1>3
  <2> QED  BY <2>3, <2>4
<1>5. Is(n)
  BY <1>3, <1>4
<1>6. RunOf(s, i, class) = CHOOSE k \in 0 .. N - i : Is(k)
  BY <1>1 DEF RunOf
<1>7. Is(RunOf(s, i, class)) /\ RunOf(s, i, class) \in 0 .. N - i
  <2> HIDE DEF Is
  <2> QED  BY <1>3, <1>5, <1>6
<1> QED  BY <1>1, <1>7

LEMMA RunsAre ==
    ASSUME NEW s, NEW i, NEW class
    PROVE  I!Run(s, i, class) = RunOf(s, i, class) /\ U!Run(s, i, class) = RunOf(s, i, class)
BY DEF I!Run, U!Run, RunOf

LEMMA NumbersAre ==
    ASSUME NEW d, NEW base
    PROVE  I!Number(d, base) = H!Number(d, base)
BY DEF I!Number, H!Number

Word == 0 .. 256 * 256 - 1

(* Four hexadecimal digits are 16 bits.                                    *)
LEMMA ShortNumber ==
    ASSUME NEW d \in Seq(Nat), Len(d) <= 4, \A k \in 1 .. Len(d) : d[k] <= 15
    PROVE  H!Number(d, 16) \in Word
<1>1. PICK N \in Nat : N = Len(d) /\ N <= 4
  OBVIOUS
<1>2. PICK f \in [0 .. N -> Nat] :
         /\ f[0] = 0
         /\ \A n \in 1 .. N : f[n] = 16 * f[n - 1] + d[n]
         /\ H!Number(d, 16) = f[N]
  <2>1. PICK base \in Nat : base = 16
    OBVIOUS
  <2> QED  BY <1>1, <2>1, NumberSteps
<1>3. \A n \in 1 .. N : d[n] \in Nat /\ d[n] <= 15
  BY <1>1
<1>4. \A n \in 0 .. N : f[n] \in Nat
  BY <1>2
<1>5. ASSUME NEW n \in 1 .. N, NEW b \in Nat, f[n - 1] <= b
      PROVE  f[n] <= 16 * b + 15
  <2>1. f[n] = 16 * f[n - 1] + d[n] /\ n - 1 \in 0 .. N
    BY <1>1, <1>2
  <2>2. PICK x, y \in Nat : x = f[n - 1] /\ y = d[n] /\ y <= 15
    BY <1>3, <1>4, <2>1
  <2>3. f[n] = 16 * x + y /\ x <= b
    BY <1>5, <2>1, <2>2
  <2>4. x \in Nat /\ y \in Nat /\ b \in Nat /\ x <= b /\ y <= 15
    BY <2>2, <2>3
  <2>5. 16 * x + y <= 16 * b + 15
    BY ONLY <2>4
  <2> QED  BY <2>3, <2>5
<1>6. N >= 1 => f[1] <= 15
  BY <1>1, <1>2, <1>5
<1>7. N >= 2 => f[2] <= 255
  <2> SUFFICES ASSUME N >= 2 PROVE f[2] <= 255
    OBVIOUS
  <2> QED  BY <1>1, <1>5, <1>6
<1>8. N >= 3 => f[3] <= 4095
  <2> SUFFICES ASSUME N >= 3 PROVE f[3] <= 4095
    OBVIOUS
  <2> QED  BY <1>1, <1>5, <1>7
<1>9. N >= 4 => f[4] <= 16 * 4095 + 15
  <2> SUFFICES ASSUME N >= 4 PROVE f[4] <= 16 * 4095 + 15
    OBVIOUS
  <2> QED  BY <1>1, <1>5, <1>8
<1>10. PICK top \in Nat : top = 256 * 256 - 1
  OBVIOUS
<1>11. top = 16 * 4095 + 15 /\ top >= 4095
  BY <1>10
<1>12. PICK x \in Nat : x = f[N]
  BY <1>1, <1>4
<1>13. x <= top
  <2>6. N \in Nat /\ N <= 4
    BY <1>1
  <2>0. N \in {0, 1, 2, 3, 4}
    BY ONLY <2>6
  <2>1. CASE N = 0
    BY <1>2, <1>12, <2>1
  <2>2. CASE N = 1
    BY <1>6, <1>11, <1>12, <2>2
  <2>3. CASE N = 2
    BY <1>7, <1>11, <1>12, <2>3
  <2>4. CASE N = 3
    BY <1>8, <1>11, <1>12, <2>4
  <2>5. CASE N = 4
    BY <1>9, <1>11, <1>12, <2>5
  <2> QED  BY <2>0, <2>1, <2>2, <2>3, <2>4, <2>5
<1>14. Word = 0 .. top
  BY <1>10 DEF Word
<1>15. x \in 0 .. top
  BY <1>13
<1> QED  BY <1>2, <1>12, <1>14, <1>15

(* The number that n characters after the cursor are.                      *)
LEMMA NumberRead ==
    ASSUME NEW s \in Seq(I!Char), NEW i \in 0 .. Len(s), NEW n \in 0 .. Len(s) - i
    PROVE  /\ I!Number(SubSeq(s, i + 1, i + n), 10) \in Nat
           /\ n <= 4 /\ (\A k \in 1 .. n : s[i + k] \in I!HexDigit) =>
                 I!Number(SubSeq(s, i + 1, i + n), 16) \in Word
<1>1. PICK d : d = SubSeq(s, i + 1, i + n)
  OBVIOUS
<1>2. /\ d \in Seq(I!Char) /\ Len(d) = n
      /\ \A k \in 1 .. n : d[k] = s[i + k]
  BY <1>1
<1>3. d \in Seq(Nat)
  <2>1. PICK C : C = I!Char
    OBVIOUS
  <2>2. PICK M \in {Nat} : M = Nat
    OBVIOUS
  <2>3. d \in Seq(C) /\ C \subseteq M
    BY <1>2, <2>1, <2>2 DEF I!Char
  <2>4. d \in Seq(M)
    BY ONLY <2>3, SeqMonotonic, Zenon
  <2> QED  BY <2>2, <2>4
<1>4. I!Number(d, 10) \in Nat
  <2>1. PICK base \in Nat : base = 10
    OBVIOUS
  <2>2. d \in Seq(Nat) /\ base \in Nat
    BY <1>3
  <2>3. H!Number(d, base) \in Nat
    BY ONLY <2>2, NumberType, Zenon
  <2> QED  BY <2>1, <2>3, NumbersAre
<1>5. ASSUME n <= 4, \A k \in 1 .. n : s[i + k] \in I!HexDigit
      PROVE  I!Number(d, 16) \in Word
  <2>1. \A k \in 1 .. n : d[k] <= 15
    <3>1. I!HexDigit = 0 .. 15
      BY DEF I!HexDigit
    <3>2. ASSUME NEW k \in 1 .. n PROVE d[k] <= 15
      <4>1. d[k] = s[i + k] /\ s[i + k] \in 0 .. 15
        BY <1>2, <1>5, <3>1
      <4> QED  BY <4>1
    <3> QED  BY <3>2
  <2>2. d \in Seq(Nat) /\ Len(d) <= 4 /\ \A k \in 1 .. Len(d) : d[k] <= 15
    BY <1>2, <1>3, <1>5, <2>1
  <2>3. H!Number(d, 16) \in Word
    BY ONLY <2>2, ShortNumber, Zenon
  <2>4. I!Number(d, 16) = H!Number(d, 16)
    BY NumbersAre, Zenon
  <2> QED  BY <2>3, <2>4
<1>6. /\ I!Number(SubSeq(s, i + 1, i + n), 10) = I!Number(d, 10)
      /\ I!Number(SubSeq(s, i + 1, i + n), 16) = I!Number(d, 16)
  BY <1>1, Zenon
<1> QED  BY <1>4, <1>5, <1>6

(* Every step of the parser keeps the types.                               *)
LEMMA IpTypes ==
    ASSUME I!TypeOK, I!Next
    PROVE  I!TypeOK'
<1>0. /\ str \in Seq(I!Char)
      /\ tries \in Seq({4, 6}) /\ parser \in {0, 4, 6}
      /\ pieces \in Seq(Word) /\ octets \in Seq(0 .. 255)
      /\ index \in 0 .. Len(str) /\ doubleColonAt \in -1 .. Len(pieces)
      /\ Len(octets) <= 4
      /\ pc \in {"try", "octets", "part", "end", "done"}
      /\ zoneIDFound \in BOOLEAN /\ answer \in BOOLEAN
  BY DEF I!TypeOK, Word
<1>1. PICK n \in Nat : n = Len(str)
  BY <1>0
<1>2. /\ str \in Seq(I!Char) /\ index \in 0 .. n
      /\ tries \in Seq({4, 6}) /\ parser \in {0, 4, 6}
      /\ pieces \in Seq(Word) /\ Len(pieces) \in Nat
      /\ doubleColonAt \in -1 .. Len(pieces)
      /\ octets \in Seq(0 .. 255) /\ Len(octets) \in Nat /\ Len(octets) <= 4
      /\ pc \in {"try", "octets", "part", "end", "done"}
      /\ zoneIDFound \in BOOLEAN /\ answer \in BOOLEAN
  <2>1. Len(pieces) \in Nat /\ Len(octets) \in Nat
    BY <1>0
  <2> QED  BY <1>0, <1>1, <2>1
<1>3. ASSUME NEW ok \in BOOLEAN, I!Answer(ok)
      PROVE  pc' \in {"try", "octets", "part", "end", "done"} /\ answer' \in BOOLEAN
  BY <1>3 DEF I!Answer
<1>4. ASSUME I!EndLoop
      PROVE  pc' \in {"try", "octets", "part", "end", "done"} /\ answer' \in BOOLEAN
  BY <1>2, <1>3, <1>4 DEF I!EndLoop
<1>5. UNCHANGED I!question
  BY DEF I!Next, I!NewParser, I!GiveUp, I!DecOctet, I!EndOctets, I!Dotted, I!H16,
         I!DoubleColon, I!SingleColon, I!ZoneID, I!Break, I!Address, I!AddressPrefix
<1>6. SUFFICES /\ index' \in 0 .. n
               /\ tries' \in Seq({4, 6}) /\ parser' \in {0, 4, 6}
               /\ pieces' \in Seq(Word)
               /\ doubleColonAt' \in -1 .. Len(pieces')
               /\ octets' \in Seq(0 .. 255) /\ Len(octets') <= 4
               /\ pc' \in {"try", "octets", "part", "end", "done"}
               /\ zoneIDFound' \in BOOLEAN /\ answer' \in BOOLEAN
  BY <1>1, <1>5 DEF I!TypeOK, I!question, Word
<1>7. CASE I!NewParser
  <2>1. tries # << >> /\ tries' = Tail(tries) /\ parser' = Head(tries)
    BY <1>7 DEF I!NewParser
  <2>2. tries' \in Seq({4, 6}) /\ parser' \in {4, 6}
    BY <1>2, <2>1
  <2>3. /\ pc' \in {"octets", "part"} /\ index' = 0
        /\ octets' = << >> /\ pieces' = << >>
        /\ doubleColonAt' = -1 /\ zoneIDFound' = FALSE /\ answer' = answer
    BY <1>7 DEF I!NewParser
  <2>4. /\ << >> \in Seq(Word) /\ << >> \in Seq(0 .. 255) /\ Len(<< >>) = 0
        /\ 0 \in 0 .. n /\ -1 \in -1 .. 0
    OBVIOUS
  <2>5. octets' \in Seq(0 .. 255) /\ pieces' \in Seq(Word)
    BY <2>3, <2>4
  <2>6. Len(octets') <= 4 /\ doubleColonAt' \in -1 .. Len(pieces') /\ index' \in 0 .. n
    BY <2>3, <2>4
  <2> QED  BY <1>2, <2>2, <2>3, <2>5, <2>6
<1>8. CASE I!GiveUp
  BY <1>2, <1>8 DEF I!GiveUp
<1>9. CASE I!DecOctet
  <2>0. UNCHANGED <<tries, parser, pieces, doubleColonAt, zoneIDFound>>
    BY <1>9 DEF I!DecOctet
  <2>1. PICK i \in Int : i = IF octets = << >> THEN index ELSE index + 1
    BY <1>2
  <2>2. PICK run : run = I!Run(str, i, I!Digit)
    OBVIOUS
  <2>3. CASE /\ octets # << >> => I!At(str, index, I!Dot)
             /\ I!Decimal(str, i, run, 3, 255)
             /\ octets' = Append(octets, I!Number(SubSeq(str, i + 1, i + run), 10))
             /\ index' = i + run
             /\ UNCHANGED <<pc, answer>>
    <3>1. i \in 0 .. n
      BY <1>1, <1>2, <2>1, <2>3 DEF I!At
    <3>2. run \in 0 .. n - i
      BY <1>1, <1>2, <2>2, <3>1, RunIs, RunsAre
    <3>3. PICK octet : octet = I!Number(SubSeq(str, i + 1, i + run), 10)
      OBVIOUS
    <3>4. octet \in 0 .. 255
      <4>1. octet \in Nat
        BY <1>1, <1>2, <3>1, <3>2, <3>3, NumberRead
      <4>2. octet <= 255
        BY <2>3, <3>3 DEF I!Decimal
      <4> QED  BY <4>1, <4>2
    <3>5. Len(octets) < 4
      BY <1>9 DEF I!DecOctet
    <3>6. octets' \in Seq(0 .. 255) /\ Len(octets') <= 4
      BY <1>2, <2>3, <3>3, <3>4, <3>5
    <3>7. index' \in 0 .. n
      BY <1>1, <2>3, <3>1, <3>2
    <3> QED  BY <1>2, <2>0, <2>3, <3>6, <3>7
  <2>4. CASE I!Answer(FALSE) /\ UNCHANGED <<octets, index>>
    BY <1>2, <1>3, <2>0, <2>4
  <2> QED  BY <1>9, <2>1, <2>2, <2>3, <2>4 DEF I!DecOctet
<1>10. CASE I!EndOctets
  <2>1. UNCHANGED <<tries, parser, index, octets, pieces, doubleColonAt, zoneIDFound>>
    BY <1>10 DEF I!EndOctets
  <2>2. (pc' = "end" /\ UNCHANGED answer) \/ I!Answer(FALSE)
    BY <1>10 DEF I!EndOctets
  <2> QED  BY <1>2, <1>3, <2>1, <2>2
<1>11. CASE I!Dotted
  BY <1>2, <1>11 DEF I!Dotted
<1>12. CASE I!H16
  <2>0. UNCHANGED <<tries, parser, octets, doubleColonAt, zoneIDFound>>
    BY <1>12 DEF I!H16
  <2>1. PICK run : run = I!Run(str, index, I!HexDigit)
    OBVIOUS
  <2>2. /\ run \in 0 .. n - index
        /\ \A k \in 1 .. run : str[index + k] \in I!HexDigit
    BY <1>1, <1>2, <2>1, RunIs, RunsAre
  <2>3. CASE run > 4 /\ I!Answer(FALSE) /\ index' = index + 5 /\ UNCHANGED pieces
    <3>1. index' \in 0 .. n
      BY <1>1, <1>2, <2>2, <2>3
    <3>2. doubleColonAt' \in -1 .. Len(pieces')
      BY <1>2, <2>0, <2>3
    <3> QED  BY <1>2, <1>3, <2>0, <2>3, <3>1, <3>2
  <2>4. CASE /\ ~(run > 4)
             /\ pieces' = Append(pieces, I!Number(SubSeq(str, index + 1, index + run), 16))
             /\ index' = index + run
             /\ UNCHANGED <<pc, answer>>
    <3>1. PICK piece : piece = I!Number(SubSeq(str, index + 1, index + run), 16)
      OBVIOUS
    <3>2. piece \in Word
      <4>1. run \in 0 .. n - index /\ run <= 4
        BY <1>1, <1>2, <2>2, <2>4
      <4> QED  BY <1>1, <1>2, <2>2, <3>1, <4>1, NumberRead
    <3>3. pieces' \in Seq(Word) /\ Len(pieces') = Len(pieces) + 1
      BY <1>2, <2>4, <3>1, <3>2
    <3>4. index' \in 0 .. n /\ doubleColonAt' \in -1 .. Len(pieces')
      BY <1>1, <1>2, <2>0, <2>2, <2>4, <3>3
    <3> QED  BY <1>2, <2>0, <2>4, <3>3, <3>4
  <2> QED  BY <1>12, <2>1, <2>3, <2>4 DEF I!H16
<1>13. CASE I!DoubleColon
  <2>0. UNCHANGED <<tries, parser, octets, pieces, zoneIDFound>>
    BY <1>13 DEF I!DoubleColon
  <2>1. index + 1 < n
    BY <1>1, <1>13 DEF I!DoubleColon, I!At
  <2>2. \/ I!Answer(FALSE) /\ index' = index + 2 /\ UNCHANGED doubleColonAt
        \/ /\ doubleColonAt' = Len(pieces)
           /\ \/ index + 2 < n /\ I!Answer(FALSE) /\ index' = index + 3
              \/ index' = index + 2 /\ UNCHANGED <<pc, answer>>
    BY <1>1, <1>13 DEF I!DoubleColon, I!At
  <2>3. index' \in 0 .. n /\ doubleColonAt' \in -1 .. Len(pieces)
    <3>1. index \in Nat /\ Len(pieces) \in Nat
      BY <1>2
    <3>4. index' = index + 2 \/ (index + 2 < n /\ index' = index + 3)
      BY <2>2
    <3>5. doubleColonAt' = doubleColonAt \/ doubleColonAt' = Len(pieces)
      BY <2>2
    <3>2. index' \in 0 .. n
      BY <1>1, <2>1, <3>1, <3>4
    <3>3. doubleColonAt' \in -1 .. Len(pieces)
      BY <1>2, <3>1, <3>5
    <3> QED  BY <3>2, <3>3
  <2>4. pc' \in {"try", "octets", "part", "end", "done"} /\ answer' \in BOOLEAN
    BY <1>2, <1>3, <2>2
  <2> QED  BY <1>2, <2>0, <2>3, <2>4
<1>14. CASE I!SingleColon
  <2>0. UNCHANGED <<tries, parser, octets, pieces, doubleColonAt, zoneIDFound>>
    BY <1>14 DEF I!SingleColon
  <2>1. index < n /\ index' = index + 1
    BY <1>1, <1>14 DEF I!SingleColon, I!At
  <2>2. I!Answer(FALSE) \/ UNCHANGED <<pc, answer>>
    BY <1>14 DEF I!SingleColon
  <2>3. index' \in 0 .. n
    BY <1>1, <1>2, <2>1
  <2> QED  BY <1>2, <1>3, <2>0, <2>2, <2>3
<1>15. CASE I!ZoneID
  <2>0. UNCHANGED <<tries, parser, octets, pieces, doubleColonAt>>
    BY <1>15 DEF I!ZoneID
  <2>1. \/ index' = n /\ zoneIDFound' = TRUE /\ I!EndLoop
        \/ I!Answer(FALSE) /\ UNCHANGED <<index, zoneIDFound>>
    BY <1>1, <1>15 DEF I!ZoneID
  <2>2. pc' \in {"try", "octets", "part", "end", "done"} /\ answer' \in BOOLEAN
    BY <1>3, <1>4, <2>1
  <2>4. index' = n \/ index' = index
    BY <2>1
  <2>5. zoneIDFound' \in BOOLEAN
    BY <1>2, <2>1, Zenon
  <2>3. index' \in 0 .. n
    BY <1>1, <1>2, <2>4
  <2> QED  BY <1>2, <2>0, <2>2, <2>3, <2>5
<1>16. CASE I!Break
  <2>1. I!EndLoop /\ UNCHANGED <<tries, parser, index, octets, pieces,
                                 doubleColonAt, zoneIDFound>>
    BY <1>16 DEF I!Break
  <2> QED  BY <1>2, <1>4, <2>1
<1>17. CASE I!Address
  <2>1. /\ I!Answer(index = Len(str))
        /\ UNCHANGED <<tries, parser, index, octets, pieces, doubleColonAt, zoneIDFound>>
    BY <1>17 DEF I!Address
  <2> QED  BY <1>2, <1>3, <2>1
<1>18. CASE I!AddressPrefix
  <2>1. UNCHANGED <<tries, parser, index, octets, pieces, doubleColonAt, zoneIDFound>>
    BY <1>18 DEF I!AddressPrefix
  <2>2. \E ok \in BOOLEAN : I!Answer(ok)
    BY <1>18 DEF I!AddressPrefix
  <2> QED  BY <1>2, <1>3, <2>1, <2>2
<1> QED  BY <1>7, <1>8, <1>9, <1>10, <1>11, <1>12, <1>13, <1>14, <1>15, <1>16,
            <1>17, <1>18 DEF I!Next

-----------------------------------------------------------------------------
(* The cursor of the parser of URIs.                                       *)

Follows(f, jump, k, n) ==
    \A j \in k .. n : f[j] = IF jump[j] = j THEN j ELSE f[jump[j]]

LEMMA Ends ==
    ASSUME NEW n \in Nat, NEW i \in 0 .. n, NEW jump \in [i .. n -> i .. n],
           \A k \in i .. n : jump[k] >= k
    PROVE  \E f \in [i .. n -> i .. n] : Follows(f, jump, i, n)
<1> DEFINE T == {p \in 0 .. n - i :
                    \E f \in [n - p .. n -> i .. n] : Follows(f, jump, n - p, n)}
<1>1. 0 \in T
  <2> DEFINE f == [k \in n .. n |-> n]
  <2>1. f \in [n .. n -> i .. n] /\ f[n] = n
    OBVIOUS
  <2>2. jump[n] = n
    OBVIOUS
  <2> HIDE DEF f
  <2>3. Follows(f, jump, n, n)
    BY <2>1, <2>2 DEF Follows
  <2>4. n - 0 = n /\ 0 \in 0 .. n - i
    OBVIOUS
  <2> QED  BY <2>1, <2>3, <2>4
<1>2. ASSUME NEW p \in 1 .. n - i, p - 1 \in T PROVE p \in T
  <2>1. PICK k \in Int : k = n - p /\ n - (p - 1) = k + 1 /\ i <= k /\ k < n
    OBVIOUS
  <2>2. PICK f \in [k + 1 .. n -> i .. n] : Follows(f, jump, k + 1, n)
    BY <1>2, <2>1
  <2> DEFINE g == [j \in k .. n |-> IF j = k
                                   THEN IF jump[k] = k THEN k ELSE f[jump[k]]
                                   ELSE f[j]]
  <2>3. jump[k] \in k .. n /\ (jump[k] # k => jump[k] \in k + 1 .. n)
    <3>1. k \in i .. n
      BY <2>1
    <3>2. jump[k] \in i .. n /\ jump[k] >= k
      BY <3>1
    <3>3. PICK z \in i .. n : z = jump[k]
      BY <3>2
    <3>4. z >= k /\ z <= n /\ z \in Int
      BY <3>2, <3>3
    <3>5. z \in k .. n /\ (z # k => z \in k + 1 .. n)
      BY ONLY <3>4, k \in Int, n \in Nat
    <3> QED  BY <3>3, <3>5
  <2>4. g \in [k .. n -> i .. n]
    <3> SUFFICES ASSUME NEW j \in k .. n PROVE g[j] \in i .. n
      OBVIOUS
    <3>1. CASE j = k
      BY <2>1, <2>3, <3>1
    <3>2. CASE j # k
      <4>1. j \in k + 1 .. n
        BY <2>1, <3>2
      <4> QED  BY <3>2, <4>1
    <3> QED  BY <3>1, <3>2
  <2>5. /\ g[k] = IF jump[k] = k THEN k ELSE f[jump[k]]
        /\ \A j \in k + 1 .. n : g[j] = f[j]
    BY <2>1
  <2> HIDE DEF g
  <2>6. ASSUME NEW j \in k .. n
        PROVE  g[j] = IF jump[j] = j THEN j ELSE g[jump[j]]
    <3>1. CASE j = k
      BY <2>3, <2>5, <3>1
    <3>2. CASE j # k
      <4>1. j \in k + 1 .. n /\ j \in i .. n
        BY <2>1, <3>2
      <4>2. jump[j] \in i .. n /\ jump[j] >= j
        BY <4>1
      <4>3. jump[j] \in k + 1 .. n
        BY <2>1, <4>1, <4>2
      <4>4. f[j] = IF jump[j] = j THEN j ELSE f[jump[j]]
        BY <2>2, <4>1 DEF Follows
      <4> QED  BY <2>5, <4>1, <4>3, <4>4
    <3> QED  BY <3>1, <3>2
  <2>7. Follows(g, jump, k, n)
    BY <2>6 DEF Follows
  <2>8. p \in 0 .. n - i
    OBVIOUS
  <2> QED  BY <2>1, <2>4, <2>7, <2>8
<1>3. PICK N \in Nat : N = n - i /\ n - N = i
  OBVIOUS
<1>4. N \in T
  <2>1. \A p \in 1 .. N : p - 1 \in T => p \in T
    BY <1>2, <1>3
  <2> HIDE DEF T
  <2>2. \A p \in 0 .. N : p \in T
    BY <1>1, <2>1, Upwards
  <2> QED  BY <2>2
<1> QED  BY <1>3, <1>4

LEMMA OneEnd ==
    ASSUME NEW n \in Nat, NEW i \in 0 .. n, NEW jump \in [i .. n -> i .. n],
           \A k \in i .. n : jump[k] >= k,
           NEW f, Follows(f, jump, i, n), NEW g, Follows(g, jump, i, n)
    PROVE  f[i] = g[i]
<1> DEFINE T == {p \in 0 .. n - i : \A k \in n - p .. n : f[k] = g[k]}
<1>0. \A j \in i .. n : /\ f[j] = IF jump[j] = j THEN j ELSE f[jump[j]]
                       /\ g[j] = IF jump[j] = j THEN j ELSE g[jump[j]]
  BY DEF Follows
<1>1. 0 \in T
  <2>1. jump[n] = n /\ n \in i .. n
    OBVIOUS
  <2>2. f[n] = n /\ g[n] = n
    BY <1>0, <2>1
  <2>3. \A k \in n - 0 .. n : k = n
    OBVIOUS
  <2> QED  BY <2>2, <2>3
<1>2. ASSUME NEW p \in 1 .. n - i, p - 1 \in T PROVE p \in T
  <2>1. PICK k \in Int : k = n - p /\ n - (p - 1) = k + 1 /\ i <= k /\ k < n
    OBVIOUS
  <2>2. \A j \in k + 1 .. n : f[j] = g[j]
    BY <1>2, <2>1
  <2>3. k \in i .. n /\ jump[k] \in i .. n /\ jump[k] >= k
    BY <2>1
  <2>4. jump[k] # k => jump[k] \in k + 1 .. n
    BY <2>1, <2>3
  <2>5. f[k] = g[k]
    BY <1>0, <2>2, <2>3, <2>4
  <2>6. \A j \in n - p .. n : j = k \/ j \in k + 1 .. n
    BY <2>1
  <2>7. \A j \in n - p .. n : f[j] = g[j]
    BY <2>2, <2>5, <2>6
  <2>8. p \in 0 .. n - i
    OBVIOUS
  <2> QED  BY <2>7, <2>8
<1>3. PICK N \in Nat : N = n - i /\ n - N = i
  OBVIOUS
<1>4. N \in T
  <2>1. \A p \in 1 .. N : p - 1 \in T => p \in T
    BY <1>2, <1>3
  <2> HIDE DEF T
  <2>2. \A p \in 0 .. N : p \in T
    BY <1>1, <2>1, Upwards
  <2> QED  BY <2>2
<1>5. i \in n - N .. n
  BY <1>3
<1> QED  BY <1>4, <1>5

(* A loop over a class of characters does not go back, nor out.            *)
LEMMA SpanIs ==
    ASSUME NEW s, Len(s) \in Nat, NEW i \in 0 .. Len(s), NEW class
    PROVE  U!Span(s, i, class) \in i .. Len(s)
<1>1. PICK n \in Nat : n = Len(s)
  OBVIOUS
<1> DEFINE jump == [k \in i .. n |-> IF k < n /\ s[k + 1] \in class THEN k + 1
                                    ELSE IF U!PctEncoded(s, k) THEN k + 3 ELSE k]
           Good(f) == f = [k \in i .. Len(s) |->
                              IF k < Len(s) /\ s[k + 1] \in class THEN f[k + 1]
                              ELSE IF U!PctEncoded(s, k) THEN f[k + 3] ELSE k]
           span == CHOOSE f : Good(f)
<1>2. ASSUME NEW k \in i .. n
      PROVE  jump[k] \in k .. n
  <2>1. U!PctEncoded(s, k) => k + 3 <= n
    BY <1>1 DEF U!PctEncoded, U!At
  <2> QED  BY <1>1, <2>1
<1>3. jump \in [i .. n -> i .. n] /\ \A k \in i .. n : jump[k] >= k
  <2>1. jump = [k \in i .. n |-> jump[k]]
    OBVIOUS
  <2> HIDE DEF jump
  <2>2. \A k \in i .. n : jump[k] \in i .. n /\ jump[k] >= k
    BY <1>1, <1>2
  <2> QED  BY <2>1, <2>2
<1>4. ASSUME NEW f, f = [k \in i .. n |-> f[k]]
      PROVE  Good(f) <=> Follows(f, jump, i, n)
  <2>1. ASSUME NEW k \in i .. n
        PROVE  (IF jump[k] = k THEN k ELSE f[jump[k]]) =
                  IF k < n /\ s[k + 1] \in class THEN f[k + 1]
                  ELSE IF U!PctEncoded(s, k) THEN f[k + 3] ELSE k
    BY <2>1
  <2> HIDE DEF jump
  <2>2. Follows(f, jump, i, n) <=>
           \A k \in i .. n : f[k] = IF k < n /\ s[k + 1] \in class THEN f[k + 1]
                                    ELSE IF U!PctEncoded(s, k) THEN f[k + 3] ELSE k
    BY <2>1 DEF Follows
  <2> QED  BY <1>1, <1>4, <2>2
<1>5. PICK f \in [i .. n -> i .. n] : Follows(f, jump, i, n)
  <2> HIDE DEF jump
  <2> QED  BY <1>1, <1>3, Ends
<1>6. Good(f)
  <2>1. f = [k \in i .. n |-> f[k]]
    OBVIOUS
  <2> HIDE DEF Good, jump
  <2> QED  BY <1>4, <1>5, <2>1
<1>7. Good(span)
  <2> HIDE DEF Good
  <2> QED  BY <1>6
<1>8. U!Span(s, i, class) = span[i]
  BY DEF U!Span
<1> HIDE DEF span
<1>9. Follows(span, jump, i, n)
  <2>1. span = [k \in i .. n |-> span[k]]
    BY <1>1, <1>7
  <2> HIDE DEF Good, jump
  <2> QED  BY <1>4, <1>7, <2>1
<1>10. span[i] = f[i]
  <2> HIDE DEF jump
  <2>1. n \in Nat /\ i \in 0 .. n
    BY <1>1
  <2>2. Follows(f, jump, i, n)
    BY <1>5
  <2> QED  BY ONLY <1>3, <1>9, <2>1, <2>2, OneEnd, Zenon
<1>11. f[i] \in i .. n
  <2>1. i \in i .. n
    BY <1>1
  <2> QED  BY <2>1
<1> QED  BY <1>1, <1>8, <1>10, <1>11

(* A cursor after a rule: in the string, or Fail.                          *)
Cursor(s, i) == i = -1 \/ i \in 0 .. Len(s)

LEMMA Moves ==
    ASSUME NEW s \in Seq(U!Char), NEW i \in 0 .. Len(s), NEW class
    PROVE  /\ Len(s) \in Nat
           /\ U!Span(s, i, class) \in i .. Len(s)
           /\ i + U!Run(s, i, class) \in i .. Len(s)
<1>1. PICK n \in Nat : n = Len(s)
  OBVIOUS
<1>2. U!Span(s, i, class) \in i .. Len(s)
  BY <1>1, SpanIs
<1>3. PICK r \in 0 .. n - i : r = U!Run(s, i, class)
  BY <1>1, RunIs, RunsAre
<1>4. i + r \in i .. n
  BY <1>1
<1> QED  BY <1>1, <1>2, <1>3, <1>4

LEMMA Closes ==
    ASSUME NEW s, Len(s) \in Nat, NEW i, Cursor(s, i), NEW c
    PROVE  Cursor(s, U!Closed(s, i, c))
BY DEF Cursor, U!Closed, U!At, U!Fail

LEMMA Chooses ==
    ASSUME NEW s, NEW i, NEW j, Cursor(s, i), Cursor(s, j)
    PROVE  Cursor(s, U!OrElse(i, j))
BY DEF Cursor, U!OrElse

LEMMA AddressCursor ==
    ASSUME NEW s \in Seq(U!Char), NEW i \in 0 .. Len(s)
    PROVE  Cursor(s, U!Ipv6Address(s, i))
<1> DEFINE n == U!Run(s, i, U!HexDigit \cup {U!Colon})
<1>1. Len(s) \in Nat /\ i + n \in i .. Len(s)
  BY Moves
<1>2. U!Ipv6Address(s, i) \in {-1, i + n}
  BY DEF U!Ipv6Address, U!Fail
<1> HIDE DEF n
<1>3. i + n \in 0 .. Len(s)
  BY <1>1
<1> QED  BY <1>2, <1>3 DEF Cursor

LEMMA ZoneCursor ==
    ASSUME NEW s \in Seq(U!Char), NEW a, Cursor(s, a)
    PROVE  Cursor(s, U!ZoneID(s, a))
<1> DEFINE z == U!Span(s, a + 3, U!Unreserved)
           Ok == /\ a # U!Fail
                 /\ U!At(s, a, U!Percent) /\ U!At(s, a + 1, 2) /\ U!At(s, a + 2, 5)
                 /\ z > a + 3
<1>1. U!ZoneID(s, a) = IF Ok THEN z ELSE -1
  BY DEF U!ZoneID, U!Fail
<1>2. ASSUME Ok PROVE z \in 0 .. Len(s)
  <2>1. Len(s) \in Nat /\ a \in 0 .. Len(s) /\ a + 2 < Len(s)
    BY <1>2 DEF Cursor, U!Fail, U!At
  <2>2. PICK b \in 0 .. Len(s) : b = a + 3
    BY <2>1
  <2>3. U!Span(s, b, U!Unreserved) \in b .. Len(s)
    BY Moves
  <2>4. z \in b .. Len(s)
    BY <2>2, <2>3
  <2> HIDE DEF z
  <2> QED  BY <2>1, <2>2, <2>4
<1> HIDE DEF Ok, z
<1> QED  BY <1>1, <1>2 DEF Cursor

LEMMA FutureCursor ==
    ASSUME NEW s \in Seq(U!Char), NEW i \in 0 .. Len(s)
    PROVE  Cursor(s, U!IpvFuture(s, i))
<1> DEFINE n == i + 1 + U!Run(s, i + 1, U!HexDigit)
           z == n + 1 + U!Run(s, n + 1, U!RegChar \cup {U!Colon})
           Ok == U!At(s, i, U!V) /\ n > i + 1 /\ U!At(s, n, U!Dot) /\ z > n + 1
<1>1. U!IpvFuture(s, i) = IF Ok THEN z ELSE -1
  BY DEF U!IpvFuture, U!Fail
<1>2. ASSUME Ok PROVE z \in 0 .. Len(s)
  <2>1. PICK b \in 0 .. Len(s) : b = i + 1
    BY <1>2 DEF U!At
  <2>2. b + U!Run(s, b, U!HexDigit) \in b .. Len(s) /\ Len(s) \in Nat
    BY Moves
  <2>3. n \in 0 .. Len(s)
    BY <2>1, <2>2
  <2>4. U!At(s, n, U!Dot)
    BY <1>2
  <2>5. z = n + 1 + U!Run(s, n + 1, U!RegChar \cup {U!Colon})
    OBVIOUS
  <2> HIDE DEF n, z
  <2>6. PICK c \in 0 .. Len(s) : c = n + 1
    BY <2>2, <2>3, <2>4 DEF U!At
  <2>7. c + U!Run(s, c, U!RegChar \cup {U!Colon}) \in c .. Len(s)
    BY Moves
  <2>8. z \in c .. Len(s)
    BY <2>5, <2>6, <2>7
  <2> QED  BY <2>2, <2>8
<1> HIDE DEF Ok, z
<1> QED  BY <1>1, <1>2 DEF Cursor

LEMMA LiteralCursor ==
    ASSUME NEW s \in Seq(U!Char), NEW i \in 0 .. Len(s)
    PROVE  Cursor(s, U!IpLiteral(s, i))
<1>1. CASE ~U!At(s, i, U!Open)
  BY <1>1 DEF U!IpLiteral, Cursor, U!Fail
<1>2. CASE U!At(s, i, U!Open)
  <2>1. PICK b \in 0 .. Len(s) : b = i + 1
    BY <1>2 DEF U!At
  <2>2. Len(s) \in Nat
    OBVIOUS
  <2>3. Cursor(s, U!Ipv6Address(s, b)) /\ Cursor(s, U!IpvFuture(s, b))
    BY AddressCursor, FutureCursor
  <2>4. Cursor(s, U!Ipv6Addrz(s, b))
    BY <2>3, ZoneCursor DEF U!Ipv6Addrz
  <2> DEFINE x == U!Closed(s, U!Ipv6Address(s, b), U!Close)
             y == U!Closed(s, U!Ipv6Addrz(s, b), U!Close)
             z == U!Closed(s, U!IpvFuture(s, b), U!Close)
  <2>5. Cursor(s, x) /\ Cursor(s, y) /\ Cursor(s, z)
    BY <2>2, <2>3, <2>4, Closes
  <2>6. U!IpLiteral(s, i) = U!OrElse(x, U!OrElse(y, z))
    BY <1>2, <2>1 DEF U!IpLiteral
  <2> HIDE DEF x, y, z
  <2>7. Cursor(s, U!OrElse(y, z))
    BY <2>5, Chooses
  <2>8. Cursor(s, U!OrElse(x, U!OrElse(y, z)))
    BY <2>5, <2>7, Chooses
  <2> QED  BY <2>6, <2>8
<1> QED  BY <1>1, <1>2

LEMMA AuthorityCursor ==
    ASSUME NEW s \in Seq(U!Char), NEW i \in 0 .. Len(s)
    PROVE  Cursor(s, U!Authority(s, i))
<1>1. Len(s) \in Nat
  OBVIOUS
<1>2. PICK j \in 0 .. Len(s) : j = U!Userinfo(s, i)
  <2> DEFINE u == U!Span(s, i, U!RegChar \cup {U!Colon})
  <2>1. u \in i .. Len(s)
    BY Moves
  <2>2. U!Userinfo(s, i) = IF U!At(s, u, U!AtSign) THEN u + 1 ELSE i
    BY DEF U!Userinfo
  <2> HIDE DEF u
  <2> QED  BY <1>1, <2>1, <2>2 DEF U!At
<1>3. Cursor(s, U!RegName(s, j))
  <2> DEFINE u == U!Span(s, j, U!RegChar)
  <2>1. u \in j .. Len(s)
    BY Moves
  <2>2. U!RegName(s, j) \in {u, -1}
    BY DEF U!RegName, U!Fail
  <2> HIDE DEF u
  <2> QED  BY <1>1, <2>1, <2>2 DEF Cursor
<1>4. Cursor(s, U!OrElse(U!IpLiteral(s, j), U!RegName(s, j)))
  BY <1>3, LiteralCursor, Chooses
<1>5. PICK h : h = U!Host(s, j) /\ Cursor(s, h)
  <2> DEFINE x == U!OrElse(U!IpLiteral(s, j), U!RegName(s, j))
  <2>1. U!Host(s, j) \in {x, -1}
    BY DEF U!Host, U!CheckHostPctEncoded, U!Fail
  <2> HIDE DEF x
  <2>2. Cursor(s, -1)
    BY DEF Cursor
  <2> QED  BY <1>4, <2>1, <2>2 DEF x
<1>6. U!Authority(s, i) = U!Port(s, h)
  BY <1>2, <1>5 DEF U!Authority
<1>7. Cursor(s, U!Port(s, h))
  <2> DEFINE p == IF U!At(s, h, U!Colon) THEN h + 1 + U!Run(s, h + 1, U!Digit) ELSE h
  <2>1. U!Port(s, h) = IF h # -1 /\ U!AuthorityEnd(s, p) THEN p ELSE -1
    BY DEF U!Port, U!Fail
  <2>2. ASSUME h # -1 PROVE p \in 0 .. Len(s)
    <3>1. h \in 0 .. Len(s)
      BY <1>5, <2>2 DEF Cursor
    <3>2. CASE U!At(s, h, U!Colon)
      <4>1. PICK b \in 0 .. Len(s) : b = h + 1
        BY <1>1, <3>1, <3>2 DEF U!At
      <4>2. b + U!Run(s, b, U!Digit) \in b .. Len(s)
        BY Moves
      <4>3. p = b + U!Run(s, b, U!Digit)
        BY <3>2, <4>1
      <4> HIDE DEF p
      <4> QED  BY <1>1, <4>2, <4>3
    <3> QED  BY <3>1, <3>2
  <2> HIDE DEF p
  <2> QED  BY <2>1, <2>2 DEF Cursor
<1> QED  BY <1>6, <1>7

LEMMA SegmentsCursor ==
    ASSUME NEW s \in Seq(U!Char), NEW i \in 0 .. Len(s)
    PROVE  Cursor(s, U!Segments(s, i))
<1> DEFINE j == IF U!At(s, i, U!Slash) THEN U!Span(s, i, U!Pchar \cup {U!Slash}) ELSE i
<1>1. Len(s) \in Nat /\ U!Span(s, i, U!Pchar \cup {U!Slash}) \in i .. Len(s)
  BY Moves
<1>2. j \in 0 .. Len(s)
  BY <1>1
<1>3. U!Segments(s, i) \in {j, -1}
  BY DEF U!Segments, U!Fail
<1> HIDE DEF j
<1> QED  BY <1>2, <1>3 DEF Cursor

LEMMA SegmentCursor ==
    ASSUME NEW s \in Seq(U!Char), NEW i \in 0 .. Len(s), NEW class
    PROVE  Cursor(s, U!SegmentNz(s, i, class))
<1> DEFINE j == U!Span(s, i, class)
<1>1. Len(s) \in Nat /\ j \in i .. Len(s)
  BY Moves
<1>2. U!SegmentNz(s, i, class) \in {U!Segments(s, j), -1}
  BY DEF U!SegmentNz, U!Fail
<1> HIDE DEF j
<1>3. Cursor(s, U!Segments(s, j))
  BY <1>1, SegmentsCursor
<1>4. Cursor(s, -1)
  BY DEF Cursor
<1> QED  BY <1>2, <1>3, <1>4

LEMMA PartCursor ==
    ASSUME NEW s \in Seq(U!Char), NEW i \in 0 .. Len(s), NEW first
    PROVE  Cursor(s, U!Part(s, i, first))
<1>1. Len(s) \in Nat /\ Cursor(s, -1) /\ Cursor(s, i)
  BY DEF Cursor
<1> DEFINE a == IF U!At(s, i, U!Slash) /\ U!At(s, i + 1, U!Slash)
                THEN U!Authority(s, i + 2) ELSE U!Fail
<1>2. Cursor(s, a)
  <2>1. CASE U!At(s, i, U!Slash) /\ U!At(s, i + 1, U!Slash)
    <3>1. PICK b \in 0 .. Len(s) : b = i + 2
      BY <1>1, <2>1 DEF U!At
    <3>2. a = U!Authority(s, b)
      BY <2>1, <3>1
    <3> QED  BY <3>2, AuthorityCursor
  <2>2. CASE ~(U!At(s, i, U!Slash) /\ U!At(s, i + 1, U!Slash))
    BY <1>1, <2>2 DEF U!Fail
  <2> QED  BY <2>1, <2>2
<1> DEFINE w == U!PathAbempty(s, a)
           x == U!PathAbsolute(s, i)
           y == U!SegmentNz(s, i, first)
           z == U!PathEmpty(s, i)
<1>3. Cursor(s, w)
  <2> HIDE DEF a
  <2>1. a # U!Fail => a \in 0 .. Len(s)
    BY <1>2 DEF Cursor, U!Fail
  <2>2. a # U!Fail => Cursor(s, U!Segments(s, a))
    BY <2>1, SegmentsCursor
  <2> QED  BY <1>1, <2>2 DEF U!PathAbempty, U!Fail
<1>4. Cursor(s, x)
  <2>1. CASE ~U!At(s, i, U!Slash)
    BY <1>1, <2>1 DEF U!PathAbsolute, U!Fail
  <2>2. CASE U!At(s, i, U!Slash)
    <3>1. PICK b \in 0 .. Len(s) : b = i + 1
      BY <1>1, <2>2 DEF U!At
    <3>2. Cursor(s, U!SegmentNz(s, b, U!Pchar))
      BY SegmentCursor
    <3> DEFINE e == IF U!PathEnd(s, b) THEN b ELSE -1
    <3>3. Cursor(s, e)
      BY DEF Cursor
    <3>4. x = U!OrElse(U!SegmentNz(s, b, U!Pchar), e)
      BY <2>2, <3>1 DEF U!PathAbsolute, U!Fail
    <3> HIDE DEF x, e
    <3> QED  BY <3>2, <3>3, <3>4, Chooses
  <2> QED  BY <2>1, <2>2
<1>5. Cursor(s, y)
  BY SegmentCursor
<1>6. Cursor(s, z)
  BY <1>1 DEF U!PathEmpty, U!Fail
<1>7. U!Part(s, i, first) = U!OrElse(w, U!OrElse(x, U!OrElse(y, z)))
  BY DEF U!Part
<1> HIDE DEF w, x, y, z
<1>8. Cursor(s, U!OrElse(y, z))
  BY <1>5, <1>6, Chooses
<1>9. Cursor(s, U!OrElse(x, U!OrElse(y, z)))
  BY <1>4, <1>8, Chooses
<1>10. Cursor(s, U!OrElse(w, U!OrElse(x, U!OrElse(y, z))))
  BY <1>3, <1>9, Chooses
<1> QED  BY <1>7, <1>10

LEMMA HierCursor ==
    ASSUME NEW s \in Seq(U!Char)
    PROVE  Cursor(s, U!HierPart(s, U!Scheme(s)))
<1> DEFINE c == U!Scheme(s)
           class == U!Alphanumeric \cup {U!Plus, U!Hyphen, U!Dot}
<1>1. Len(s) \in Nat /\ 0 \in 0 .. Len(s)
  OBVIOUS
<1>2. c \in {U!Run(s, 0, class), -1} /\ (c # -1 => U!At(s, c, U!Colon))
  BY DEF U!Scheme, U!Fail
<1>3. 0 + U!Run(s, 0, class) \in 0 .. Len(s)
  BY <1>1, Moves
<1>4. U!HierPart(s, c) = IF c = -1 THEN -1 ELSE U!Part(s, c + 1, U!Pchar)
  BY DEF U!HierPart, U!Fail
<1> HIDE DEF c
<1>5. CASE c = -1
  BY <1>4, <1>5 DEF Cursor, c
<1>6. CASE c # -1
  <2>1. PICK r \in Int : r = U!Run(s, 0, class) /\ r \in 0 .. Len(s)
    <3>1. U!Run(s, 0, class) \in 0 .. Len(s) - 0
      BY <1>1, RunIs, RunsAre
    <3> QED  BY <1>1, <3>1
  <2>2. PICK b \in 0 .. Len(s) : b = c + 1
    BY <1>1, <1>2, <1>6, <2>1 DEF U!At
  <2>3. U!HierPart(s, c) = U!Part(s, b, U!Pchar)
    BY <1>4, <1>6, <2>2
  <2>4. Cursor(s, U!Part(s, b, U!Pchar))
    BY PartCursor
  <2> QED  BY <2>3, <2>4 DEF c
<1> QED  BY <1>5, <1>6

(* What follows the path, and where uri() leaves the cursor.               *)
LEMMA RestCursor ==
    ASSUME NEW s \in Seq(U!Char), NEW i, Cursor(s, i)
    PROVE  U!Rest(s, i).ok \in BOOLEAN /\ U!Rest(s, i).at \in 0 .. Len(s)
<1> DEFINE Fine(t) == t.ok \in BOOLEAN /\ t.at \in 0 .. Len(s)
<1>1. Len(s) \in Nat /\ 0 \in 0 .. Len(s)
  OBVIOUS
<1>2. ASSUME NEW q \in 0 .. Len(s) PROVE Fine(U!Fragment(s, q))
  <2> DEFINE f == IF U!At(s, q, U!Hash) THEN U!Span(s, q + 1, U!QueryChar) ELSE q
             a == IF U!At(s, q, U!Hash) THEN q + 1 ELSE 0
  <2>1. U!Fragment(s, q) = IF f = Len(s) THEN [ok |-> TRUE, at |-> f]
                          ELSE [ok |-> FALSE, at |-> a]
    BY DEF U!Fragment
  <2>2. a \in 0 .. Len(s)
    BY <1>1 DEF U!At
  <2> HIDE DEF a, f
  <2>3. CASE f = Len(s)
    BY <1>1, <2>1, <2>3
  <2>4. CASE f # Len(s)
    BY <2>1, <2>2, <2>4
  <2> QED  BY <2>3, <2>4
<1>3. CASE i = -1
  BY <1>1, <1>3 DEF U!Rest, U!Fail
<1>4. CASE i # -1 /\ ~U!At(s, i, U!Question)
  <2>1. i \in 0 .. Len(s)
    BY <1>4 DEF Cursor
  <2>2. U!Rest(s, i) = U!Fragment(s, i)
    BY <1>4 DEF U!Rest, U!Fail
  <2> QED  BY <1>2, <2>1, <2>2
<1>5. CASE i # -1 /\ U!At(s, i, U!Question)
  <2>1. PICK b \in 0 .. Len(s) : b = i + 1
    BY <1>1, <1>5 DEF Cursor, U!At
  <2>2. PICK q : q = U!Span(s, b, U!QueryChar)
    OBVIOUS
  <2>3. q \in b .. Len(s)
    BY <2>2, Moves
  <2>4. q \in 0 .. Len(s)
    BY <1>1, <2>3
  <2>5. U!Rest(s, i) = U!Query(s, i, q)
    BY <1>5, <2>1, <2>2 DEF U!Rest, U!Fail
  <2>6. U!Query(s, i, q) = IF U!AtEnd(s, q, {U!Hash}) THEN U!Fragment(s, q)
                          ELSE [ok |-> FALSE, at |-> b]
    BY <2>1 DEF U!Query
  <2>7. Fine(U!Fragment(s, q)) /\ Fine([ok |-> FALSE, at |-> b])
    BY <1>2, <2>4
  <2> QED  BY <2>5, <2>6, <2>7
<1> QED  BY <1>3, <1>4, <1>5

LEMMA UriTypes ==
    ASSUME U!TypeOK, U!Next
    PROVE  U!TypeOK'
<1>1. /\ str \in Seq(U!Char) /\ reference \in BOOLEAN
      /\ pc \in {"uri", "relative", "done"}
      /\ index \in 0 .. Len(str) /\ answer \in BOOLEAN
  BY DEF U!TypeOK
<1>2. str' = str /\ reference' = reference
  BY DEF U!Next, U!ParseURI, U!ParseRelativeRef
<1>3. CASE U!ParseURI
  <2>1. PICK h : h = U!HierPart(str, U!Scheme(str))
    OBVIOUS
  <2>2. Cursor(str, h)
    BY <1>1, <2>1, HierCursor
  <2>3. PICK t : t = U!Rest(str, h)
    OBVIOUS
  <2>4. t.ok \in BOOLEAN /\ t.at \in 0 .. Len(str)
    BY <1>1, <2>2, <2>3, RestCursor
  <2>5. /\ index' = t.at
        /\ IF t.ok \/ ~reference THEN pc' = "done" /\ answer' = t.ok
           ELSE pc' = "relative" /\ answer' = answer
    BY <1>3, <2>1, <2>3 DEF U!ParseURI
  <2>6. pc' \in {"uri", "relative", "done"} /\ answer' \in BOOLEAN
    BY <1>1, <2>4, <2>5, Zenon
  <2> QED  BY <1>1, <1>2, <2>4, <2>5, <2>6 DEF U!TypeOK
<1>4. CASE U!ParseRelativeRef
  <2>1. PICK h : h = U!Part(str, index, U!SegmentNc)
    OBVIOUS
  <2>2. Cursor(str, h)
    BY <1>1, <2>1, PartCursor
  <2>3. U!Rest(str, h).ok \in BOOLEAN
    BY <1>1, <2>2, RestCursor
  <2>4. pc' = "done" /\ answer' = U!Rest(str, h).ok /\ index' = index
    BY <1>4, <2>1 DEF U!ParseRelativeRef
  <2> QED  BY <1>1, <1>2, <2>3, <2>4 DEF U!TypeOK
<1> QED  BY <1>3, <1>4 DEF U!Next

-----------------------------------------------------------------------------
(* All types.                                                              *)

LEMMA HostAnswers ==
    ASSUME NEW s, NEW required
    PROVE  H!IsHostname(s) \in BOOLEAN /\ H!IsHostAndPort(s, required) \in BOOLEAN
<1> DEFINE splitIdx == H!LastIndex(s, H!Colon)
           end == H!LastIndex(s, H!Close)
           named == H!SubSeq(s, 1, splitIdx)
           inner == H!SubSeq(s, 2, end)
           port == H!IsPort(H!After(s, splitIdx + 1))
           bracketed == CASE end + 1 = Len(s) -> ~required /\ H!IsIp6(inner)
                          [] end + 1 = splitIdx -> H!IsIp6(inner) /\ port
                          [] OTHER -> FALSE
           open == ~required /\ (H!IsHostname(s) \/ H!IsIp4(s))
           split == (H!IsHostname(named) \/ H!IsIp4(named)) /\ port
<1>1. H!IsHostname(s) \in BOOLEAN
  BY DEF H!IsHostname
<1>2. bracketed \in BOOLEAN
  <2>1. /\ (~required /\ H!IsIp6(inner)) \in BOOLEAN
        /\ (H!IsIp6(inner) /\ port) \in BOOLEAN
    OBVIOUS
  <2> QED  BY <2>1, Zenon
<1>3. open \in BOOLEAN /\ split \in BOOLEAN
  OBVIOUS
<1>4. H!IsHostAndPort(s, required) =
         IF s = << >> THEN FALSE
         ELSE IF s[1] = H!Open THEN bracketed
         ELSE IF splitIdx < 0 THEN open ELSE split
  BY DEF H!IsHostAndPort
<1> HIDE DEF bracketed, open, split, splitIdx
<1>5. H!IsHostAndPort(s, required) \in BOOLEAN
  <2>1. CASE s = << >>
    BY <1>4, <2>1, Zenon
  <2>2. CASE s # << >> /\ s[1] = H!Open
    BY <1>2, <1>4, <2>2, Zenon
  <2>3. CASE s # << >> /\ s[1] # H!Open
    BY <1>3, <1>4, <2>3, Zenon
  <2> QED  BY <2>1, <2>2, <2>3
<1> QED  BY <1>1, <1>5

Called == fn \in {"ip", "uri", "host", "map"}

LEMMA TypesInit ==
    ASSUME Init
    PROVE  Called /\ TypeOK
<1>0. Called
  BY LibraryAssumption DEF Init, Called
<1>1. CASE fn = "ip"
  <2>1. I!Init /\ I!IpAssumption
    BY <1>1, LibraryAssumption DEF Init
  <2>2. I!Attempts(version, prefix) \in {<< 6, 4 >>, << 4, 6 >>, << 4 >>, << 6 >>, << >>}
    BY DEF I!Attempts
  <2>3. tries \in Seq({4, 6})
    <3>1. /\ << >> \in Seq({4, 6}) /\ << 4 >> \in Seq({4, 6}) /\ << 6 >> \in Seq({4, 6})
          /\ << 4, 6 >> \in Seq({4, 6}) /\ << 6, 4 >> \in Seq({4, 6})
      OBVIOUS
    <3>2. tries = I!Attempts(version, prefix)
      BY <2>1 DEF I!Init
    <3> QED  BY <2>2, <3>1, <3>2
  <2>4. /\ str \in Seq(I!Char) /\ version \in Versions /\ prefix \in BOOLEAN
        /\ strict \in BOOLEAN
    BY <2>1 DEF I!Init, I!IpAssumption
  <2>5. /\ parser = 0 /\ pc = "try" /\ index = 0 /\ octets = << >> /\ pieces = << >>
        /\ doubleColonAt = -1 /\ zoneIDFound = FALSE /\ answer = FALSE
    BY <2>1 DEF I!Init
  <2>6. pieces \in Seq(Word) /\ octets \in Seq(0 .. 255) /\ Len(octets) <= 4
        /\ doubleColonAt \in -1 .. Len(pieces) /\ index \in 0 .. Len(str)
    BY <2>4, <2>5
  <2>7. I!TypeOK
    BY <2>3, <2>4, <2>5, <2>6 DEF I!TypeOK, Word
  <2> QED  BY <1>0, <1>1, <2>7, Zenon DEF TypeOK
<1>2. CASE fn = "uri"
  <2>1. U!Init /\ U!UriAssumption
    BY <1>2, LibraryAssumption DEF Init
  <2>2. str \in Seq(U!Char) /\ index = 0
    BY <2>1 DEF U!Init, U!UriAssumption
  <2>3. index \in 0 .. Len(str)
    BY <2>2
  <2>4. U!TypeOK
    BY <2>1, <2>2, <2>3 DEF U!Init, U!TypeOK
  <2> QED  BY <1>0, <1>2, <2>4, Zenon DEF TypeOK
<1>3. CASE fn = "host"
  <2>1. pc \in {"call", "done"} /\ answer \in BOOLEAN
    BY <1>3 DEF Init, H!Init
  <2> QED  BY <1>0, <1>3, <2>1, Zenon DEF TypeOK
<1>4. CASE fn = "map"
  <2>1. P!TypeOK
    BY <1>4, EqualInvInit DEF EqualInv, MapInv
  <2> QED  BY <1>0, <1>4, <2>1, Zenon DEF TypeOK
<1> QED  BY <1>0, <1>1, <1>2, <1>3, <1>4 DEF Called

LEMMA TypesStep ==
    ASSUME Called, TypeOK, EqualInv, [Next]_vars
    PROVE  Called' /\ TypeOK'
<1>0. Called'
  BY DEF Called, Next, vars
<1>1. CASE fn = "ip" /\ Next
  <2>1. I!TypeOK /\ I!Next /\ fn' = "ip"
    <3>1. I!TypeOK
      BY <1>1, Zenon DEF TypeOK
    <3> QED  BY <1>1, <3>1 DEF Next
  <2>2. I!TypeOK'
    BY <2>1, IpTypes
  <2> QED  BY <1>0, <2>1, <2>2, Zenon DEF TypeOK
<1>2. CASE fn = "uri" /\ Next
  <2>1. U!TypeOK /\ U!Next /\ fn' = "uri"
    <3>1. U!TypeOK
      BY <1>2, Zenon DEF TypeOK
    <3> QED  BY <1>2, <3>1 DEF Next
  <2>2. U!TypeOK'
    BY <2>1, UriTypes
  <2> QED  BY <1>0, <2>1, <2>2, Zenon DEF TypeOK
<1>3. CASE fn = "host" /\ Next
  <2>1. H!Return /\ fn' = "host"
    BY <1>3 DEF Next, H!Next
  <2>2. pc' = "done" /\ answer' = IF call = "isHostname" THEN H!IsHostname(str)
                                 ELSE H!IsHostAndPort(str, portRequired)
    BY <2>1 DEF H!Return
  <2>3. answer' \in BOOLEAN
    BY <2>2, HostAnswers, Zenon
  <2> QED  BY <1>0, <2>1, <2>2, <2>3, Zenon DEF TypeOK
<1>4. CASE fn = "map" /\ Next
  <2>1. fn' = "map" /\ EqualInv'
    BY <1>4, EqualInvStep DEF Next
  <2>2. P!TypeOK'
    BY <2>1 DEF EqualInv, MapInv
  <2> QED  BY <1>0, <2>1, <2>2, Zenon DEF TypeOK
<1>5. CASE UNCHANGED vars
  <2>1. /\ UNCHANGED <<fn, pc, str, index, answer>>
        /\ UNCHANGED <<version, prefix, strict, tries, parser, octets, pieces>>
        /\ UNCHANGED <<doubleColonAt, zoneIDFound, reference>>
        /\ UNCHANGED <<platform, m, other, key, todo, found, equal>>
    BY <1>5 DEF vars, text, ip, uri, host, map
  <2>2. /\ I!TypeOK' <=> I!TypeOK
        /\ U!TypeOK' <=> U!TypeOK
        /\ P!TypeOK' <=> P!TypeOK
    BY <2>1 DEF I!TypeOK, U!TypeOK, P!TypeOK
  <2> QED  BY <1>0, <2>1, <2>2, Zenon DEF Called, TypeOK
<1> QED  BY <1>0, <1>1, <1>2, <1>3, <1>4, <1>5 DEF Called

(* Whatever strings, addresses, names and maps they are called with: no    *)
(* cursor leaves its string, no 16-bit piece, octet or place of the double *)
(* colon is out of range, and at most one key of the map is found          *)
(* (cel/library.go:565-638, 780-899, 1122-1193; map_value.go:178-254).     *)
THEOREM TypeCorrect == Spec => []TypeOK
<1> QED  BY TypesInit, TypesStep, EqualInvInit, EqualInvStep, PTL DEF Spec

==============================================================================
