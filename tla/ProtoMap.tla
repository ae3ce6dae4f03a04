------------------------------- MODULE ProtoMap --------------------------------
(***************************************************************************)
(* protoMap (map_value.go): a protobuf map as a CEL value.  Keys of one    *)
(* native type are found by CEL ints, uints and doubles with conversions   *)
(* that must lose nothing, and maps are compared by looking up, in the     *)
(* random order of Range, the keys of one in the other.                    *)
(* What is no map at all is never equal to one, and is left out too.       *)
(* A double is a whole number of halves; NaN and the infinities, which     *)
(* convert to nothing, are left out.                                       *)
(***************************************************************************)
EXTENDS Integers, FiniteSets

CONSTANTS
    IntMax,     \* math.MaxInt64
    Int32Max,   \* math.MaxInt32
    Mantissa,   \* 2^53, up to which every integer is a double
    Quanta,     \* what the last bit of a double may stand for, in halves
    Values,     \* what maps hold
    Maps,       \* the maps keys are looked up in
    Compared,   \* the maps that are compared
    Keys,       \* the CEL keys it may look up
    Platforms   \* how float64 is converted where it does not fit

IntMin == -IntMax - 1
UintMax == 2 * IntMax + 1

Double == UNION {{n * q : n \in -Mantissa .. Mantissa} : q \in Quanta}

(* Keys and maps; an enumeration or bytes can be no key.                   *)
KeyType == {"int", "uint", "double", "bool", "string"}
CelNumber(type) ==
    CASE type = "int" -> IntMin .. IntMax
      [] type = "uint" -> 0 .. UintMax
      [] type = "double" -> Double
      [] type = "bool" -> {0, 1}
      [] type = "string" -> Nat
CelKey == {k \in [type : KeyType, num : Int] : k.num \in CelNumber(k.type)}
Kind == {"int32", "int64", "uint32", "uint64", "bool", "string"}
NativeKey(kind) ==
    CASE kind = "int32" -> -Int32Max - 1 .. Int32Max
      [] kind = "int64" -> IntMin .. IntMax
      [] kind = "uint32" -> 0 .. 2 * Int32Max + 1
      [] kind = "uint64" -> 0 .. UintMax
      [] kind = "bool" -> {0, 1}
      [] kind = "string" -> Nat

(* A map has finitely many keys, all of its kind.                          *)
IsMap(map) ==
    /\ map.kind \in Kind
    /\ DOMAIN map.entries \subseteq NativeKey(map.kind)
    /\ IsFiniteSet(DOMAIN map.entries)

ProtoMapAssumption ==
    /\ {IntMax, Int32Max, Mantissa} \subseteq Nat
    /\ Int32Max < IntMax
    /\ Quanta \subseteq Nat \ {0}
    /\ \A q \in Quanta : q = 1 \/ q % 2 = 0
    /\ \A q, r \in Quanta : q <= r => r % q = 0
    /\ {2 * (IntMax + 1), 2 * (UintMax + 1)} \subseteq Double
    /\ \A map \in Maps \cup Compared : IsMap(map)
    /\ Keys \subseteq CelKey
    /\ Platforms \subseteq {"saturating", "indefinite"}

VARIABLES
    platform,
    m,          \* the map: its kind and a function from native keys
    other,      \* the map it is compared with
    key,        \* the key it is asked for
    pc,
    todo,       \* the keys Range has not given yet
    found,      \* the native key that was found, as a set
    equal       \* what Equal returns

vars == <<platform, m, other, key, pc, todo, found, equal>>

-----------------------------------------------------------------------------
(* Doubles.                                                                *)

(* What the last bit of a double of this size stands for.                  *)
Quantum(v) ==
    CHOOSE q \in Quanta :
        /\ v <= Mantissa * q
        /\ \A r \in Quanta : r < q => v > Mantissa * r

(* The nearest double, of two the even one.                                *)
Nearest(v) ==
    LET quantum == Quantum(v)
        rest == v % quantum
        up == \/ 2 * rest > quantum
              \/ 2 * rest = quantum /\ (v \div quantum) % 2 = 1
    IN  IF up THEN v - rest + quantum ELSE v - rest

(* float64(i), in halves.                                                  *)
Float(i) == IF i < 0 THEN -Nearest(-2 * i) ELSE Nearest(2 * i)

Truncated(v) == IF v < 0 THEN -((-v) \div 2) ELSE v \div 2

(* int64(v) and uint64(v): what a value that does not fit becomes depends  *)
(* on the processor, which saturates or has one result for all of them.    *)
Int64Of(v) ==
    IF Truncated(v) \in IntMin .. IntMax THEN Truncated(v)
    ELSE IF platform = "indefinite" \/ v < 0 THEN IntMin ELSE IntMax

Uint64Of(v) ==
    IF Truncated(v) \in 0 .. UintMax THEN Truncated(v)
    ELSE IF platform = "indefinite" THEN 0 ELSE UintMax

(* The fraction is cut off without a look at what is lost.                 *)
DoubleToInt64LosslessMutant(v) == {Int64Of(v)}

DoubleToInt64Lossless(v) == LET i == Int64Of(v) IN {j \in {i} : Float(j) = v}
DoubleToUint64Lossless(v) ==
    LET u == Uint64Of(v) IN {j \in {u} : v >= 0 /\ Float(j) = v}

-----------------------------------------------------------------------------
(* Find.                                                                   *)

(* toNativeKey: the key for Get, if the kind of the map has it.            *)
ToNativeKey(kind, k) ==
    LET type == CASE kind \in {"int32", "int64"} -> "int"
                  [] kind \in {"uint32", "uint64"} -> "uint"
                  [] OTHER -> kind
    IN  {n \in {k.num} : k.type = type /\ n \in NativeKey(kind)}

(* toCelKey and NativeToValue: integers are widened.                       *)
ToCelKey(kind, n) ==
    [type |-> CASE kind \in {"int32", "int64"} -> "int"
                [] kind \in {"uint32", "uint64"} -> "uint"
                [] OTHER -> kind,
     num |-> n]

(* What Get returns is valid only for a key that the map has.              *)
FindInternal(map, type, nums) ==
    DOMAIN map.entries
        \cap UNION {ToNativeKey(map.kind, [type |-> type, num |-> n]) : n \in nums}

(* The second conversion of a double is tried if the first finds nothing.  *)
Coerced(map, k) ==
    CASE k.type = "double" ->
            LET ints == FindInternal(map, "int", DoubleToInt64Lossless(k.num))
            IN  IF ints # {} THEN ints
                ELSE FindInternal(map, "uint", DoubleToUint64Lossless(k.num))
      [] k.type = "int" -> FindInternal(map, "uint", {n \in {k.num} : n >= 0})
      [] k.type = "uint" -> FindInternal(map, "int", {n \in {k.num} : n <= IntMax})
      [] OTHER -> {}

Find(map, k) ==
    LET direct == FindInternal(map, k.type, {k.num})
    IN  IF direct # {} THEN direct ELSE Coerced(map, k)

Size(map) == Cardinality(DOMAIN map.entries)

-----------------------------------------------------------------------------
(* The calls.                                                              *)

Init ==
    /\ platform \in Platforms
    /\ \/ pc = "find" /\ m \in Maps /\ key \in Keys /\ other = m
       \/ pc = "equal" /\ m \in Compared /\ other \in Compared /\ key = ToCelKey("bool", 0)
    /\ todo = {}
    /\ found = {}
    /\ equal = FALSE

FindKey ==
    /\ pc = "find"
    /\ found' = Find(m, key)
    /\ pc' = "found"
    /\ UNCHANGED <<platform, m, other, key, todo, equal>>

(* Maps of different sizes are compared as well.                           *)
EqualMutant ==
    /\ pc = "equal"
    /\ todo' = DOMAIN m.entries
    /\ pc' = "range"
    /\ UNCHANGED <<platform, m, other, key, found, equal>>

Equal ==
    /\ pc = "equal"
    /\ IF Size(m) # Size(other)
       THEN pc' = "compared" /\ UNCHANGED todo
       ELSE pc' = "range" /\ todo' = DOMAIN m.entries
    /\ UNCHANGED <<platform, m, other, key, found, equal>>

(* One turn of Range, which stops at the first entry that is not there.    *)
RangeEntry ==
    /\ pc = "range"
    /\ \E k \in todo :
          /\ todo' = todo \ {k}
          /\ LET there == Find(other, ToCelKey(m.kind, k))
             IN  pc' = IF \E n \in there : other.entries[n] = m.entries[k]
                       THEN "range" ELSE "compared"
    /\ UNCHANGED <<platform, m, other, key, found, equal>>

RangeEnd ==
    /\ pc = "range"
    /\ todo = {}
    /\ equal' = TRUE
    /\ pc' = "compared"
    /\ UNCHANGED <<platform, m, other, key, todo, found>>

Next == FindKey \/ Equal \/ RangeEntry \/ RangeEnd

-----------------------------------------------------------------------------
(* What CEL keys are worth, in halves; keys of other types are not numbers.*)
Numeric(k) == k.type \in {"int", "uint", "double"}
Worth(k) == IF k.type = "double" THEN k.num ELSE 2 * k.num
Same(k, l) ==
    IF Numeric(k) /\ Numeric(l) THEN Worth(k) = Worth(l) ELSE k = l

(* The doubles one beyond the integers: Float(IntMax) and Float(UintMax)   *)
(* are rounded up to them, so that a saturating conversion seems lossless. *)
Beyond ==
    /\ platform = "saturating"
    /\ key.type = "double" /\ key.num \in {2 * (IntMax + 1), 2 * (UintMax + 1)}

-----------------------------------------------------------------------------
(* Properties.                                                             *)

(* Every variable has its type.                                            *)
TypeOK ==
    /\ platform \in Platforms
    /\ IsMap(m) /\ IsMap(other)
    /\ key \in CelKey
    /\ pc \in {"find", "found", "equal", "range", "compared"}
    /\ todo \subseteq DOMAIN m.entries
    /\ found \subseteq DOMAIN m.entries /\ Cardinality(found) <= 1
    /\ equal \in BOOLEAN

(* A key is found exactly if it is worth what is asked for: no conversion  *)
(* loses anything and no conversion is missing (map_value.go:178-254,      *)
(* 327-352).                                                               *)
FindExact ==
    (pc = "found" /\ ~Beyond)
        => found = {n \in DOMAIN m.entries : Same(ToCelKey(m.kind, n), key)}

(* Two maps are equal exactly if each has the other's entries, whatever    *)
(* their kinds, in whichever order they are walked: Equal is symmetric     *)
(* although it looks in one direction only (map_value.go:102-128).         *)
Held(a, b) ==
    \A k \in DOMAIN a.entries : \E l \in DOMAIN b.entries :
        /\ Same(ToCelKey(a.kind, k), ToCelKey(b.kind, l))
        /\ a.entries[k] = b.entries[l]

EqualSymmetric ==
    pc = "compared" => (equal <=> (Held(m, other) /\ Held(other, m)))

==============================================================================
