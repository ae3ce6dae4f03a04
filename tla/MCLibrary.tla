------------------------------- MODULE MCLibrary -------------------------------
(* What the functions are asked in the runs of Library.                       *)
(* For maps: integers of five bits (four of them for a 32-bit one's three),   *)
(* doubles with a mantissa of three, every key that can be asked for; every   *)
(* map with all keys, with one, or with some of those at the bounds.          *)
EXTENDS Library

A == INSTANCE MCIpStrings
R == INSTANCE MCUriStrings
N == INSTANCE MCHostStrings

MCIpStrings == A!MCStrings
MCUriStrings == R!MCStrings
MCHostStrings == N!MCStrings

(* Enough for each way a rule is not followed.                                *)
FewIpStrings == A!Undotted \cup A!Dotted6 \cup A!ZonedStrings
FewUriStrings == R!Tails \cup R!Dotted
FewHostStrings == N!Names

(* The bounds of ProtoMap, of which the maps are made: TLC reads these sets   *)
(* before it has the constants of ProtoMap, which they are.                   *)
Int64s == -IntMax - 1 .. IntMax
Uint64s == 0 .. 2 * IntMax + 1
Native ==
    [int32 |-> -Int32Max - 1 .. Int32Max, int64 |-> Int64s,
     uint32 |-> 0 .. 2 * Int32Max + 1, uint64 |-> Uint64s, bool |-> {0, 1}]
Numbered == DOMAIN Native
Halves == -8 * (IntMax + 1) .. 8 * (IntMax + 1)
MCDoubleKeys ==
    {d \in Halves : \E n \in -Mantissa .. Mantissa, q \in Quanta : d = n * q}

MCKeys ==
    {[type |-> "int", num |-> n] : n \in Int64s}
        \cup {[type |-> "uint", num |-> n] : n \in Uint64s}
        \cup {[type |-> "double", num |-> n] : n \in MCDoubleKeys}
        \cup {[type |-> t, num |-> n] : t \in {"bool", "string"}, n \in {0, 1}}

AtBounds ==
    {-IntMax - 1, -1, 0, 1, Int32Max + 1, IntMax, IntMax + 1, 2 * IntMax + 1}

MCMaps ==
    UNION {{[kind |-> k, entries |-> [n \in s |-> 1]] :
                s \in {Native[k]} \cup {{n} : n \in Native[k]}} :
           k \in Numbered}
    \cup {[kind |-> "string", entries |-> e] : e \in [{0, 1} -> Values]}

MCCompared ==
    UNION {{[kind |-> k, entries |-> e] :
                e \in UNION {[s -> Values] :
                        s \in {t \in SUBSET (Native[k] \cap AtBounds) : Cardinality(t) <= 2}}} :
           k \in Numbered}
    \cup {[kind |-> "string", entries |-> e] : e \in [{0, 1} -> Values]}
==============================================================================
