----------------------------- MODULE Unique_proofs ------------------------------
(***************************************************************************)
(* Proofs about Unique: for any number of goroutines, lists and maps, the  *)
(* pooled maps are empty and nobody's, and every verdict is that of the    *)
(* list that was asked about.                                              *)
(***************************************************************************)
EXTENDS Unique, TLAPS

(* What one goroutine may do.                                              *)
GAction(g) ==
    \/ Call(g) \/ Get(g) \/ LoopEnd(g) \/ NotBytes(g) \/ Duplicate(g)
    \/ Remember(g) \/ Clear(g) \/ Put(g)

(* What Call does for a list of one kind.                                  *)
Asked(g, k) ==
    \E l \in Lists[k] :
        /\ of' = [of EXCEPT ![g] = k]
        /\ list' = [list EXCEPT ![g] = l]
        /\ pc' = [pc EXCEPT ![g] = IF Len(l) <= 1 THEN "returned" ELSE "get"]

(* What Get does with one map.                                             *)
Given(g, m) ==
    /\ exist' = [exist EXCEPT ![g] = m]
    /\ IF m \in pool[of[g]]
       THEN /\ pool' = [pool EXCEPT ![of[g]] = pool[of[g]] \ {m}]
            /\ UNCHANGED <<kind, keys>>
       ELSE /\ \A k \in Kinds : m \notin pool[k]
            /\ \A h \in Goroutines : exist[h] # m
            /\ kind' = [kind EXCEPT ![m] = of[g]]
            /\ keys' = [keys EXCEPT ![m] = {}]
            /\ UNCHANGED pool

(* What a verdict says of a list.                                          *)
Verdict(l, k, a) ==
    LET n == Len(l) + 1
        bytes(i) == k = "bytes" => \A j \in 1 .. i - 1 : l[j] # Strange
    IN  /\ a = "true" => DistinctTo(l, n) /\ (n > 2 => bytes(n))
        /\ a = "error" => \E i \in 1 .. n - 1 :
                             DistinctTo(l, i) /\ bytes(i) /\ ~bytes(i + 1)
        /\ a = "false" => \E i \in 1 .. n - 1 :
                             /\ DistinctTo(l, i) /\ bytes(i + 1)
                             /\ ~DistinctTo(l, i + 1)

(* Who has a map has one of the right kind; in the loop it holds the       *)
(* members before the index, which are different; and so on to the return. *)
Seen(l, i) == {Key(l[j], j) : j \in 1 .. i - 1}
Fits(g) ==
    /\ exist[g] # NoMap <=> pc[g] \in Holding
    /\ pc[g] \in Holding => kind[exist[g]] = of[g]
    /\ pc[g] \in {"get", "loop"} => Len(list[g]) > 1 /\ next[g] <= Len(list[g]) + 1
    /\ pc[g] = "get" => next[g] = 1
    /\ pc[g] = "loop" => /\ keys[exist[g]] = Seen(list[g], next[g])
                         /\ DistinctTo(list[g], next[g])
                         /\ BytesTo(g, next[g])
    /\ pc[g] = "put" => keys[exist[g]] = {}
    /\ pc[g] \in {"clear", "put", "returned"} => Verdict(list[g], of[g], answer[g])

IInv == TypeOK /\ PoolClean /\ \A g \in Goroutines : Fits(g)

-----------------------------------------------------------------------------
LEMMA InitInv == Init => IInv
<1> SUFFICES ASSUME Init PROVE IInv
  OBVIOUS
<1>1. TypeOK
  BY DEF Init, TypeOK, Kinds, Busy, NoMap
<1>2. PoolClean
  BY DEF Init, PoolClean, NoMap
<1>3. ASSUME NEW g \in Goroutines PROVE Fits(g)
  BY DEF Init, Fits, Holding, NoMap
<1> QED
  BY <1>1, <1>2, <1>3 DEF IInv

(* Keys tell members apart exactly where they are different.               *)
LEMMA KeysDiffer ==
    ASSUME NEW l \in Seq(Values), NEW i \in 1 .. Len(l), DistinctTo(l, i)
    PROVE  /\ Key(l[i], i) \in Seen(l, i) => ~DistinctTo(l, i + 1)
           /\ Key(l[i], i) \notin Seen(l, i) => DistinctTo(l, i + 1)
<1>1. ASSUME Key(l[i], i) \in Seen(l, i) PROVE ~DistinctTo(l, i + 1)
  <2>1. PICK j \in 1 .. i - 1 : Key(l[i], i) = Key(l[j], j)
    BY <1>1 DEF Seen
  <2>2. l[i] = l[j] /\ l[j] # NaN
    BY <2>1 DEF Key
  <2>3. j \in 1 .. (i + 1) - 1 /\ i \in 1 .. (i + 1) - 1 /\ j < i
    OBVIOUS
  <2> QED
    BY <2>2, <2>3 DEF DistinctTo
<1>2. ASSUME Key(l[i], i) \notin Seen(l, i) PROVE DistinctTo(l, i + 1)
  <2> SUFFICES ASSUME NEW j \in 1 .. (i + 1) - 1, NEW k \in 1 .. (i + 1) - 1,
                      j < k, l[j] = l[k], l[j] # NaN
               PROVE  FALSE
    BY DEF DistinctTo
  <2>1. CASE k < i
    <3>1. j \in 1 .. i - 1 /\ k \in 1 .. i - 1
      BY <2>1
    <3> QED
      BY <3>1 DEF DistinctTo
  <2>2. CASE k = i
    <3>1. j \in 1 .. i - 1
      BY <2>2
    <3>2. Key(l[i], i) = Key(l[j], j)
      BY <2>2 DEF Key
    <3> QED
      BY <1>2, <3>1, <3>2 DEF Seen
  <2> QED
    BY <2>1, <2>2
<1> QED
  BY <1>1, <1>2

LEMMA TypeStep ==
    ASSUME IInv, NEW g \in Goroutines, GAction(g)
    PROVE  TypeOK'
<1>0. TypeOK
  BY DEF IInv
<1>1. CASE Call(g)
  <2>. PICK k \in Kinds : Asked(g, k)
    BY <1>1 DEF Call, Asked
  <2>1. PICK l \in Lists[k] :
          /\ of' = [of EXCEPT ![g] = k]
          /\ list' = [list EXCEPT ![g] = l]
          /\ pc' = [pc EXCEPT ![g] = IF Len(l) <= 1 THEN "returned" ELSE "get"]
    BY DEF Asked
  <2>2. l \in Seq(Values)
    BY UniqueAssumption
  <2>3. /\ next' = [next EXCEPT ![g] = 1]
        /\ answer' = [answer EXCEPT ![g] = "true"]
        /\ UNCHANGED <<pool, kind, keys, exist>>
    BY <1>1 DEF Call
  <2> QED
    BY <1>0, <2>1, <2>2, <2>3 DEF TypeOK, Busy
<1>2. CASE Get(g)
  <2>. PICK m \in Maps : Given(g, m)
    BY <1>2 DEF Get, Given
  <2>1. pool' \in [Kinds -> SUBSET Maps]
    <3>1. pool' = pool \/ pool' = [pool EXCEPT ![of[g]] = pool[of[g]] \ {m}]
      BY DEF Given
    <3>2. of[g] \in Kinds /\ pool[of[g]] \ {m} \subseteq Maps
          /\ pool \in [Kinds -> SUBSET Maps]
      BY <1>0 DEF TypeOK
    <3>3. CASE pool' = pool
      BY <3>2, <3>3
    <3>4. CASE pool' = [pool EXCEPT ![of[g]] = pool[of[g]] \ {m}]
      BY <3>2, <3>4
    <3> QED
      BY <3>1, <3>3, <3>4
  <2>2. kind' \in [Maps -> Kinds] /\ keys' \in [Maps -> SUBSET (Values \X Nat)]
    BY <1>0 DEF Given, TypeOK
  <2>3. exist' \in [Goroutines -> Maps \cup {NoMap}]
    BY <1>0 DEF Given, TypeOK
  <2>4. pc' \in [Goroutines -> {"idle", "returned"} \cup Busy]
    BY <1>0, <1>2 DEF Get, TypeOK, Busy
  <2> QED
    BY <1>0, <1>2, <2>1, <2>2, <2>3, <2>4 DEF Get, TypeOK
<1>3. CASE LoopEnd(g) \/ NotBytes(g) \/ Duplicate(g)
  BY <1>0, <1>3 DEF LoopEnd, NotBytes, Duplicate, Leave, TypeOK, Busy
<1>4. CASE Remember(g)
  <2>1. list[g] \in Seq(Values) /\ next[g] \in 1 .. Len(list[g])
    BY <1>0, <1>4 DEF Remember, TypeOK
  <2>2. list[g][next[g]] \in Values
    BY <2>1
  <2>3. Key(list[g][next[g]], next[g]) \in Values \X Nat
    BY <2>1, <2>2 DEF Key
  <2>4. keys' \in [Maps -> SUBSET (Values \X Nat)]
    BY <1>0, <1>4, <2>3 DEF Remember, TypeOK
  <2> QED
    BY <1>0, <1>4, <2>4 DEF Remember, TypeOK
<1>5. CASE Clear(g)
  BY <1>0, <1>5 DEF Clear, TypeOK, Busy
<1>6. CASE Put(g)
  <2>1. exist[g] \in Maps
    BY <1>6 DEF IInv, TypeOK, Fits, Put, Holding
  <2>2. pool' \in [Kinds -> SUBSET Maps]
    BY <1>0, <1>6, <2>1 DEF Put, TypeOK
  <2>3. pc' \in [Goroutines -> {"idle", "returned"} \cup Busy]
    BY <1>0, <1>6 DEF Put, TypeOK
  <2> QED
    BY <1>0, <1>6, <2>2, <2>3 DEF Put, TypeOK
<1> QED
  BY <1>1, <1>2, <1>3, <1>4, <1>5, <1>6 DEF GAction

(* What holds of a goroutine depends on its own variables and on its map.  *)
LEMMA FitsFrame ==
    ASSUME NEW h \in Goroutines, Fits(h),
           pc'[h] = pc[h], list'[h] = list[h], of'[h] = of[h],
           exist'[h] = exist[h], next'[h] = next[h], answer'[h] = answer[h],
           pc[h] \in Holding => /\ keys'[exist[h]] = keys[exist[h]]
                                /\ kind'[exist[h]] = kind[exist[h]]
    PROVE  Fits(h)'
BY DEF Fits, BytesTo, Holding

-----------------------------------------------------------------------------
(* The actions, one by one.                                                *)

LEMMA CallStep ==
    ASSUME IInv, NEW g \in Goroutines, Call(g)
    PROVE  PoolClean' /\ \A h \in Goroutines : Fits(h)'
<1>. PICK k \in Kinds : Asked(g, k)
  BY DEF Call, Asked
<1>1. PICK l \in Lists[k] :
        /\ of' = [of EXCEPT ![g] = k]
        /\ list' = [list EXCEPT ![g] = l]
        /\ pc' = [pc EXCEPT ![g] = IF Len(l) <= 1 THEN "returned" ELSE "get"]
  BY DEF Asked
<1>2. /\ pc[g] \in {"idle", "returned"}
      /\ next' = [next EXCEPT ![g] = 1]
      /\ answer' = [answer EXCEPT ![g] = "true"]
      /\ UNCHANGED <<pool, kind, keys, exist>>
  BY DEF Call
<1>3. l \in Seq(Values)
  BY UniqueAssumption
<1>4. PoolClean'
  BY <1>2 DEF IInv, PoolClean
<1>5. ASSUME NEW h \in Goroutines, h # g PROVE Fits(h)'
  <2>1. Fits(h)
    BY DEF IInv
  <2> QED
    BY <1>1, <1>2, <1>5, <2>1, FitsFrame DEF IInv, TypeOK
<1>6. Fits(g)'
  <2>1. /\ pc'[g] = IF Len(l) <= 1 THEN "returned" ELSE "get"
        /\ list'[g] = l /\ of'[g] = k /\ next'[g] = 1 /\ answer'[g] = "true"
        /\ exist'[g] = NoMap
    BY <1>1, <1>2 DEF IInv, TypeOK, Fits, Holding
  <2>2. CASE Len(l) <= 1
    <3>1. Verdict(l, k, "true")
      BY <1>3, <2>2 DEF Verdict, DistinctTo
    <3> QED
      BY <2>1, <2>2, <3>1 DEF Fits, Holding
  <2>3. CASE ~(Len(l) <= 1)
    BY <1>3, <2>1, <2>3 DEF Fits, Holding
  <2> QED
    BY <2>2, <2>3
<1> QED
  BY <1>4, <1>5, <1>6

LEMMA GetStep ==
    ASSUME IInv, NEW g \in Goroutines, Get(g)
    PROVE  PoolClean' /\ \A h \in Goroutines : Fits(h)'
<1>1. PICK m \in Maps : Given(g, m)
  BY DEF Get, Given
<1>2. pc[g] = "get" /\ pc' = [pc EXCEPT ![g] = "loop"] /\ UNCHANGED <<list, of, next, answer>>
  BY DEF Get
<1>3. of[g] \in Kinds
  BY DEF IInv, TypeOK
<1>4. /\ \A h \in Goroutines : exist[h] # m
      /\ keys'[m] = {} /\ kind'[m] = of[g]
      /\ \A n \in Maps : n # m => keys'[n] = keys[n] /\ kind'[n] = kind[n]
      /\ \A k \in Kinds : pool'[k] \subseteq pool[k] /\ m \notin pool'[k]
  <2>1. CASE m \in pool[of[g]]
    <3>1. \A k \in Kinds : k # of[g] => m \notin pool[k]
      BY <1>3, <2>1 DEF IInv, PoolClean
    <3>2. keys[m] = {} /\ kind[m] = of[g] /\ \A h \in Goroutines : exist[h] # m
      BY <1>3, <2>1 DEF IInv, PoolClean
    <3>3. /\ pool' = [pool EXCEPT ![of[g]] = pool[of[g]] \ {m}]
          /\ UNCHANGED <<kind, keys>>
      BY <1>1, <2>1 DEF Given
    <3>4. \A k \in Kinds : pool'[k] \subseteq pool[k] /\ m \notin pool'[k]
      BY <1>3, <3>1, <3>3 DEF IInv, TypeOK
    <3> QED
      BY <3>2, <3>3, <3>4
  <2>2. CASE m \notin pool[of[g]]
    BY <1>1, <1>3, <2>2 DEF IInv, TypeOK, Given
  <2> QED
    BY <2>1, <2>2
<1>5. exist'[g] = m /\ \A h \in Goroutines : h # g => exist'[h] = exist[h]
  BY <1>1 DEF IInv, TypeOK, Given
<1>6. PoolClean'
  <2>1. ASSUME NEW k \in Kinds, NEW n \in pool'[k]
        PROVE  keys'[n] = {} /\ kind'[n] = k /\ \A h \in Goroutines : exist'[h] # n
    <3>1. n \in pool[k] /\ n # m /\ n \in Maps
      BY <1>4 DEF IInv, TypeOK
    <3> QED
      BY <1>4, <1>5, <3>1 DEF IInv, PoolClean
  <2>2. ASSUME NEW h \in Goroutines, NEW i \in Goroutines,
               exist'[h] = exist'[i], exist'[h] # NoMap
        PROVE  h = i
    BY <1>4, <1>5, <2>2 DEF IInv, PoolClean
  <2> QED
    BY <2>1, <2>2 DEF PoolClean
<1>7. ASSUME NEW h \in Goroutines, h # g PROVE Fits(h)'
  <2>1. Fits(h)
    BY DEF IInv
  <2>2. pc[h] \in Holding => exist[h] \in Maps /\ exist[h] # m
    BY <1>4, <2>1 DEF IInv, TypeOK, Fits
  <2> QED
    BY <1>2, <1>4, <1>5, <1>7, <2>1, <2>2, FitsFrame DEF IInv, TypeOK
<1>8. Fits(g)'
  <2>3. m # NoMap
    BY UniqueAssumption DEF NoMap
  <2>1. /\ pc'[g] = "loop" /\ next'[g] = 1
        /\ list'[g] = list[g] /\ of'[g] = of[g] /\ keys'[exist'[g]] = {}
        /\ kind'[exist'[g]] = of'[g] /\ exist'[g] # NoMap
    BY <1>2, <1>4, <1>5, <2>3 DEF IInv, TypeOK, Fits
  <2>2. Len(list[g]) > 1
    BY <1>2 DEF IInv, Fits
  <2>4. Seen(list[g], 1) = {} /\ DistinctTo(list[g], 1) /\ BytesTo(g, 1)'
    BY DEF Seen, DistinctTo, BytesTo
  <2>5. Len(list[g]) \in Nat
    BY DEF IInv, TypeOK
  <2> QED
    BY <2>1, <2>2, <2>4, <2>5 DEF Fits, Holding, BytesTo
<1> QED
  BY <1>6, <1>7, <1>8

(* Leaving the loop changes the verdict and the place, and nothing else.   *)
LEMMA LeaveStep ==
    ASSUME IInv, NEW g \in Goroutines, NEW a \in {"true", "false", "error"},
           pc[g] = "loop", Leave(g, a), Verdict(list[g], of[g], a)
    PROVE  PoolClean' /\ \A h \in Goroutines : Fits(h)'
<1>1. /\ answer' = [answer EXCEPT ![g] = a]
      /\ pc' = [pc EXCEPT ![g] = "clear"]
      /\ UNCHANGED <<pool, kind, keys, list, of, exist, next>>
  BY DEF Leave
<1>2. PoolClean'
  BY <1>1 DEF IInv, PoolClean
<1>3. ASSUME NEW h \in Goroutines, h # g PROVE Fits(h)'
  BY <1>1, <1>3, FitsFrame DEF IInv, TypeOK
<1>4. Fits(g)'
  BY <1>1 DEF IInv, TypeOK, Fits, Holding
<1> QED
  BY <1>2, <1>3, <1>4

LEMMA LoopEndStep ==
    ASSUME IInv, NEW g \in Goroutines, LoopEnd(g)
    PROVE  PoolClean' /\ \A h \in Goroutines : Fits(h)'
<1>1. next[g] = Len(list[g]) + 1
  BY DEF IInv, TypeOK, Fits, LoopEnd
<1>2. Verdict(list[g], of[g], "true")
  BY <1>1 DEF IInv, Fits, LoopEnd, Verdict, BytesTo
<1> QED
  BY <1>2, LeaveStep DEF LoopEnd

LEMMA NotBytesStep ==
    ASSUME IInv, NEW g \in Goroutines, NotBytes(g)
    PROVE  PoolClean' /\ \A h \in Goroutines : Fits(h)'
<1>1. next[g] \in 1 .. Len(list[g]) /\ Len(list[g]) \in Nat
  BY DEF IInv, TypeOK, NotBytes
<1>2. DistinctTo(list[g], next[g]) /\ BytesTo(g, next[g])
  BY DEF IInv, Fits, NotBytes
<1>3. of[g] = "bytes" /\ list[g][next[g]] = Strange
  BY DEF NotBytes
<1>4. \E i \in 1 .. (Len(list[g]) + 1) - 1 :
        /\ DistinctTo(list[g], i)
        /\ of[g] = "bytes" => \A j \in 1 .. i - 1 : list[g][j] # Strange
        /\ ~(of[g] = "bytes" => \A j \in 1 .. (i + 1) - 1 : list[g][j] # Strange)
  <2>1. next[g] \in 1 .. (Len(list[g]) + 1) - 1 /\ next[g] \in 1 .. (next[g] + 1) - 1
    BY <1>1
  <2> QED
    BY <1>2, <1>3, <2>1 DEF BytesTo
<1>5. Verdict(list[g], of[g], "error")
  BY <1>4 DEF Verdict
<1> QED
  BY <1>5, LeaveStep DEF NotBytes

LEMMA DuplicateStep ==
    ASSUME IInv, NEW g \in Goroutines, Duplicate(g)
    PROVE  PoolClean' /\ \A h \in Goroutines : Fits(h)'
<1>1. /\ list[g] \in Seq(Values) /\ Len(list[g]) \in Nat
      /\ next[g] \in 1 .. Len(list[g])
  BY DEF IInv, TypeOK, Duplicate
<1>2. /\ DistinctTo(list[g], next[g]) /\ BytesTo(g, next[g])
      /\ keys[exist[g]] = Seen(list[g], next[g])
  BY DEF IInv, Fits, Duplicate
<1>3. ~DistinctTo(list[g], next[g] + 1)
  BY <1>1, <1>2, KeysDiffer DEF Duplicate
<1>4. of[g] = "bytes" => \A j \in 1 .. (next[g] + 1) - 1 : list[g][j] # Strange
  <2> SUFFICES ASSUME of[g] = "bytes", NEW j \in 1 .. (next[g] + 1) - 1
               PROVE  list[g][j] # Strange
    OBVIOUS
  <2>1. CASE j = next[g]
    BY <2>1 DEF Duplicate
  <2>2. CASE j # next[g]
    <3>1. j \in 1 .. next[g] - 1
      BY <1>1, <2>2
    <3> QED
      BY <1>2, <3>1 DEF BytesTo
  <2> QED
    BY <2>1, <2>2
<1>5. next[g] \in 1 .. (Len(list[g]) + 1) - 1
  BY <1>1
<1>6. Verdict(list[g], of[g], "false")
  BY <1>2, <1>3, <1>4, <1>5 DEF Verdict
<1> QED
  BY <1>6, LeaveStep DEF Duplicate

LEMMA RememberStep ==
    ASSUME IInv, NEW g \in Goroutines, Remember(g)
    PROVE  PoolClean' /\ \A h \in Goroutines : Fits(h)'
<1> DEFINE key == Key(list[g][next[g]], next[g])
<1>1. /\ list[g] \in Seq(Values) /\ Len(list[g]) \in Nat
      /\ next[g] \in 1 .. Len(list[g])
  BY DEF IInv, TypeOK, Remember
<1>2. /\ DistinctTo(list[g], next[g]) /\ BytesTo(g, next[g])
      /\ keys[exist[g]] = Seen(list[g], next[g])
      /\ exist[g] \in Maps /\ exist[g] # NoMap
      /\ kind[exist[g]] = of[g] /\ Len(list[g]) > 1
  BY DEF IInv, TypeOK, Fits, Remember, Holding
<1>3. /\ keys' = [keys EXCEPT ![exist[g]] = keys[exist[g]] \cup {key}]
      /\ next' = [next EXCEPT ![g] = next[g] + 1]
      /\ UNCHANGED <<pool, kind, pc, list, of, exist, answer>>
      /\ pc[g] = "loop" /\ key \notin keys[exist[g]]
  BY DEF Remember
<1>4. \A n \in Maps : n # exist[g] => keys'[n] = keys[n]
  BY <1>3 DEF IInv, TypeOK
<1>5. PoolClean'
  BY <1>2, <1>3, <1>4 DEF IInv, TypeOK, PoolClean
<1>6. ASSUME NEW h \in Goroutines, h # g PROVE Fits(h)'
  <2>1. Fits(h)
    BY DEF IInv
  <2>2. pc[h] \in Holding => exist[h] \in Maps /\ exist[h] # exist[g]
    BY <1>2, <1>6, <2>1 DEF IInv, TypeOK, PoolClean, Fits
  <2> QED
    BY <1>3, <1>4, <1>6, <2>1, <2>2, FitsFrame DEF IInv, TypeOK
<1>7. Fits(g)'
  <2>1. keys'[exist[g]] = Seen(list[g], next[g] + 1)
    <3>1. keys'[exist[g]] = Seen(list[g], next[g]) \cup {key}
      BY <1>2, <1>3 DEF IInv, TypeOK
    <3>2. 1 .. (next[g] + 1) - 1 = 1 .. next[g] - 1 \cup {next[g]}
      BY <1>1
    <3>3. Seen(list[g], next[g] + 1) = Seen(list[g], next[g]) \cup {key}
      BY <3>2 DEF Seen
    <3> QED
      BY <3>1, <3>3
  <2>2. DistinctTo(list[g], next[g] + 1)
    BY <1>1, <1>2, <1>3, KeysDiffer
  <2>3. BytesTo(g, next[g] + 1)
    <3> SUFFICES ASSUME of[g] = "bytes", NEW j \in 1 .. (next[g] + 1) - 1
                 PROVE  list[g][j] # Strange
      BY DEF BytesTo
    <3>1. CASE j = next[g]
      BY <3>1 DEF Remember
    <3>2. CASE j # next[g]
      <4>1. j \in 1 .. next[g] - 1
        BY <1>1, <3>2
      <4> QED
        BY <1>2, <4>1 DEF BytesTo
    <3> QED
      BY <3>1, <3>2
  <2>4. /\ next'[g] = next[g] + 1 /\ next[g] + 1 <= Len(list[g]) + 1
        /\ pc'[g] = "loop" /\ list'[g] = list[g] /\ of'[g] = of[g]
        /\ exist'[g] = exist[g] /\ kind'[exist'[g]] = of'[g]
    BY <1>1, <1>2, <1>3 DEF IInv, TypeOK
  <2> QED
    BY <1>2, <2>1, <2>2, <2>3, <2>4 DEF Fits, Holding, BytesTo
<1> QED
  BY <1>5, <1>6, <1>7

LEMMA ClearStep ==
    ASSUME IInv, NEW g \in Goroutines, Clear(g)
    PROVE  PoolClean' /\ \A h \in Goroutines : Fits(h)'
<1>1. /\ keys' = [keys EXCEPT ![exist[g]] = {}]
      /\ pc' = [pc EXCEPT ![g] = "put"] /\ pc[g] = "clear"
      /\ UNCHANGED <<pool, kind, list, of, exist, next, answer>>
  BY DEF Clear
<1>2. exist[g] \in Maps /\ exist[g] # NoMap
  BY <1>1 DEF IInv, TypeOK, Fits, Holding
<1>3. keys'[exist[g]] = {} /\ \A n \in Maps : n # exist[g] => keys'[n] = keys[n]
  BY <1>1, <1>2 DEF IInv, TypeOK
<1>4. PoolClean'
  BY <1>1, <1>2, <1>3 DEF IInv, TypeOK, PoolClean
<1>5. ASSUME NEW h \in Goroutines, h # g PROVE Fits(h)'
  <2>1. Fits(h)
    BY DEF IInv
  <2>2. pc[h] \in Holding => exist[h] \in Maps /\ exist[h] # exist[g]
    BY <1>2, <1>5, <2>1 DEF IInv, TypeOK, PoolClean, Fits
  <2> QED
    BY <1>1, <1>3, <1>5, <2>1, <2>2, FitsFrame DEF IInv, TypeOK
<1>6. Fits(g)'
  BY <1>1, <1>2, <1>3 DEF IInv, TypeOK, Fits, Holding
<1> QED
  BY <1>4, <1>5, <1>6

LEMMA PutStep ==
    ASSUME IInv, NEW g \in Goroutines, Put(g)
    PROVE  PoolClean' /\ \A h \in Goroutines : Fits(h)'
<1>1. /\ pool' = [pool EXCEPT ![of[g]] = pool[of[g]] \cup {exist[g]}]
      /\ exist' = [exist EXCEPT ![g] = NoMap]
      /\ pc' = [pc EXCEPT ![g] = "returned"] /\ pc[g] = "put"
      /\ UNCHANGED <<kind, keys, list, of, next, answer>>
  BY DEF Put
<1>2. /\ exist[g] \in Maps /\ exist[g] # NoMap /\ of[g] \in Kinds
      /\ keys[exist[g]] = {} /\ kind[exist[g]] = of[g]
  BY <1>1 DEF IInv, TypeOK, Fits, Holding
<1>3. exist'[g] = NoMap /\ \A h \in Goroutines : h # g => exist'[h] = exist[h]
  BY <1>1 DEF IInv, TypeOK
<1>4. PoolClean'
  <2>1. ASSUME NEW k \in Kinds, NEW n \in pool'[k]
        PROVE  keys'[n] = {} /\ kind'[n] = k /\ \A h \in Goroutines : exist'[h] # n
    <3>1. CASE n \in pool[k]
      <4>1. n \in Maps /\ n # NoMap
        BY <3>1, UniqueAssumption DEF IInv, TypeOK, NoMap
      <4> QED
        BY <1>1, <1>3, <3>1, <4>1 DEF IInv, PoolClean
    <3>2. CASE n \notin pool[k]
      <4>1. k = of[g] /\ n = exist[g]
        BY <1>1, <1>2, <3>2 DEF IInv, TypeOK
      <4>2. \A h \in Goroutines : h # g => exist[h] # exist[g]
        BY <1>2 DEF IInv, PoolClean
      <4> QED
        BY <1>1, <1>2, <1>3, <4>1, <4>2
    <3> QED
      BY <3>1, <3>2
  <2>2. ASSUME NEW h \in Goroutines, NEW i \in Goroutines,
               exist'[h] = exist'[i], exist'[h] # NoMap
        PROVE  h = i
    BY <1>3, <2>2 DEF IInv, PoolClean
  <2> QED
    BY <2>1, <2>2 DEF PoolClean
<1>5. ASSUME NEW h \in Goroutines, h # g PROVE Fits(h)'
  BY <1>1, <1>3, <1>5, FitsFrame DEF IInv, TypeOK
<1>6. Fits(g)'
  BY <1>1, <1>3 DEF IInv, TypeOK, Fits, Holding
<1> QED
  BY <1>4, <1>5, <1>6

-----------------------------------------------------------------------------
LEMMA StepInv == IInv /\ [Next]_vars => IInv'
<1> SUFFICES ASSUME IInv, [Next]_vars PROVE IInv'
  OBVIOUS
<1>1. CASE \E g \in Goroutines : GAction(g)
  <2>1. PICK g \in Goroutines : GAction(g)
    BY <1>1
  <2>2. TypeOK'
    BY <2>1, TypeStep
  <2>3. PoolClean' /\ \A h \in Goroutines : Fits(h)'
    BY <2>1, CallStep, GetStep, LoopEndStep, NotBytesStep, DuplicateStep,
       RememberStep, ClearStep, PutStep DEF GAction
  <2> QED
    BY <2>2, <2>3 DEF IInv
<1>2. CASE \E k \in Kinds : Collect(k)
  <2>1. PICK k \in Kinds, m \in Maps : pool' = [pool EXCEPT ![k] = pool[k] \ {m}]
    BY <1>2 DEF Collect, IInv, TypeOK
  <2>2. UNCHANGED <<kind, keys, pc, list, of, exist, next, answer>>
    BY <1>2 DEF Collect
  <2>3. TypeOK'
    BY <2>1, <2>2 DEF IInv, TypeOK
  <2>4. \A l \in Kinds : pool'[l] \subseteq pool[l]
    BY <2>1 DEF IInv, TypeOK
  <2>5. PoolClean'
    BY <2>2, <2>4 DEF IInv, PoolClean
  <2>6. \A h \in Goroutines : Fits(h)'
    BY <2>2, FitsFrame DEF IInv
  <2> QED
    BY <2>3, <2>5, <2>6 DEF IInv
<1>3. CASE UNCHANGED vars
  BY <1>3, FitsFrame DEF vars, IInv, TypeOK, PoolClean
<1> QED
  BY <1>1, <1>2, <1>3 DEF Next, GAction

LEMMA Invariance == Spec => []IInv
  BY InitInv, StepInv, PTL DEF Spec

(* Maps in a pool are empty, of its kind and used by nobody, whatever list *)
(* the last user gave up in the middle of (cel/library.go:420-424).        *)
THEOREM PoolIsClean == Spec => []PoolClean
<1>1. IInv => PoolClean
  BY DEF IInv
<1> QED
  BY <1>1, Invariance, PTL

(* unique answers for its own list (cel/library.go:412-465).               *)
THEOREM VerdictsExact == Spec => []VerdictExact
<1>1. IInv => VerdictExact
  <2> SUFFICES ASSUME IInv, NEW g \in Goroutines, pc[g] = "returned"
               PROVE  LET n == Len(list[g]) + 1
                      IN  CASE answer[g] = "true" ->
                                   DistinctTo(list[g], n) /\ (n > 2 => BytesTo(g, n))
                            [] answer[g] = "error" ->
                                   \E i \in 1 .. n - 1 :
                                       /\ DistinctTo(list[g], i) /\ BytesTo(g, i)
                                       /\ ~BytesTo(g, i + 1)
                            [] OTHER ->
                                   \E i \in 1 .. n - 1 :
                                       /\ DistinctTo(list[g], i) /\ BytesTo(g, i + 1)
                                       /\ ~DistinctTo(list[g], i + 1)
    BY DEF VerdictExact
  <2>1. Verdict(list[g], of[g], answer[g])
    BY DEF IInv, Fits
  <2>2. answer[g] \in {"true", "false", "error"}
    BY DEF IInv, TypeOK
  <2> QED
    BY <2>1, <2>2 DEF Verdict, BytesTo
<1> QED
  BY <1>1, Invariance, PTL
==============================================================================
