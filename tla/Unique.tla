-------------------------------- MODULE Unique ---------------------------------
(***************************************************************************)
(* The function unique of the CEL library (cel/library.go).  The maps it   *)
(* remembers the members of a list in come from pools that belong to the   *)
(* library, which all goroutines of a validator share; there is one for    *)
(* bytes and one for the other types.                                      *)
(***************************************************************************)
EXTENDS Integers, Sequences

CONSTANTS
    Goroutines,
    Values,     \* what lists of either kind are made of
    NaN,        \* equal to nothing, itself included
    Strange,    \* in a list of bytes, what is not bytes
    Lists,      \* the lists a program may be given
    Maps        \* the maps the pools may make

Kinds == {"scalar", "bytes"}

ASSUME UniqueAssumption ==
    /\ Lists \in [Kinds -> SUBSET Seq(Values)]
    /\ "none" \notin Maps

VARIABLES
    pool,   \* the maps in each pool
    kind,   \* of each map
    keys,   \* of each map: a value and which of several that are not equal
    pc,
    list,   \* what each goroutine was asked about
    of,     \* and the kind of the list
    exist,  \* its map
    next,   \* the index of its loop
    answer

vars == <<pool, kind, keys, pc, list, of, exist, next, answer>>

NoMap == "none"

(* The key that a map finds v under; NaN is under a key of its own.        *)
Key(v, i) == <<v, IF v = NaN THEN i ELSE 0>>

Busy == {"get", "loop", "clear", "put"}
Holding == {"loop", "clear", "put"}

Init ==
    /\ pool = [k \in Kinds |-> {}]
    /\ kind = [m \in Maps |-> "scalar"]
    /\ keys = [m \in Maps |-> {}]
    /\ pc = [g \in Goroutines |-> "idle"]
    /\ list = [g \in Goroutines |-> << >>]
    /\ of = [g \in Goroutines |-> "scalar"]
    /\ exist = [g \in Goroutines |-> NoMap]
    /\ next = [g \in Goroutines |-> 1]
    /\ answer = [g \in Goroutines |-> "true"]

(* Lists of one member or none need no map.                                *)
Call(g) ==
    /\ pc[g] \in {"idle", "returned"}
    /\ \E k \in Kinds : \E l \in Lists[k] :
          /\ of' = [of EXCEPT ![g] = k]
          /\ list' = [list EXCEPT ![g] = l]
          /\ pc' = [pc EXCEPT ![g] = IF Len(l) <= 1 THEN "returned" ELSE "get"]
    /\ next' = [next EXCEPT ![g] = 1]
    /\ answer' = [answer EXCEPT ![g] = "true"]
    /\ UNCHANGED <<pool, kind, keys, exist>>

(* The pool gives one of its maps, or makes one whatever it has.           *)
Get(g) ==
    /\ pc[g] = "get"
    /\ \E m \in Maps :
          /\ exist' = [exist EXCEPT ![g] = m]
          /\ IF m \in pool[of[g]]
             THEN /\ pool' = [pool EXCEPT ![of[g]] = pool[of[g]] \ {m}]
                  /\ UNCHANGED <<kind, keys>>
             ELSE /\ \A k \in Kinds : m \notin pool[k]
                  /\ \A h \in Goroutines : exist[h] # m
                  /\ kind' = [kind EXCEPT ![m] = of[g]]
                  /\ keys' = [keys EXCEPT ![m] = {}]
                  /\ UNCHANGED pool
    /\ pc' = [pc EXCEPT ![g] = "loop"]
    /\ UNCHANGED <<list, of, next, answer>>

(* The loop ends with the verdict true, at the first member that is not    *)
(* bytes where bytes are expected, or at the first that is there already.  *)
Leave(g, verdict) ==
    /\ answer' = [answer EXCEPT ![g] = verdict]
    /\ pc' = [pc EXCEPT ![g] = "clear"]
    /\ UNCHANGED <<pool, kind, keys, list, of, exist, next>>

LoopEnd(g) ==
    /\ pc[g] = "loop" /\ next[g] > Len(list[g])
    /\ Leave(g, "true")

NotBytes(g) ==
    /\ pc[g] = "loop" /\ next[g] <= Len(list[g])
    /\ of[g] = "bytes" /\ list[g][next[g]] = Strange
    /\ Leave(g, "error")

(* A return in the loop that does not go through the deferred function.    *)
DuplicateMutant(g) ==
    /\ pc[g] = "loop" /\ next[g] <= Len(list[g])
    /\ of[g] = "bytes" => list[g][next[g]] # Strange
    /\ Key(list[g][next[g]], next[g]) \in keys[exist[g]]
    /\ answer' = [answer EXCEPT ![g] = "false"]
    /\ pc' = [pc EXCEPT ![g] = "put"]
    /\ UNCHANGED <<pool, kind, keys, list, of, exist, next>>

Duplicate(g) ==
    /\ pc[g] = "loop" /\ next[g] <= Len(list[g])
    /\ of[g] = "bytes" => list[g][next[g]] # Strange
    /\ Key(list[g][next[g]], next[g]) \in keys[exist[g]]
    /\ Leave(g, "false")

Remember(g) ==
    /\ pc[g] = "loop" /\ next[g] <= Len(list[g])
    /\ of[g] = "bytes" => list[g][next[g]] # Strange
    /\ Key(list[g][next[g]], next[g]) \notin keys[exist[g]]
    /\ keys' = [keys EXCEPT ![exist[g]] =
                    keys[exist[g]] \cup {Key(list[g][next[g]], next[g])}]
    /\ next' = [next EXCEPT ![g] = next[g] + 1]
    /\ UNCHANGED <<pool, kind, pc, list, of, exist, answer>>

(* The keys are deleted one by one: those of NaN are not found.            *)
ClearMutant(g) ==
    /\ pc[g] = "clear"
    /\ keys' = [keys EXCEPT ![exist[g]] = {e \in keys[exist[g]] : e[1] = NaN}]
    /\ pc' = [pc EXCEPT ![g] = "put"]
    /\ UNCHANGED <<pool, kind, list, of, exist, next, answer>>

(* The deferred function empties the map, however the loop was left.       *)
Clear(g) ==
    /\ pc[g] = "clear"
    /\ keys' = [keys EXCEPT ![exist[g]] = {}]
    /\ pc' = [pc EXCEPT ![g] = "put"]
    /\ UNCHANGED <<pool, kind, list, of, exist, next, answer>>

Put(g) ==
    /\ pc[g] = "put"
    /\ pool' = [pool EXCEPT ![of[g]] = pool[of[g]] \cup {exist[g]}]
    /\ exist' = [exist EXCEPT ![g] = NoMap]
    /\ pc' = [pc EXCEPT ![g] = "returned"]
    /\ UNCHANGED <<kind, keys, list, of, next, answer>>

(* The garbage collector may take what is in a sync.Pool.                  *)
Collect(k) ==
    /\ \E m \in pool[k] : pool' = [pool EXCEPT ![k] = pool[k] \ {m}]
    /\ UNCHANGED <<kind, keys, pc, list, of, exist, next, answer>>

Next ==
    \/ \E g \in Goroutines :
          \/ Call(g) \/ Get(g) \/ LoopEnd(g) \/ NotBytes(g) \/ Duplicate(g)
          \/ Remember(g) \/ Clear(g) \/ Put(g)
    \/ \E k \in Kinds : Collect(k)

Spec == Init /\ [][Next]_vars

-----------------------------------------------------------------------------
(* Properties.                                                             *)

(* Every variable has its type.                                            *)
TypeOK ==
    /\ pool \in [Kinds -> SUBSET Maps]
    /\ kind \in [Maps -> Kinds]
    /\ keys \in [Maps -> SUBSET (Values \X Nat)]
    /\ pc \in [Goroutines -> {"idle", "returned"} \cup Busy]
    /\ list \in [Goroutines -> Seq(Values)]
    /\ of \in [Goroutines -> Kinds]
    /\ exist \in [Goroutines -> Maps \cup {NoMap}]
    /\ next \in [Goroutines -> Nat \ {0}]
    /\ answer \in [Goroutines -> {"true", "false", "error"}]

(* Maps in a pool are empty and of its kind, and nobody uses them; nor do  *)
(* two goroutines use one (cel/library.go:420-424, 447-451).               *)
PoolClean ==
    /\ \A k \in Kinds : \A m \in pool[k] :
          /\ keys[m] = {} /\ kind[m] = k
          /\ \A g \in Goroutines : exist[g] # m
    /\ \A g, h \in Goroutines :
          (exist[g] = exist[h] /\ exist[g] # NoMap) => g = h

(* The members before the i-th are all different.                          *)
DistinctTo(l, i) ==
    \A j, k \in 1 .. i - 1 : (j < k /\ l[j] = l[k]) => l[j] = NaN
BytesTo(g, i) == of[g] = "bytes" => \A j \in 1 .. i - 1 : list[g][j] # Strange

(* unique says what its list says, whatever other lists are looked at with *)
(* the same map before and by others meanwhile (cel/library.go:412-465).   *)
VerdictExact ==
    \A g \in Goroutines : pc[g] = "returned" =>
        LET n == Len(list[g]) + 1
        IN  CASE answer[g] = "true" ->
                     DistinctTo(list[g], n) /\ (n > 2 => BytesTo(g, n))
              [] answer[g] = "error" ->
                     \E i \in 1 .. n - 1 :
                         /\ DistinctTo(list[g], i) /\ BytesTo(g, i)
                         /\ ~BytesTo(g, i + 1)
              [] OTHER ->
                     \E i \in 1 .. n - 1 :
                         /\ DistinctTo(list[g], i) /\ BytesTo(g, i + 1)
                         /\ ~DistinctTo(list[g], i + 1)

==============================================================================
