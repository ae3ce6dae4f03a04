---------------------------- MODULE Evaluation_proofs -------------------------
(***************************************************************************)
(* What Validate returns, for every tree of evaluators, filter and order   *)
(* of a map's entries: the faults that the rules and the message call for. *)
(***************************************************************************)
EXTENDS Evaluation, FiniteSetTheorems, SequenceTheorems, TLAPS

LEMMA LeastOf ==
    ASSUME NEW T \in SUBSET Nat, T # {}
    PROVE  \E k \in T : \A j \in T : k <= j
<1>1. PICK k \in T : \A j \in T : ~(<<j, k>> \in OpToRel(<, Nat))
  BY WFMin, NatLessThanWellFounded
<1>2. \A j \in T : ~(j < k)
  BY <1>1 DEF OpToRel
<1> QED  BY <1>2

-----------------------------------------------------------------------------
(* Trees.                                                                  *)

IsTree == tree \in Tree

LEMMA TreeFacts ==
    ASSUME IsTree
    PROVE  /\ tree \in Seq(Node) /\ 1 \in DOMAIN tree /\ DOMAIN tree = 1 .. Len(tree)
           /\ Len(tree) \in Nat
           /\ tree[1].kind \in Roots /\ tree[1].element = << >> /\ ~tree[1].forKey
           /\ \A n \in DOMAIN tree :
                 /\ n \in Nat /\ tree[n] \in Node
                 /\ \A c \in Callees(tree[n]) : c \in DOMAIN tree /\ c > n
                 /\ IsInjective(tree[n].calls \o tree[n].nested)
                 /\ tree[n].kind \in Leaves => Callees(tree[n]) = {}
                 /\ tree[n].always => tree[n].kind = "field"
                 /\ Len(tree[n].element) <= 1
<1>1. /\ tree \in Seq(Node) /\ tree # << >>
      /\ tree[1].kind \in Roots /\ tree[1].element = << >> /\ ~tree[1].forKey
      /\ \A n \in DOMAIN tree :
            /\ Callees(tree[n]) \subseteq (n + 1) .. Len(tree)
            /\ IsInjective(tree[n].calls \o tree[n].nested)
            /\ tree[n].kind \in Leaves => Callees(tree[n]) = {}
            /\ tree[n].always => tree[n].kind = "field"
            /\ Len(tree[n].element) <= 1
  BY DEF IsTree, Tree
<1>2. DOMAIN tree = 1 .. Len(tree) /\ Len(tree) \in Nat /\ 1 \in DOMAIN tree
  BY <1>1
<1>3. \A n \in DOMAIN tree : n \in Nat /\ tree[n] \in Node
  BY <1>1, <1>2
<1>4. ASSUME NEW n \in DOMAIN tree, NEW c \in Callees(tree[n])
      PROVE  c \in DOMAIN tree /\ c > n
  <2>1. c \in (n + 1) .. Len(tree)
    BY <1>1
  <2> QED  BY <1>2, <1>3, <2>1
<1> QED  BY <1>1, <1>2, <1>3, <1>4

(* Every node but the root has one caller, which comes before it.          *)
LEMMA CallerIs ==
    ASSUME IsTree, NEW c \in DOMAIN tree \ {1}
    PROVE  /\ Caller(c) \in DOMAIN tree /\ c \in Callees(tree[Caller(c)])
           /\ Caller(c) < c
           /\ \A n \in DOMAIN tree : c \in Callees(tree[n]) => n = Caller(c)
<1>1. PICK n \in DOMAIN tree :
         /\ c \in Callees(tree[n])
         /\ \A m \in DOMAIN tree \ {n} : c \notin Callees(tree[m])
  BY DEF IsTree, Tree
<1>2. Caller(c) \in DOMAIN tree /\ c \in Callees(tree[Caller(c)])
  BY <1>1 DEF Caller
<1> QED  BY <1>1, <1>2, TreeFacts

LEMMA RootUncalled ==
    ASSUME IsTree, NEW n \in DOMAIN tree
    PROVE  1 \notin Callees(tree[n])
  BY TreeFacts

(* A function that says what a node has of its caller exists.              *)
LEMMA Inherited ==
    ASSUME IsTree, NEW S, NEW a \in S, NEW step \in [DOMAIN tree -> [S -> S]]
    PROVE  \E f \in [DOMAIN tree -> S] :
              /\ f[1] = a
              /\ \A n \in DOMAIN tree \ {1} : f[n] = step[n][f[Caller(n)]]
<1> DEFINE Is(g, k) == \A n \in 1 .. k :
                          g[n] = IF n = 1 THEN a ELSE step[n][g[Caller(n)]]
           T == {k \in 1 .. Len(tree) : ~ \E g \in [1 .. k -> S] : Is(g, k)}
<1>1. DOMAIN tree = 1 .. Len(tree) /\ Len(tree) \in Nat /\ 1 \in DOMAIN tree
  BY TreeFacts
<1>2. \A n \in DOMAIN tree \ {1} : Caller(n) \in DOMAIN tree /\ Caller(n) < n
  BY CallerIs
<1>3. T = {}
  <2> SUFFICES ASSUME T # {} PROVE FALSE
    OBVIOUS
  <2>1. T \in SUBSET Nat
    OBVIOUS
  <2>2. PICK k \in T : \A j \in T : k <= j
    BY <2>1, LeastOf
  <2>3. k \in 1 .. Len(tree) /\ k \in Nat
    OBVIOUS
  <2>4. CASE k = 1
    <3> DEFINE g == [n \in 1 .. 1 |-> a]
    <3>1. g \in [1 .. k -> S] /\ Is(g, k)
      BY <2>4
    <3> QED  BY <3>1
  <2>5. CASE k # 1
    <3>1. k - 1 \in 1 .. Len(tree) /\ k - 1 \notin T
      <4>1. k - 1 \in 1 .. Len(tree) /\ ~(k <= k - 1)
        BY <1>1, <2>3, <2>5
      <4> HIDE DEF T
      <4> QED  BY <2>2, <4>1
    <3>2. PICK g \in [1 .. (k - 1) -> S] : Is(g, k - 1)
      BY <3>1
    <3>3. k \in DOMAIN tree \ {1} /\ Caller(k) \in 1 .. (k - 1)
      BY <1>1, <1>2, <2>3, <2>5
    <3>4. step[k] \in [S -> S] /\ step[k][g[Caller(k)]] \in S
      BY <3>2, <3>3
    <3> DEFINE h == [n \in 1 .. k |->
                        IF n < k THEN g[n] ELSE step[k][g[Caller(k)]]]
    <3>5. h \in [1 .. k -> S]
      BY <2>3, <3>2, <3>4
    <3>6. ASSUME NEW n \in 1 .. k
          PROVE  h[n] = IF n = 1 THEN a ELSE step[n][h[Caller(n)]]
      <4>1. CASE n = 1
        BY <2>3, <2>5, <3>2, <4>1
      <4>2. CASE n # 1 /\ n < k
        <5>1. Caller(n) \in 1 .. (k - 1) /\ n \in 1 .. (k - 1)
          BY <1>1, <1>2, <2>3, <4>2
        <5> QED  BY <2>3, <3>2, <4>2, <5>1
      <4>3. CASE n = k
        BY <2>3, <2>5, <3>3, <4>3
      <4> QED  BY <2>3, <4>1, <4>2, <4>3
    <3> HIDE DEF h
    <3>7. Is(h, k)
      BY <3>6
    <3> QED  BY <3>5, <3>7
  <2> QED  BY <2>4, <2>5
<1>4. Len(tree) \notin T /\ Len(tree) \in 1 .. Len(tree)
  BY <1>1, <1>3
<1>5. PICK g \in [1 .. Len(tree) -> S] : Is(g, Len(tree))
  BY <1>4
<1>6. g[1] = a /\ \A n \in DOMAIN tree \ {1} : g[n] = step[n][g[Caller(n)]]
  BY <1>1, <1>5
<1> QED  BY <1>1, <1>5, <1>6

-----------------------------------------------------------------------------
(* The recursive definitions, by what they say of a node and its caller.   *)

Way(n) ==
    LET way[m \in DOMAIN tree] ==
            (IF m = 1 THEN << >> ELSE way[Caller(m)]) \o Adds(m)
    IN  way[n]

LEMMA AddsType ==
    ASSUME IsTree, NEW n \in DOMAIN tree
    PROVE  Adds(n) \in Seq(Elements) /\ Len(Adds(n)) <= 1
<1>1. tree[n].element \in Seq(Elements) /\ Len(tree[n].element) <= 1
  BY TreeFacts DEF Node
<1> QED  BY <1>1 DEF Adds

LEMMA WayIs ==
    ASSUME IsTree
    PROVE  /\ \A n \in DOMAIN tree : Way(n) \in Seq(Elements)
           /\ Way(1) = << >>
           /\ \A n \in DOMAIN tree \ {1} : Way(n) = Way(Caller(n)) \o Adds(n)
           /\ \A n \in DOMAIN tree :
                 WayTo(n) = IF tree[n].kind = "field"
                            THEN Way(n) \o tree[n].element ELSE Way(n)
<1> DEFINE S == Seq(Elements)
           step == [n \in DOMAIN tree |-> [w \in S |-> w \o Adds(n)]]
           Good(f) == f = [m \in DOMAIN tree |->
                              (IF m = 1 THEN << >> ELSE f[Caller(m)]) \o Adds(m)]
           way == CHOOSE f : Good(f)
<1>1. Adds(1) = << >> /\ 1 \in DOMAIN tree
  BY TreeFacts DEF Adds
<1>2. step \in [DOMAIN tree -> [S -> S]] /\ << >> \in S
  BY AddsType
<1>3. PICK f \in [DOMAIN tree -> S] :
         f[1] = << >> /\ \A n \in DOMAIN tree \ {1} : f[n] = step[n][f[Caller(n)]]
  <2>1. PICK s : s = S
    OBVIOUS
  <2>2. PICK g \in [DOMAIN tree -> [s -> s]] : g = step
    BY <1>2, <2>1
  <2>3. PICK b \in s : b = << >>
    BY <1>2, <2>1
  <2>4. \E f \in [DOMAIN tree -> s] :
           f[1] = b /\ \A n \in DOMAIN tree \ {1} : f[n] = g[n][f[Caller(n)]]
    BY Inherited
  <2> HIDE DEF step
  <2> QED  BY <2>1, <2>2, <2>3, <2>4
<1>4. Good(f)
  <2>1. ASSUME NEW m \in DOMAIN tree
        PROVE  f[m] = (IF m = 1 THEN << >> ELSE f[Caller(m)]) \o Adds(m)
    <3>1. CASE m = 1
      BY <1>1, <1>3, <3>1
    <3>2. CASE m # 1
      <4>1. Caller(m) \in DOMAIN tree
        BY <3>2, CallerIs
      <4>2. f[Caller(m)] \in S
        BY <1>3, <4>1
      <4>3. f[m] = step[m][f[Caller(m)]]
        BY <1>3, <3>2
      <4> QED  BY <3>2, <4>2, <4>3
    <3> QED  BY <3>1, <3>2
  <2> QED  BY <1>3, <2>1
<1>5. Good(way)
  <2> HIDE DEF Good
  <2> QED  BY <1>4
<1>6. \A n \in DOMAIN tree : Way(n) = way[n]
  BY DEF Way
<1>7. \A n \in DOMAIN tree :
         way[n] = (IF n = 1 THEN << >> ELSE way[Caller(n)]) \o Adds(n)
  <2> HIDE DEF way
  <2> QED  BY <1>5
<1> HIDE DEF way, step, Good, S
<1>8. Way(1) = << >>
  BY <1>1, <1>6, <1>7
<1>9. ASSUME NEW n \in DOMAIN tree \ {1}
      PROVE  Way(n) = Way(Caller(n)) \o Adds(n)
  BY <1>6, <1>7, CallerIs
<1>10. \A n \in DOMAIN tree : Way(n) \in Seq(Elements)
  <2> DEFINE T == {n \in DOMAIN tree : Way(n) \notin Seq(Elements)}
  <2> SUFFICES ASSUME T # {} PROVE FALSE
    OBVIOUS
  <2>1. T \in SUBSET Nat
    BY TreeFacts
  <2>2. PICK n \in T : \A m \in T : n <= m
    <3> HIDE DEF T
    <3> QED  BY <2>1, LeastOf
  <2>3. n # 1 /\ n \in DOMAIN tree
    <3>1. << >> \in Seq(Elements)
      OBVIOUS
    <3> QED  BY <1>8, <3>1
  <2>4. Caller(n) \in DOMAIN tree /\ Caller(n) < n /\ n \in Nat /\ Caller(n) \in Nat
    BY <2>3, CallerIs, TreeFacts
  <2>5. Way(Caller(n)) \in Seq(Elements)
    BY <2>2, <2>4
  <2>6. Way(n) \in Seq(Elements)
    <3>1. Way(n) = Way(Caller(n)) \o Adds(n) /\ Adds(n) \in Seq(Elements)
      BY <1>9, <2>3, AddsType
    <3> QED  BY <2>5, <3>1
  <2> QED  BY <2>6
<1>11. \A n \in DOMAIN tree :
         WayTo(n) = IF tree[n].kind = "field"
                    THEN Way(n) \o tree[n].element ELSE Way(n)
  BY DEF WayTo, Way
<1> QED  BY <1>8, <1>9, <1>10, <1>11

LEMMA InKeyIs ==
    ASSUME IsTree
    PROVE  /\ \A n \in DOMAIN tree : InKey(n) \in BOOLEAN
           /\ ~InKey(1)
           /\ \A n \in DOMAIN tree \ {1} :
                 InKey(n) <=> tree[n].forKey \/ InKey(Caller(n))
<1> DEFINE step == [n \in DOMAIN tree |-> [b \in BOOLEAN |-> tree[n].forKey \/ b]]
           Good(f) == f = [m \in DOMAIN tree |->
                              tree[m].forKey \/ (m # 1 /\ f[Caller(m)])]
           inKey == CHOOSE f : Good(f)
<1>1. ~tree[1].forKey /\ 1 \in DOMAIN tree
  BY TreeFacts
<1>2. step \in [DOMAIN tree -> [BOOLEAN -> BOOLEAN]] /\ FALSE \in BOOLEAN
  OBVIOUS
<1>3. PICK f \in [DOMAIN tree -> BOOLEAN] :
         f[1] = FALSE /\ \A n \in DOMAIN tree \ {1} : f[n] = step[n][f[Caller(n)]]
  <2>1. PICK s : s = BOOLEAN
    OBVIOUS
  <2>2. PICK g \in [DOMAIN tree -> [s -> s]] : g = step
    BY <1>2, <2>1
  <2>3. PICK b \in s : b = FALSE
    BY <1>2, <2>1
  <2>4. \E f \in [DOMAIN tree -> s] :
           f[1] = b /\ \A n \in DOMAIN tree \ {1} : f[n] = g[n][f[Caller(n)]]
    BY Inherited
  <2> HIDE DEF step
  <2> QED  BY <2>1, <2>2, <2>3, <2>4
<1>4. Good(f)
  <2>1. ASSUME NEW m \in DOMAIN tree
        PROVE  f[m] = (tree[m].forKey \/ (m # 1 /\ f[Caller(m)]))
    <3>1. CASE m = 1
      BY <1>1, <1>3, <3>1
    <3>2. CASE m # 1
      <4>1. Caller(m) \in DOMAIN tree
        BY <3>2, CallerIs
      <4>2. f[Caller(m)] \in BOOLEAN
        BY <1>3, <4>1
      <4>3. f[m] = step[m][f[Caller(m)]]
        BY <1>3, <3>2
      <4> QED  BY <3>2, <4>2, <4>3
    <3> QED  BY <3>1, <3>2
  <2> QED  BY <1>3, <2>1
<1>5. Good(inKey)
  <2> HIDE DEF Good
  <2> QED  BY <1>4
<1>6. \A n : InKey(n) = inKey[n]
  BY DEF InKey
<1>7. \A n \in DOMAIN tree :
         inKey[n] = (tree[n].forKey \/ (n # 1 /\ inKey[Caller(n)]))
  <2> HIDE DEF inKey
  <2> QED  BY <1>5
<1> HIDE DEF inKey
<1> QED  BY <1>1, <1>6, <1>7, CallerIs

LEMMA CoveredIs ==
    ASSUME IsTree
    PROVE  /\ Covered \subseteq DOMAIN tree /\ 1 \in Covered
           /\ \A n \in DOMAIN tree \ {1} :
                 n \in Covered <=>
                    /\ Caller(n) \in Covered /\ ~Closed(Caller(n))
                    /\ ~(/\ Caller(n) \in rejects
                         /\ n \in ToSet(tree[Caller(n)].calls))
<1> DEFINE Passes(n) == /\ ~Closed(Caller(n))
                        /\ ~(/\ Caller(n) \in rejects
                             /\ n \in ToSet(tree[Caller(n)].calls))
           step == [n \in DOMAIN tree |-> [b \in BOOLEAN |-> b /\ Passes(n)]]
           Good(f) == f = [n \in DOMAIN tree |->
                              n = 1 \/ /\ f[Caller(n)]
                                       /\ ~Closed(Caller(n))
                                       /\ ~(/\ Caller(n) \in rejects
                                            /\ n \in ToSet(tree[Caller(n)].calls))]
           covered == CHOOSE f : Good(f)
<1>1. 1 \in DOMAIN tree
  BY TreeFacts
<1>2. step \in [DOMAIN tree -> [BOOLEAN -> BOOLEAN]] /\ TRUE \in BOOLEAN
  OBVIOUS
<1>3. PICK f \in [DOMAIN tree -> BOOLEAN] :
         f[1] = TRUE /\ \A n \in DOMAIN tree \ {1} : f[n] = step[n][f[Caller(n)]]
  <2>1. PICK s : s = BOOLEAN
    OBVIOUS
  <2>2. PICK g \in [DOMAIN tree -> [s -> s]] : g = step
    BY <1>2, <2>1
  <2>3. PICK b \in s : b = TRUE
    BY <1>2, <2>1
  <2>4. \E f \in [DOMAIN tree -> s] :
           f[1] = b /\ \A n \in DOMAIN tree \ {1} : f[n] = g[n][f[Caller(n)]]
    BY Inherited
  <2> HIDE DEF step
  <2> QED  BY <2>1, <2>2, <2>3, <2>4
<1>4. Good(f)
  <2>1. ASSUME NEW m \in DOMAIN tree
        PROVE  f[m] = (m = 1 \/ (f[Caller(m)] /\ Passes(m)))
    <3> HIDE DEF Passes
    <3>1. CASE m = 1
      BY <1>1, <1>3, <3>1
    <3>2. CASE m # 1
      <4>1. Caller(m) \in DOMAIN tree
        BY <3>2, CallerIs
      <4>2. f[Caller(m)] \in BOOLEAN
        BY <1>3, <4>1
      <4>3. f[m] = step[m][f[Caller(m)]]
        BY <1>3, <3>2
      <4> QED  BY <3>2, <4>2, <4>3
    <3> QED  BY <3>1, <3>2
  <2> QED  BY <1>3, <2>1
<1>5. Good(covered)
  <2> HIDE DEF Good
  <2> QED  BY <1>4
<1>6. Covered = {n \in DOMAIN tree : covered[n]}
  BY DEF Covered
<1>7. \A n \in DOMAIN tree :
         covered[n] = (n = 1 \/ (covered[Caller(n)] /\ Passes(n)))
  <2> HIDE DEF covered
  <2> QED  BY <1>5
<1> HIDE DEF covered
<1>8. \A n \in DOMAIN tree \ {1} : Caller(n) \in DOMAIN tree
  BY CallerIs
<1> QED  BY <1>1, <1>6, <1>7, <1>8

-----------------------------------------------------------------------------
(* What is called on behalf of a node: the nodes of every set that has it  *)
(* and the callees of its members.                                         *)

ClosedUnder(s) == \A n \in s : Callees(tree[n]) \subseteq s

Below(n) ==
    {m \in DOMAIN tree :
        \A s \in SUBSET DOMAIN tree : (n \in s /\ ClosedUnder(s)) => m \in s}

Under(ns) == UNION {Below(n) : n \in ns}

LEMMA BelowHas ==
    ASSUME IsTree, NEW n \in DOMAIN tree
    PROVE  /\ n \in Below(n) /\ Below(n) \subseteq DOMAIN tree
           /\ \A m \in Below(n) : Callees(tree[m]) \subseteq Below(n)
<1>1. n \in Below(n) /\ Below(n) \subseteq DOMAIN tree
  BY DEF Below
<1>2. ASSUME NEW m \in Below(n), NEW c \in Callees(tree[m])
      PROVE  c \in Below(n)
  <2>1. c \in DOMAIN tree
    BY <1>1, TreeFacts
  <2>2. ASSUME NEW s \in SUBSET DOMAIN tree, n \in s, ClosedUnder(s)
        PROVE  c \in s
    <3>1. m \in s
      BY <2>2 DEF Below
    <3> QED  BY <2>2, <3>1 DEF ClosedUnder
  <2> QED  BY <2>1, <2>2 DEF Below
<1> QED  BY <1>1, <1>2

LEMMA BelowLeast ==
    ASSUME IsTree, NEW n \in DOMAIN tree, NEW s \in SUBSET DOMAIN tree,
           n \in s, ClosedUnder(s)
    PROVE  Below(n) \subseteq s
  BY DEF Below

LEMMA BelowIs ==
    ASSUME IsTree, NEW n \in DOMAIN tree
    PROVE  Below(n) = {n} \cup Under(Callees(tree[n]))
<1> DEFINE s == {n} \cup Under(Callees(tree[n]))
<1>1. \A c \in Callees(tree[n]) : c \in DOMAIN tree
  BY TreeFacts
<1>2. Under(Callees(tree[n])) \subseteq Below(n)
  <2>1. ASSUME NEW c \in Callees(tree[n]) PROVE Below(c) \subseteq Below(n)
    <3>1. c \in Below(n) /\ Below(n) \in SUBSET DOMAIN tree /\ ClosedUnder(Below(n))
      BY BelowHas DEF ClosedUnder
    <3> QED  BY <1>1, <3>1, BelowLeast
  <2> QED  BY <2>1 DEF Under
<1>3. s \subseteq Below(n)
  BY <1>2, BelowHas
<1>4. ASSUME NEW m \in s PROVE Callees(tree[m]) \subseteq s
  <2>1. CASE m = n
    <3>1. \A c \in Callees(tree[n]) : c \in Below(c)
      BY <1>1, BelowHas
    <3> QED  BY <2>1, <3>1 DEF Under
  <2>2. CASE m # n
    <3>1. PICK c \in Callees(tree[n]) : m \in Below(c)
      BY <2>2 DEF Under
    <3>2. Callees(tree[m]) \subseteq Below(c)
      BY <1>1, <3>1, BelowHas
    <3> QED  BY <3>2 DEF Under
  <2> QED  BY <2>1, <2>2
<1>5. s \in SUBSET DOMAIN tree
  BY <1>3, BelowHas
<1> HIDE DEF s
<1>6. ClosedUnder(s)
  BY <1>4 DEF ClosedUnder
<1>7. n \in s
  BY DEF s
<1>8. Below(n) \subseteq s
  BY <1>5, <1>6, <1>7, BelowLeast
<1> QED  BY <1>3, <1>8 DEF s

(* A member of Below(n) has a greater number than n, or is n.              *)
LEMMA BelowFrom ==
    ASSUME IsTree, NEW n \in DOMAIN tree, NEW m \in Below(n)
    PROVE  /\ m >= n /\ m \in DOMAIN tree
           /\ m # n => m # 1 /\ Caller(m) \in Below(n)
<1>1. m \in DOMAIN tree
  BY BelowHas
<1>2. m >= n
  <2> DEFINE s == {k \in DOMAIN tree : k >= n}
  <2>1. ClosedUnder(s)
    BY TreeFacts DEF ClosedUnder
  <2>2. n \in s
    BY TreeFacts
  <2>3. Below(n) \subseteq s
    <3> HIDE DEF s
    <3>1. s \in SUBSET DOMAIN tree
      BY DEF s
    <3> QED  BY <2>1, <2>2, <3>1, BelowLeast
  <2> QED  BY <2>3
<1>3. ASSUME m # n PROVE m # 1 /\ Caller(m) \in Below(n)
  <2>1. m # 1
    BY <1>1, <1>2, <1>3, TreeFacts
  <2>2. ASSUME Caller(m) \notin Below(n) PROVE FALSE
    <3> DEFINE s == Below(n) \ {m}
    <3>1. ASSUME NEW k \in s, NEW c \in Callees(tree[k]) PROVE c \in s
      <4>1. c \in Below(n) /\ k \in DOMAIN tree
        BY BelowHas
      <4>2. c # m
        BY <1>1, <2>1, <2>2, <4>1, CallerIs
      <4> QED  BY <4>1, <4>2
    <3>2. ClosedUnder(s)
      <4> HIDE DEF s
      <4> QED  BY <3>1 DEF ClosedUnder
    <3>3. s \in SUBSET DOMAIN tree /\ n \in s
      BY <1>3, BelowHas
    <3>4. Below(n) \subseteq s
      <4> HIDE DEF s
      <4> QED  BY <3>2, <3>3, BelowLeast
    <3> QED  BY <3>4
  <2> QED  BY <2>1, <2>2
<1> QED  BY <1>1, <1>2, <1>3

(* What different callees call is different.                               *)
LEMMA BelowApart ==
    ASSUME IsTree, NEW n \in DOMAIN tree, NEW c \in Callees(tree[n]),
           NEW d \in Callees(tree[n]), c # d
    PROVE  Below(c) \cap Below(d) = {}
<1> DEFINE T == Below(c) \cap Below(d)
<1> SUFFICES ASSUME T # {} PROVE FALSE
  OBVIOUS
<1>1. /\ c \in DOMAIN tree /\ d \in DOMAIN tree /\ c > n /\ d > n
      /\ n \in Nat /\ c \in Nat /\ d \in Nat
  BY TreeFacts
<1>2. T \in SUBSET Nat
  BY <1>1, BelowHas, TreeFacts
<1>3. PICK m \in T : \A k \in T : m <= k
  <2> HIDE DEF T
  <2> QED  BY <1>2, LeastOf
<1>4. ASSUME NEW a \in DOMAIN tree, NEW b \in DOMAIN tree, a # b, n < a, n < b,
             n = Caller(b), m \in Below(a), m = b
      PROVE  FALSE
  <2>1. n \in Below(a)
    BY <1>4, BelowFrom
  <2>2. n >= a
    BY <2>1, BelowFrom
  <2> QED  BY <1>1, <1>4, <2>2, TreeFacts
<1>5. c # 1 /\ d # 1 /\ n = Caller(c) /\ n = Caller(d)
  BY <1>1, CallerIs, TreeFacts
<1>6. m # c /\ m # d
  BY <1>1, <1>4, <1>5
<1>7. m \in DOMAIN tree \ {1} /\ Caller(m) \in T
  BY <1>1, <1>6, BelowFrom
<1>8. Caller(m) < m /\ Caller(m) >= m
  BY <1>3, <1>7, CallerIs, <1>2
<1> QED  BY <1>2, <1>7, <1>8

LEMMA BelowRoot ==
    ASSUME IsTree
    PROVE  Below(1) = DOMAIN tree
<1> DEFINE T == DOMAIN tree \ Below(1)
<1>1. 1 \in DOMAIN tree /\ Below(1) \subseteq DOMAIN tree /\ 1 \in Below(1)
  BY TreeFacts, BelowHas
<1> SUFFICES ASSUME T # {} PROVE FALSE
  BY <1>1
<1>2. T \in SUBSET Nat
  BY TreeFacts
<1>3. PICK m \in T : \A k \in T : m <= k
  <2> HIDE DEF T
  <2> QED  BY <1>2, LeastOf
<1>4. m \in DOMAIN tree \ {1}
  BY <1>1
<1>5. Caller(m) \in DOMAIN tree /\ Caller(m) < m /\ m \in Callees(tree[Caller(m)])
  BY <1>4, CallerIs
<1>6. Caller(m) \in Below(1)
  BY <1>2, <1>3, <1>5, TreeFacts
<1> QED  BY <1>1, <1>5, <1>6, BelowHas

(* Nothing below what is not covered is covered.                           *)
LEMMA UncoveredBelow ==
    ASSUME IsTree, NEW n \in DOMAIN tree, n \notin Covered
    PROVE  Below(n) \cap Covered = {}
<1> DEFINE s == DOMAIN tree \ Covered
<1>1. ASSUME NEW k \in s, NEW c \in Callees(tree[k]) PROVE c \in s
  <2>1. c \in DOMAIN tree /\ c # 1
    BY TreeFacts
  <2>2. Caller(c) = k
    BY <2>1, CallerIs
  <2> QED  BY <2>1, <2>2, CoveredIs
<1>2. ClosedUnder(s)
  <2> HIDE DEF s
  <2> QED  BY <1>1 DEF ClosedUnder
<1>3. s \in SUBSET DOMAIN tree /\ n \in s
  OBVIOUS
<1>4. Below(n) \subseteq s
  <2> HIDE DEF s
  <2> QED  BY <1>2, <1>3, BelowLeast
<1> QED  BY <1>4

(* Nor is anything but n below an n that is not validated or is a leaf.    *)
LEMMA ClosedBelow ==
    ASSUME IsTree, NEW n \in DOMAIN tree,
           Closed(n) \/ tree[n].kind \in Leaves
    PROVE  Below(n) \cap Covered \subseteq {n}
<1>1. Below(n) = {n} \cup Under(Callees(tree[n]))
  BY BelowIs
<1>2. ASSUME NEW c \in Callees(tree[n]) PROVE Below(c) \cap Covered = {}
  <2>1. c \in DOMAIN tree /\ c # 1 /\ Closed(n)
    BY TreeFacts
  <2>2. Caller(c) = n
    BY <2>1, CallerIs
  <2> QED  BY <2>1, <2>2, CoveredIs, UncoveredBelow
<1> QED  BY <1>1, <1>2 DEF Under

-----------------------------------------------------------------------------
(* Sequences.                                                              *)

LEMMA ReverseIs ==
    ASSUME NEW S, NEW s \in Seq(S)
    PROVE  /\ Reverse(s) \in Seq(S) /\ Len(Reverse(s)) = Len(s)
           /\ \A i \in 1 .. Len(s) : Reverse(s)[i] = s[Len(s) - i + 1]
           /\ Len(s) <= 1 => Reverse(s) = s
<1>1. /\ Reverse(s) \in Seq(S) /\ Len(Reverse(s)) = Len(s)
      /\ \A i \in 1 .. Len(s) : Reverse(s)[i] = s[Len(s) - i + 1]
  BY DEF Reverse
<1>2. ASSUME Len(s) <= 1 PROVE Reverse(s) = s
  <2>1. \A i \in 1 .. Len(s) : Reverse(s)[i] = s[i]
    BY <1>1, <1>2
  <2> QED  BY <1>1, <2>1
<1> QED  BY <1>1, <1>2

(* Concatenation, element by element.                                      *)
LEMMA ConcatIs ==
    ASSUME NEW S, NEW s \in Seq(S), NEW t \in Seq(S), NEW r, r = s \o t,
           NEW m \in Nat, m = Len(s), NEW n \in Nat, n = Len(t)
    PROVE  /\ r \in Seq(S) /\ Len(r) = m + n /\ DOMAIN r = 1 .. (m + n)
           /\ DOMAIN s = 1 .. m /\ DOMAIN t = 1 .. n
           /\ \A i \in 1 .. m : i \in 1 .. (m + n) /\ r[i] = s[i]
           /\ \A i \in 1 .. n : i + m \in 1 .. (m + n) /\ r[i + m] = t[i]
           /\ \A i \in 1 .. (m + n) : i \in 1 .. m \/ i - m \in 1 .. n
<1>1. r \in Seq(S) /\ Len(r) = m + n /\ DOMAIN s = 1 .. m /\ DOMAIN t = 1 .. n
  OBVIOUS
<1>2. DOMAIN r = 1 .. (m + n)
  BY <1>1
<1>3. \A i \in 1 .. m : i \in 1 .. (m + n) /\ r[i] = s[i]
  OBVIOUS
<1>4. \A i \in 1 .. n : i + m \in 1 .. (m + n) /\ r[i + m] = t[i]
  OBVIOUS
<1>5. \A i \in 1 .. (m + n) : i \in 1 .. m \/ i - m \in 1 .. n
  OBVIOUS
<1> QED  BY <1>1, <1>2, <1>3, <1>4, <1>5

LEMMA ReverseConcat ==
    ASSUME NEW S, NEW s \in Seq(S), NEW t \in Seq(S)
    PROVE  Reverse(s \o t) = Reverse(t) \o Reverse(s)
<1>1. PICK m \in Nat, n \in Nat : m = Len(s) /\ n = Len(t)
  OBVIOUS
<1>2. PICK c \in Seq(S) : c = s \o t
  <2>1. s \o t \in Seq(S)
    OBVIOUS
  <2> QED  BY <2>1
<1>3. PICK rs \in Seq(S) : rs = Reverse(s)
  BY ReverseIs
<1>4. PICK rt \in Seq(S) : rt = Reverse(t)
  BY ReverseIs
<1>5. PICK rc \in Seq(S) : rc = Reverse(c)
  BY ReverseIs
<1>6. PICK d \in Seq(S) : d = rt \o rs
  <2>1. rt \o rs \in Seq(S)
    OBVIOUS
  <2> QED  BY <2>1
<1>7. /\ Len(c) = m + n /\ \A i \in 1 .. m : c[i] = s[i]
      /\ \A i \in 1 .. n : c[i + m] = t[i]
  BY <1>1, <1>2, ConcatIs
<1>8. Len(rs) = m /\ \A i \in 1 .. m : rs[i] = s[m - i + 1]
  BY <1>1, <1>3, ReverseIs
<1>9. Len(rt) = n /\ \A i \in 1 .. n : rt[i] = t[n - i + 1]
  BY <1>1, <1>4, ReverseIs
<1>10. Len(rc) = m + n /\ \A i \in 1 .. (m + n) : rc[i] = c[m + n - i + 1]
  <2>1. Len(rc) = Len(c) /\ \A i \in 1 .. Len(c) : rc[i] = c[Len(c) - i + 1]
    BY <1>5, ReverseIs
  <2> QED  BY <1>7, <2>1
<1>11. /\ Len(d) = n + m /\ \A i \in 1 .. n : d[i] = rt[i]
       /\ \A i \in 1 .. m : d[i + n] = rs[i]
       /\ \A i \in 1 .. (n + m) : i \in 1 .. n \/ i - n \in 1 .. m
  <2>1. rt \in Seq(S) /\ rs \in Seq(S) /\ n \in Nat /\ m \in Nat
    OBVIOUS
  <2>2. d = rt \o rs /\ n = Len(rt) /\ m = Len(rs)
    BY <1>6, <1>8, <1>9
  <2> QED  BY <2>1, <2>2, ConcatIs
<1>12. ASSUME NEW i \in 1 .. (m + n) PROVE rc[i] = d[i]
  <2>1. CASE i \in 1 .. n
    <3>1. n - i + 1 \in 1 .. n /\ (n - i + 1) + m = m + n - i + 1
      BY <2>1
    <3>2. d[i] = t[n - i + 1]
      BY <1>9, <1>11, <2>1
    <3>3. c[(n - i + 1) + m] = t[n - i + 1]
      BY <1>7, <3>1
    <3> QED  BY <1>10, <3>1, <3>2, <3>3
  <2>2. CASE i - n \in 1 .. m
    <3>1. /\ m - (i - n) + 1 \in 1 .. m /\ m - (i - n) + 1 = m + n - i + 1
          /\ (i - n) + n = i
      BY <2>2
    <3>2. d[i] = s[m - (i - n) + 1]
      BY <1>8, <1>11, <2>2, <3>1
    <3>3. c[m - (i - n) + 1] = s[m - (i - n) + 1]
      BY <1>7, <3>1
    <3> QED  BY <1>10, <3>1, <3>2, <3>3
  <2>3. i \in 1 .. (n + m)
    OBVIOUS
  <2> QED  BY <1>11, <2>1, <2>2, <2>3
<1>13. rc = d
  <2>1. Len(rc) = Len(d) /\ Len(rc) = m + n
    BY <1>10, <1>11
  <2>2. \A i \in 1 .. Len(rc) : rc[i] = d[i]
    BY <1>12, <2>1
  <2> QED  BY <2>1, <2>2, SeqEqual
<1> QED  BY <1>2, <1>3, <1>4, <1>5, <1>6, <1>13

LEMMA RemoveOne ==
    ASSUME NEW S, NEW s \in Seq(S), IsInjective(s), NEW i \in DOMAIN s
    PROVE  /\ RemoveAt(s, i) \in Seq(S) /\ IsInjective(RemoveAt(s, i))
           /\ ToSet(RemoveAt(s, i)) = ToSet(s) \ {s[i]}
<1>1. PICK r : r = RemoveAt(s, i)
  OBVIOUS
<1>2. PICK n \in Nat : n = Len(s)
  OBVIOUS
<1>3. i \in 1 .. n /\ DOMAIN s = 1 .. n
  BY <1>2
<1>4. r = SubSeq(s, 1, i - 1) \o SubSeq(s, i + 1, n)
  BY <1>1, <1>2 DEF RemoveAt
<1>5. /\ SubSeq(s, 1, i - 1) \in Seq(S) /\ Len(SubSeq(s, 1, i - 1)) = i - 1
      /\ SubSeq(s, i + 1, n) \in Seq(S) /\ Len(SubSeq(s, i + 1, n)) = n - i
      /\ \A k \in 1 .. (i - 1) : SubSeq(s, 1, i - 1)[k] = s[k]
      /\ \A k \in 1 .. (n - i) : SubSeq(s, i + 1, n)[k] = s[k + i]
  <2>1. PICK p \in Int, q \in Int : p = i - 1 /\ q = i + 1
    BY <1>3
  <2>2. /\ \A k \in 1 .. p : s[k] \in S
        /\ \A k \in q .. n : s[k] \in S
    BY <1>3, <2>1
  <2>3. /\ SubSeq(s, 1, p) \in Seq(S)
        /\ Len(SubSeq(s, 1, p)) = IF 1 <= p THEN p - 1 + 1 ELSE 0
        /\ \A k \in 1 .. p - 1 + 1 : SubSeq(s, 1, p)[k] = s[1 + k - 1]
    BY <2>2, SubSeqProperties
  <2>4. /\ SubSeq(s, q, n) \in Seq(S)
        /\ Len(SubSeq(s, q, n)) = IF q <= n THEN n - q + 1 ELSE 0
        /\ \A k \in 1 .. n - q + 1 : SubSeq(s, q, n)[k] = s[q + k - 1]
    BY <2>2, SubSeqProperties
  <2>5. i \in Nat /\ n \in Nat /\ 1 <= i /\ i <= n /\ p = i - 1 /\ q = i + 1
    BY <1>3, <2>1
  <2>6. /\ p - 1 + 1 = p /\ n - q + 1 = n - i
        /\ (IF 1 <= p THEN p - 1 + 1 ELSE 0) = i - 1
        /\ (IF q <= n THEN n - q + 1 ELSE 0) = n - i
    BY ONLY <2>5
  <2>7. Len(SubSeq(s, 1, p)) = i - 1 /\ Len(SubSeq(s, q, n)) = n - i
    BY ONLY <2>3, <2>4, <2>6
  <2>8. ASSUME NEW k \in 1 .. p PROVE SubSeq(s, 1, p)[k] = s[k]
    <3>1. 1 + k - 1 = k /\ k \in 1 .. p - 1 + 1
      BY <2>6
    <3>2. SubSeq(s, 1, p)[k] = s[1 + k - 1]
      BY <2>3, <3>1
    <3> QED  BY <3>1, <3>2
  <2>9. ASSUME NEW k \in 1 .. (n - i) PROVE SubSeq(s, q, n)[k] = s[k + i]
    <3>1. q + k - 1 = k + i /\ k \in 1 .. n - q + 1
      BY <2>5, <2>6
    <3>2. SubSeq(s, q, n)[k] = s[q + k - 1]
      BY <2>4, <3>1
    <3> QED  BY <3>1, <3>2
  <2> QED  BY <2>1, <2>3, <2>4, <2>7, <2>8, <2>9
<1>6. /\ r \in Seq(S) /\ Len(r) = n - 1
      /\ \A k \in 1 .. (n - 1) : r[k] = IF k < i THEN s[k] ELSE s[k + 1]
  <2>1. PICK a \in Seq(S), b \in Seq(S) :
           a = SubSeq(s, 1, i - 1) /\ b = SubSeq(s, i + 1, n)
    BY <1>5
  <2>2. r = a \o b /\ Len(a) = i - 1 /\ Len(b) = n - i
    BY <1>4, <1>5, <2>1
  <2>3. PICK p \in Nat, q \in Nat : p = Len(a) /\ q = Len(b)
    OBVIOUS
  <2>4. p = i - 1 /\ q = n - i
    BY <2>2, <2>3
  <2>5. p + q = n - 1
    BY <1>3, <2>4
  <2>6. /\ r \in Seq(S) /\ Len(r) = p + q
        /\ \A k \in 1 .. p : r[k] = a[k]
        /\ \A k \in 1 .. q : r[k + p] = b[k]
    <3>1. r = a \o b
      BY <2>2
    <3> QED  BY ONLY <2>3, <3>1, ConcatIs, a \in Seq(S), b \in Seq(S)
  <2>7. ASSUME NEW k \in 1 .. (n - 1)
        PROVE  r[k] = IF k < i THEN s[k] ELSE s[k + 1]
    <3>1. CASE k < i
      <4>1. k \in 1 .. (i - 1) /\ k \in 1 .. p
        BY <1>3, <2>4, <3>1
      <4>2. r[k] = a[k]
        BY <2>6, <4>1
      <4> QED  BY <1>5, <2>1, <3>1, <4>1, <4>2
    <3>2. CASE k >= i
      <4>1. PICK l \in 1 .. q : l = k - p
        BY <1>3, <2>4, <3>2
      <4>2. l + p = k /\ l + i = k + 1 /\ l \in 1 .. (n - i)
        BY <1>3, <2>4, <4>1
      <4>3. r[l + p] = b[l]
        BY <2>6
      <4>4. b[l] = s[l + i]
        BY <1>5, <2>1, <4>2
      <4>5. r[k] = s[k + 1] /\ ~(k < i)
        BY <1>3, <3>2, <4>2, <4>3, <4>4
      <4> QED  BY <4>5
    <3> QED  BY <1>3, <3>1, <3>2
  <2> QED  BY <2>5, <2>6, <2>7
<1>7. \A k, l \in 1 .. n : s[k] = s[l] => k = l
  BY <1>3 DEF IsInjective
<1>8. DOMAIN r = 1 .. (n - 1)
  BY <1>3, <1>6
<1>9. IsInjective(r)
  <2>1. ASSUME NEW k \in 1 .. (n - 1), NEW l \in 1 .. (n - 1), r[k] = r[l]
        PROVE  k = l
    BY <1>3, <1>6, <1>7, <2>1
  <2> QED  BY <1>8, <2>1 DEF IsInjective
<1>10. ToSet(r) = {r[k] : k \in 1 .. (n - 1)} /\ ToSet(s) = {s[k] : k \in 1 .. n}
  BY <1>3, <1>8 DEF ToSet
<1>11. ASSUME NEW k \in 1 .. (n - 1) PROVE r[k] \in ToSet(s) \ {s[i]}
  BY <1>3, <1>6, <1>7, <1>10
<1>12. ASSUME NEW k \in 1 .. n, k # i PROVE s[k] \in ToSet(r)
  <2>1. CASE k < i
    <3>1. k \in 1 .. (n - 1) /\ r[k] = s[k]
      BY <1>3, <1>6, <2>1
    <3> QED  BY <1>10, <3>1
  <2>2. CASE k > i
    <3>1. k - 1 \in 1 .. (n - 1) /\ ~(k - 1 < i) /\ (k - 1) + 1 = k
      BY <1>3, <2>2
    <3>2. r[k - 1] = s[k]
      BY <1>6, <3>1
    <3> QED  BY <1>10, <3>1, <3>2
  <2> QED  BY <1>3, <1>12, <2>1, <2>2
<1>13. ToSet(r) = ToSet(s) \ {s[i]}
  <2>1. ToSet(r) \subseteq ToSet(s) \ {s[i]}
    BY <1>10, <1>11
  <2>2. ASSUME NEW x \in ToSet(s), x # s[i] PROVE x \in ToSet(r)
    <3>1. PICK k \in 1 .. n : x = s[k]
      BY <1>10
    <3> QED  BY <1>12, <2>2, <3>1
  <2> QED  BY <2>1, <2>2
<1> QED  BY <1>1, <1>6, <1>9, <1>13

(* The two lists of evaluators of a node.                                  *)
LEMMA CalleesAre ==
    ASSUME IsTree, NEW n \in DOMAIN tree
    PROVE  /\ tree[n].calls \in Seq(Nat) /\ tree[n].nested \in Seq(Nat)
           /\ Callees(tree[n]) = ToSet(tree[n].calls) \cup ToSet(tree[n].nested)
           /\ ToSet(tree[n].calls) \cap ToSet(tree[n].nested) = {}
           /\ Agenda(n) \in Seq(Nat) /\ IsInjective(Agenda(n))
           /\ ToSet(Agenda(n)) \subseteq Callees(tree[n])
<1>1. PICK a \in Seq(Nat), b \in Seq(Nat) : a = tree[n].calls /\ b = tree[n].nested
  BY TreeFacts DEF Node
<1>2. PICK j \in Nat, k \in Nat : j = Len(a) /\ k = Len(b)
  OBVIOUS
<1>11. PICK c \in Seq(Nat) : c = a \o b
  <2>1. a \o b \in Seq(Nat)
    OBVIOUS
  <2> QED  BY <2>1
<1>3. /\ DOMAIN c = 1 .. (j + k) /\ DOMAIN a = 1 .. j /\ DOMAIN b = 1 .. k
      /\ \A i \in 1 .. j : i \in 1 .. (j + k) /\ c[i] = a[i]
      /\ \A i \in 1 .. k : i + j \in 1 .. (j + k) /\ c[i + j] = b[i]
      /\ \A i \in 1 .. (j + k) : i \in 1 .. j \/ i - j \in 1 .. k
  BY <1>2, <1>11, ConcatIs
<1>4. IsInjective(c)
  BY <1>1, <1>11, TreeFacts
<1>5. \A i, l \in 1 .. (j + k) : c[i] = c[l] => i = l
  BY <1>3, <1>4 DEF IsInjective
<1>6. ToSet(c) = ToSet(a) \cup ToSet(b)
  <2>1. ToSet(c) = {c[i] : i \in 1 .. (j + k)}
        /\ ToSet(a) = {a[i] : i \in 1 .. j} /\ ToSet(b) = {b[i] : i \in 1 .. k}
    BY <1>3 DEF ToSet
  <2>2. ASSUME NEW i \in 1 .. (j + k) PROVE c[i] \in ToSet(a) \cup ToSet(b)
    <3>1. CASE i \in 1 .. j
      BY <1>3, <2>1, <3>1
    <3>2. CASE i - j \in 1 .. k
      <4>1. (i - j) + j = i
        OBVIOUS
      <4>2. c[i] = b[i - j]
        BY <1>3, <3>2, <4>1
      <4> QED  BY <2>1, <3>2, <4>2
    <3> QED  BY <1>3, <3>1, <3>2
  <2>3. ToSet(c) \subseteq ToSet(a) \cup ToSet(b)
    BY <2>1, <2>2
  <2>4. ToSet(a) \subseteq ToSet(c)
    BY <1>3, <2>1
  <2>5. ASSUME NEW i \in 1 .. k PROVE b[i] \in ToSet(c)
    <3>1. i + j \in 1 .. (j + k) /\ c[i + j] = b[i]
      BY <1>3
    <3> QED  BY <2>1, <3>1
  <2>6. ToSet(b) \subseteq ToSet(c)
    BY <2>1, <2>5
  <2> QED  BY <2>3, <2>4, <2>6
<1>7. ToSet(a) \cap ToSet(b) = {}
  <2>1. ASSUME NEW i \in 1 .. j, NEW l \in 1 .. k, a[i] = b[l] PROVE FALSE
    <3>1. i # l + j
      OBVIOUS
    <3>2. c[i] = c[l + j]
      BY <1>3, <2>1
    <3> QED  BY <1>3, <1>5, <3>1, <3>2
  <2> QED  BY <1>3, <2>1 DEF ToSet
<1>8. IsInjective(b)
  <2>1. ASSUME NEW i \in 1 .. k, NEW l \in 1 .. k, b[i] = b[l] PROVE i = l
    <3>1. c[i + j] = c[l + j]
      BY <1>3, <2>1
    <3>2. i + j = l + j
      BY <1>3, <1>5, <3>1
    <3> QED  BY <3>2
  <2> QED  BY <1>3, <2>1 DEF IsInjective
<1>9. Agenda(n) = b \/ Agenda(n) = c
  BY <1>1, <1>11 DEF Agenda
<1>10. Callees(tree[n]) = ToSet(a) \cup ToSet(b)
  BY <1>1, <1>6, <1>11 DEF Callees
<1> QED  BY <1>1, <1>4, <1>6, <1>7, <1>8, <1>9, <1>10

-----------------------------------------------------------------------------
(* What an error says.                                                     *)

Of(e) == {e.violations[i].of : i \in DOMAIN e.violations}

Once(e) ==
    \A i, j \in DOMAIN e.violations :
        e.violations[i].of = e.violations[j].of => i = j

(* All the faults among the nodes, each once; and all could be told.       *)
Tells(e, nodes) ==
    /\ e.kind \in {"nil", "violations"}
    /\ Unable \cap nodes = {}
    /\ Of(e) = Faults \cap nodes
    /\ Once(e)

(* The paths lead on from node n, and the marks are what n's is not.       *)
Leads(e, n) ==
    \A i \in DOMAIN e.violations :
        LET v == e.violations[i]
        IN  /\ WayTo(v.of) = Way(n) \o Reverse(v.path)
            /\ InKey(v.of) <=> v.forKey \/ InKey(n)

(* What node n may return.                                                 *)
Verdict(e, n) ==
    /\ \/ e.kind \in {"compile", "runtime"} /\ Unable # {}
       \/ Tells(e, Below(n))
       \/ failFast /\ e.kind = "violations" /\ Of(e) \subseteq Faults
    /\ failFast => Len(e.violations) <= 1

RejectsInv == rejects \subseteq {n \in DOMAIN tree : tree[n].kind \in Filterable}

Constants == IsTree /\ RejectsInv /\ failFast \in BOOLEAN

LEMMA ErrorFacts ==
    /\ Nil \in Error /\ Of(Nil) = {} /\ Once(Nil) /\ Len(Nil.violations) = 0
    /\ \A n : Leads(Nil, n)
    /\ \A kind \in {"compile", "runtime"} :
          Fatal(kind) \in Error /\ Fatal(kind).violations = << >>
    /\ Pending \notin Error
    /\ \A e \in Error :
          /\ e.violations \in Seq(Violation)
          /\ e.kind \in {"nil", "violations", "compile", "runtime"}
          /\ e.kind = "violations" <=> e.violations # << >>
          /\ e = [kind |-> e.kind, violations |-> e.violations]
<1>1. << >> \in Seq(Violation)
  OBVIOUS
<1>2. Nil \in Error /\ \A kind \in {"compile", "runtime"} : Fatal(kind) \in Error
  BY <1>1 DEF Nil, Fatal, Error
<1>3. \A kind : Fatal(kind).violations = << >>
  BY DEF Fatal
<1>4. Pending \notin Error
  BY DEF Pending, Error
<1>5. /\ Nil.violations = << >> /\ DOMAIN Nil.violations = {}
      /\ Len(Nil.violations) = 0
  BY DEF Nil
<1>6. ASSUME NEW e \in Error
      PROVE  /\ e.violations \in Seq(Violation)
             /\ e.kind \in {"nil", "violations", "compile", "runtime"}
             /\ e.kind = "violations" <=> e.violations # << >>
             /\ e = [kind |-> e.kind, violations |-> e.violations]
  BY DEF Error
<1> QED  BY <1>2, <1>3, <1>4, <1>5, <1>6 DEF Of, Once, Leads

LEMMA ViolatedFacts ==
    ASSUME NEW n \in Nat, NEW path \in Seq(Elements)
    PROVE  /\ Violated(n, path) \in Error /\ Violated(n, path).kind = "violations"
           /\ Len(Violated(n, path).violations) = 1
           /\ Of(Violated(n, path)) = {n} /\ Once(Violated(n, path))
           /\ DOMAIN Violated(n, path).violations = {1}
           /\ Violated(n, path).violations[1] =
                 [of |-> n, path |-> path, forKey |-> FALSE]
<1>1. PICK v \in Violation : v = [of |-> n, path |-> path, forKey |-> FALSE]
  BY DEF Violation
<1>2. << v >> \in Seq(Violation) /\ << v >> # << >> /\ DOMAIN << v >> = {1}
      /\ Len(<< v >>) = 1 /\ << v >>[1] = v
  OBVIOUS
<1>3. Violated(n, path) = [kind |-> "violations", violations |-> << v >>]
  BY <1>1 DEF Violated, Violations
<1>4. Violated(n, path) \in Error
  <2>1. Violated(n, path) \in [kind : {"nil", "violations", "compile", "runtime"},
                               violations : Seq(Violation)]
    BY <1>2, <1>3
  <2>2. Violated(n, path).kind = "violations" /\ Violated(n, path).violations # << >>
    BY <1>2, <1>3
  <2> QED  BY <2>1, <2>2 DEF Error
<1> QED  BY <1>1, <1>2, <1>3, <1>4 DEF Of, Once

(* The answers of a node that calls nobody.                                *)
LEMMA AloneTells ==
    ASSUME Constants, NEW n \in Covered, Below(n) \cap Covered \subseteq {n},
           n \notin Unable
    PROVE  /\ n \notin Faults => Verdict(Nil, n)
           /\ n \in Faults =>
                 LET path == IF tree[n].kind = "field" THEN tree[n].element
                             ELSE << >>
                 IN  /\ Violated(n, path) \in Error
                     /\ Verdict(Violated(n, path), n)
                     /\ Leads(Violated(n, path), n)
<1>1. IsTree /\ n \in DOMAIN tree /\ n \in Nat
  BY CoveredIs, TreeFacts DEF Constants
<1>2. n \in Below(n) /\ Faults \subseteq Covered /\ Unable \subseteq Covered
  BY <1>1, BelowHas DEF Faults, Unable
<1>3. Unable \cap Below(n) = {} /\ Faults \cap Below(n) = Faults \cap {n}
  BY <1>2
<1>4. ASSUME n \notin Faults PROVE Verdict(Nil, n)
  <2>1. Tells(Nil, Below(n))
    BY <1>3, <1>4, ErrorFacts DEF Tells, Nil
  <2>2. Len(Nil.violations) <= 1
    BY ErrorFacts
  <2> QED  BY <2>1, <2>2 DEF Verdict
<1>5. ASSUME n \in Faults,
             NEW path, path = IF tree[n].kind = "field" THEN tree[n].element
                              ELSE << >>
      PROVE  /\ Violated(n, path) \in Error
             /\ Verdict(Violated(n, path), n) /\ Leads(Violated(n, path), n)
  <2>1. tree[n].element \in Seq(Elements) /\ Len(tree[n].element) <= 1
    BY <1>1, TreeFacts DEF Node
  <2>2. path \in Seq(Elements) /\ Len(path) <= 1
    BY <1>5, <2>1
  <2>3. Reverse(path) = path
    BY <2>2, ReverseIs
  <2>4. PICK e : e = Violated(n, path)
    OBVIOUS
  <2>5. /\ e \in Error /\ e.kind = "violations" /\ Len(e.violations) = 1
        /\ Of(e) = {n} /\ Once(e) /\ DOMAIN e.violations = {1}
        /\ e.violations[1] = [of |-> n, path |-> path, forKey |-> FALSE]
    BY <1>1, <2>2, <2>4, ViolatedFacts
  <2>6. Verdict(e, n)
    BY <1>3, <1>5, <2>5 DEF Verdict, Tells
  <2>7. WayTo(n) = Way(n) \o path
    <3>1. WayTo(n) = IF tree[n].kind = "field"
                     THEN Way(n) \o tree[n].element ELSE Way(n)
      BY <1>1, WayIs
    <3>2. Way(n) \in Seq(Elements)
      BY <1>1, WayIs
    <3>3. Way(n) \o << >> = Way(n)
      BY <3>2
    <3> QED  BY <1>5, <3>1, <3>3
  <2>8. InKey(n) \in BOOLEAN
    BY <1>1, InKeyIs
  <2>9. Leads(e, n)
    BY <2>3, <2>5, <2>7, <2>8 DEF Leads
  <2> QED  BY <2>4, <2>5, <2>6, <2>9
<1> QED  BY <1>4, <1>5

LEMMA FatalTells ==
    ASSUME Constants, NEW n \in Unable, NEW kind \in {"compile", "runtime"}
    PROVE  Fatal(kind) \in Error /\ Verdict(Fatal(kind), n) /\ Leads(Fatal(kind), n)
<1>1. PICK e : e = Fatal(kind)
  OBVIOUS
<1>2. e \in Error /\ e.violations = << >> /\ e.kind = kind
  BY <1>1, ErrorFacts DEF Fatal
<1>3. DOMAIN e.violations = {} /\ Len(e.violations) = 0
  BY <1>2
<1> QED  BY <1>1, <1>2, <1>3 DEF Verdict, Leads

(* What a call returns at once is right, ...                               *)
LEMMA ImmediateTells ==
    ASSUME Constants, NEW n \in Covered, Immediate(n) # Pending
    PROVE  /\ Immediate(n) \in Error /\ Verdict(Immediate(n), n)
           /\ Leads(Immediate(n), n)
<1>1. IsTree /\ n \in DOMAIN tree /\ tree[n] \in Node
  BY CoveredIs, TreeFacts DEF Constants
<1>2. /\ tree[n].kind \in Kind /\ tree[n].members \in Nat
      /\ tree[n].check \in {"pass", "fail", "error"}
      /\ tree[n].required \in BOOLEAN /\ tree[n].has \in BOOLEAN
      /\ tree[n].failed \in BOOLEAN /\ tree[n].always \in BOOLEAN
      /\ tree[n].ignoreEmpty \in BOOLEAN
  BY <1>1 DEF Node
<1>3. (Closed(n) \/ tree[n].kind \in Leaves) => Below(n) \cap Covered \subseteq {n}
  BY <1>1, ClosedBelow
<1>4. CASE tree[n].kind = "check"
  <2>1. Immediate(n) = CheckResult(n) /\ tree[n].kind \in Leaves
    BY <1>4 DEF Immediate, Leaves
  <2>2. CASE tree[n].check = "error"
    <3>1. n \in Unable
      BY <1>4, <2>2 DEF Unable
    <3> QED  BY <2>1, <2>2, <3>1, FatalTells DEF CheckResult
  <2>3. CASE tree[n].check # "error"
    <3>1. n \notin Unable /\ (n \in Faults <=> tree[n].check = "fail")
      BY <1>4, <2>3 DEF Unable, Faults
    <3> QED  BY <1>3, <1>4, <2>1, <2>3, <3>1, AloneTells, ErrorFacts DEF CheckResult
  <2> QED  BY <2>2, <2>3
<1>5. CASE tree[n].kind = "oneof"
  <2>1. Immediate(n) = OneofResult(n) /\ tree[n].kind \in Leaves
    BY <1>5 DEF Immediate, Leaves
  <2>2. /\ n \notin Unable
        /\ n \in Faults <=> ~(n \in rejects \/ ~tree[n].required \/ tree[n].has)
    BY <1>5 DEF Unable, Faults
  <2> QED  BY <1>3, <1>5, <2>1, <2>2, AloneTells, ErrorFacts DEF OneofResult
<1>6. CASE tree[n].kind = "messageOneof"
  <2>1. Immediate(n) = MessageOneofResult(n) /\ tree[n].kind \in Leaves
    BY <1>6 DEF Immediate, Leaves
  <2>2. n \in Faults <=>
           /\ tree[n].members > 1 \/ (tree[n].required /\ tree[n].members # 1)
           /\ Caller(n) \notin rejects
    <3>1. n \in Faults <=>
             /\ tree[n].members \notin (IF tree[n].required THEN {1} ELSE {0, 1})
             /\ Caller(n) \notin rejects
      BY <1>6 DEF Faults
    <3> QED  BY <1>2, <3>1
  <2>3. n \notin Unable
    BY <1>6 DEF Unable
  <2> QED
    BY <1>3, <1>6, <2>1, <2>2, <2>3, AloneTells, ErrorFacts DEF MessageOneofResult
<1>7. CASE tree[n].kind = "field"
  <2>1. Immediate(n) = FieldResult(n)
    BY <1>7 DEF Immediate
  <2>2. /\ n \in Unable <=> /\ tree[n].failed /\ n \notin rejects
                            /\ ~tree[n].always
        /\ n \in Faults <=> /\ tree[n].required /\ ~tree[n].has
                            /\ ~tree[n].always /\ n \notin rejects
        /\ Closed(n) <=> \/ n \in rejects \/ tree[n].always
                         \/ tree[n].ignoreEmpty /\ ~tree[n].has
                         \/ tree[n].required /\ ~tree[n].has
    BY <1>7 DEF Unable, Faults, Closed
  <2>3. CASE tree[n].always \/ n \in rejects
    BY <1>3, <2>1, <2>2, <2>3, AloneTells, ErrorFacts DEF FieldResult
  <2>4. CASE ~(tree[n].always \/ n \in rejects) /\ tree[n].failed
    BY <2>1, <2>2, <2>4, FatalTells DEF FieldResult
  <2>5. CASE ~(tree[n].always \/ n \in rejects) /\ ~tree[n].failed
    <3>1. CASE tree[n].required /\ ~tree[n].has
      BY <1>3, <1>7, <2>1, <2>2, <2>5, <3>1, AloneTells DEF FieldResult
    <3>2. CASE ~(tree[n].required /\ ~tree[n].has) /\ tree[n].ignoreEmpty /\ ~tree[n].has
      BY <1>3, <2>1, <2>2, <2>5, <3>2, AloneTells, ErrorFacts DEF FieldResult
    <3>3. CASE ~(tree[n].required /\ ~tree[n].has) /\ ~(tree[n].ignoreEmpty /\ ~tree[n].has)
      BY <2>1, <2>5, <3>3 DEF FieldResult
    <3> QED  BY <3>1, <3>2, <3>3
  <2> QED  BY <2>3, <2>4, <2>5
<1>8. CASE tree[n].kind = "message"
  <2>1. ~tree[n].always
    BY <1>1, <1>8, TreeFacts
  <2>2. Immediate(n) = Fatal("compile") /\ tree[n].failed /\ n \notin rejects
    BY <1>8 DEF Immediate, MessageResult
  <2>3. n \in Unable
    BY <1>8, <2>1, <2>2 DEF Unable
  <2> QED  BY <2>2, <2>3, FatalTells
<1>9. CASE tree[n].kind = "unknown"
  <2>1. Immediate(n) = Fatal("compile") /\ n \in Unable
    BY <1>9 DEF Immediate, Unable
  <2> QED  BY <2>1, FatalTells
<1>10. CASE tree[n].kind = "value"
  <2>1. Immediate(n) = Nil /\ Closed(n)
    BY <1>10 DEF Immediate, ValueResult, Closed
  <2>2. n \notin Unable /\ n \notin Faults
    BY <1>10 DEF Unable, Faults
  <2> QED  BY <1>3, <2>1, <2>2, AloneTells, ErrorFacts
<1>11. CASE tree[n].kind \in {"list", "map", "pair", "embedded", "programs"}
  BY <1>11 DEF Immediate
<1> QED
  BY <1>2, <1>4, <1>5, <1>6, <1>7, <1>8, <1>9, <1>10, <1>11 DEF Kind

(* ... and a node that calls others is at no fault itself.                 *)
LEMMA PendingTells ==
    ASSUME Constants, NEW n \in Covered, Immediate(n) = Pending
    PROVE  n \notin Faults /\ n \notin Unable /\ ~Closed(n)
<1>1. IsTree /\ n \in DOMAIN tree /\ tree[n] \in Node
  BY CoveredIs, TreeFacts DEF Constants
<1>2. tree[n].kind \in Kind
  BY <1>1 DEF Node
<1>3. /\ Nil # Pending /\ Fatal("compile") # Pending /\ Fatal("runtime") # Pending
      /\ \A m, path : Violated(m, path) # Pending
  <2>1. /\ Nil.kind = "nil" /\ Pending.kind = "pending"
        /\ Fatal("compile").kind = "compile" /\ Fatal("runtime").kind = "runtime"
        /\ \A m, path : Violated(m, path).kind = "violations"
    BY DEF Nil, Pending, Violated, Violations, Fatal
  <2> QED  BY <2>1
<1>4. CASE tree[n].kind \in {"check", "oneof", "messageOneof", "unknown"}
  BY <1>3, <1>4 DEF Immediate, CheckResult, OneofResult, MessageOneofResult
<1>5. CASE tree[n].kind = "field"
  <2>1. /\ ~(tree[n].always \/ n \in rejects) /\ ~tree[n].failed
        /\ ~(tree[n].required /\ ~tree[n].has)
        /\ ~(tree[n].ignoreEmpty /\ ~tree[n].has)
    BY <1>3, <1>5 DEF Immediate, FieldResult
  <2> QED  BY <1>5, <2>1 DEF Faults, Unable, Closed
<1>6. CASE tree[n].kind = "message"
  <2>1. ~(tree[n].failed /\ n \notin rejects)
    BY <1>3, <1>6 DEF Immediate, MessageResult
  <2> QED  BY <1>6, <2>1 DEF Faults, Unable, Closed
<1>7. CASE tree[n].kind = "value"
  <2>1. ~(tree[n].ignoreEmpty /\ ~tree[n].has)
    BY <1>3, <1>7 DEF Immediate, ValueResult
  <2> QED  BY <1>7, <2>1 DEF Faults, Unable, Closed
<1>8. CASE tree[n].kind \in {"list", "map", "pair", "embedded", "programs"}
  BY <1>8 DEF Faults, Unable, Closed
<1> QED  BY <1>2, <1>4, <1>5, <1>6, <1>7, <1>8 DEF Kind

-----------------------------------------------------------------------------
(* What a caller makes of what it was returned.                            *)

LEMMA LocatedTells ==
    ASSUME Constants, NEW n \in DOMAIN tree \ {1}, NEW e \in Error
    PROVE  LET located == Located(n, e)
           IN  /\ located \in Error /\ located.kind = e.kind
               /\ Len(located.violations) = Len(e.violations)
               /\ Of(located) = Of(e) /\ (Once(e) => Once(located))
               /\ Leads(e, n) => Leads(located, Caller(n))
<1>1. PICK a \in Seq(Elements) : a = Adds(n)
  BY AddsType DEF Constants
<1>2. Len(a) <= 1
  BY <1>1, AddsType DEF Constants
<1>3. PICK vs \in Seq(Violation) : vs = e.violations
  BY ErrorFacts
<1>4. PICK m \in Nat : m = Len(vs) /\ DOMAIN vs = 1 .. m
  OBVIOUS
<1>5. tree[n].forKey \in BOOLEAN
  BY TreeFacts DEF Constants, Node
<1> DEFINE ws == [i \in 1 .. m |->
                    [of |-> vs[i].of, path |-> vs[i].path \o a,
                     forKey |-> vs[i].forKey \/ tree[n].forKey]]
<1>6. \A i \in 1 .. m : /\ vs[i] \in Violation /\ vs[i].of \in Nat
                        /\ vs[i].path \in Seq(Elements) /\ vs[i].forKey \in BOOLEAN
  <2>1. \A i \in 1 .. m : vs[i] \in Violation
    BY <1>4
  <2>2. \A v \in Violation : /\ v.of \in Nat /\ v.path \in Seq(Elements)
                             /\ v.forKey \in BOOLEAN
    BY DEF Violation
  <2> QED  BY <2>1, <2>2
<1>7. ws \in Seq(Violation) /\ Len(ws) = m /\ DOMAIN ws = 1 .. m
  <2>1. ASSUME NEW i \in 1 .. m PROVE ws[i] \in Violation
    <3>1. vs[i].path \o a \in Seq(Elements)
      BY <1>6
    <3> QED  BY <1>5, <1>6, <3>1 DEF Violation
  <2>2. ws \in [1 .. m -> Violation]
    BY <2>1
  <2> HIDE DEF ws
  <2> QED  BY <2>2
<1>8. Located(n, e) = [kind |-> e.kind, violations |-> ws]
  <2>1. e = [kind |-> e.kind, violations |-> e.violations]
    BY ErrorFacts
  <2>2. [i \in DOMAIN e.violations |->
            [of |-> e.violations[i].of,
             path |-> e.violations[i].path \o Adds(n),
             forKey |-> e.violations[i].forKey \/ tree[n].forKey]] = ws
    BY <1>1, <1>3, <1>4
  <2>3. Located(n, e) = [e EXCEPT !.violations = ws]
    BY <2>2 DEF Located
  <2> HIDE DEF ws
  <2> QED  BY <2>1, <2>3
<1>9. e.kind \in {"nil", "violations", "compile", "runtime"}
      /\ (e.kind = "violations" <=> vs # << >>)
  BY <1>3, ErrorFacts
<1>10. ws # << >> <=> vs # << >>
  <2> HIDE DEF ws
  <2> QED  BY <1>4, <1>7
<1>11. Located(n, e) \in Error
  <2> HIDE DEF ws
  <2> QED  BY <1>7, <1>8, <1>9, <1>10 DEF Error
<1>12. \A i \in 1 .. m : ws[i].of = vs[i].of
  OBVIOUS
<1>13. Of(Located(n, e)) = Of(e) /\ (Once(e) => Once(Located(n, e)))
  <2> HIDE DEF ws
  <2> QED  BY <1>3, <1>4, <1>7, <1>8, <1>12 DEF Of, Once
<1>14. ASSUME Leads(e, n) PROVE Leads(Located(n, e), Caller(n))
  <2>1. PICK up \in Seq(Elements), way \in Seq(Elements) :
           up = Way(Caller(n)) /\ way = Way(n) /\ way = up \o a
    BY <1>1, WayIs, CallerIs DEF Constants
  <2>2. InKey(n) <=> tree[n].forKey \/ InKey(Caller(n))
    BY InKeyIs DEF Constants
  <2>3. ASSUME NEW i \in 1 .. m
        PROVE  /\ WayTo(ws[i].of) = Way(Caller(n)) \o Reverse(ws[i].path)
               /\ InKey(ws[i].of) <=> ws[i].forKey \/ InKey(Caller(n))
    <3>1. PICK p \in Seq(Elements), r \in Seq(Elements) :
             p = vs[i].path /\ r = Reverse(p)
      BY <1>6, ReverseIs
    <3>2. WayTo(vs[i].of) = way \o r /\ (InKey(vs[i].of) <=> vs[i].forKey \/ InKey(n))
      BY <1>3, <1>4, <1>14, <2>1, <3>1 DEF Leads
    <3>3. Reverse(p \o a) = a \o r
      <4>1. Reverse(a) = a
        BY <1>2, ReverseIs
      <4> QED  BY <3>1, <4>1, ReverseConcat
    <3>4. (up \o a) \o r = up \o (a \o r)
      OBVIOUS
    <3>5. ws[i].path = p \o a /\ ws[i].of = vs[i].of
          /\ ws[i].forKey = (vs[i].forKey \/ tree[n].forKey)
      BY <3>1
    <3>6. WayTo(ws[i].of) = Way(Caller(n)) \o Reverse(ws[i].path)
      <4> HIDE DEF ws
      <4> QED  BY <2>1, <3>2, <3>3, <3>4, <3>5
    <3>7. InKey(ws[i].of) <=> ws[i].forKey \/ InKey(Caller(n))
      <4> HIDE DEF ws
      <4> QED  BY <2>2, <3>2, <3>5
    <3> QED  BY <3>6, <3>7
  <2> HIDE DEF ws
  <2>4. PICK l : l = Located(n, e)
    OBVIOUS
  <2>5. l.violations = ws /\ DOMAIN l.violations = 1 .. m
    BY <1>7, <1>8, <2>4
  <2>6. Leads(l, Caller(n))
    BY <2>3, <2>5 DEF Leads
  <2> QED  BY <2>4, <2>6
<1>15. Located(n, e).kind = e.kind /\ Len(Located(n, e).violations) = Len(e.violations)
  <2> HIDE DEF ws
  <2> QED  BY <1>3, <1>4, <1>7, <1>8
<1> QED  BY <1>11, <1>13, <1>14, <1>15

LEMMA ConcatTells ==
    ASSUME Constants, NEW d \in Error, NEW s \in Error, NEW A, NEW B,
           Tells(d, A), Tells(s, B), A \cap B = {},
           d.kind = "violations", s.kind = "violations",
           NEW e, e = Violations(d.violations \o s.violations)
    PROVE  /\ e \in Error /\ Tells(e, A \cup B)
           /\ \A n : Leads(d, n) /\ Leads(s, n) => Leads(e, n)
<1>1. PICK ds \in Seq(Violation), ss \in Seq(Violation) :
         ds = d.violations /\ ss = s.violations
  BY ErrorFacts
<1>2. PICK m \in Nat, n \in Nat : m = Len(ds) /\ n = Len(ss)
  OBVIOUS
<1>3. PICK es \in Seq(Violation) : es = ds \o ss
  <2>1. ds \o ss \in Seq(Violation)
    OBVIOUS
  <2> QED  BY <2>1
<1>4. /\ Len(es) = m + n /\ DOMAIN es = 1 .. (m + n)
      /\ DOMAIN ds = 1 .. m /\ DOMAIN ss = 1 .. n
      /\ \A i \in 1 .. m : i \in 1 .. (m + n) /\ es[i] = ds[i]
      /\ \A i \in 1 .. n : i + m \in 1 .. (m + n) /\ es[i + m] = ss[i]
      /\ \A i \in 1 .. (m + n) : i \in 1 .. m \/ i - m \in 1 .. n
  BY <1>2, <1>3, ConcatIs
<1>5. \A i \in 1 .. (m + n) :
         \/ i \in 1 .. m /\ es[i] = ds[i]
         \/ i - m \in 1 .. n /\ es[i] = ss[i - m]
  <2>1. \A i \in 1 .. (m + n) : (i - m) + m = i
    OBVIOUS
  <2>2. ASSUME NEW i \in 1 .. (m + n), i - m \in 1 .. n PROVE es[i] = ss[i - m]
    <3>1. es[(i - m) + m] = ss[i - m]
      BY <1>4, <2>2
    <3> QED  BY <2>1, <3>1
  <2> QED  BY <1>4, <2>2
<1>6. e = [kind |-> "violations", violations |-> es]
  BY <1>1, <1>3 DEF Violations
<1>7. ds # << >>
  BY <1>1, ErrorFacts
<1>8. m > 0
  BY <1>2, <1>7
<1>9. e \in Error
  <2>1. es # << >>
    BY <1>4, <1>8
  <2> QED  BY <1>6, <2>1 DEF Error
<1>10. /\ Of(d) = {ds[i].of : i \in 1 .. m} /\ Of(s) = {ss[i].of : i \in 1 .. n}
       /\ Of(e) = {es[i].of : i \in 1 .. (m + n)}
  <2>1. e.violations = es
    BY <1>6
  <2>2. Of(d) = {ds[i].of : i \in 1 .. m}
    BY <1>1, <1>4 DEF Of
  <2>3. Of(s) = {ss[i].of : i \in 1 .. n}
    BY <1>1, <1>4 DEF Of
  <2>4. Of(e) = {es[i].of : i \in 1 .. (m + n)}
    BY <1>4, <2>1 DEF Of
  <2> QED  BY <2>2, <2>3, <2>4
<1>11. Of(e) = Of(d) \cup Of(s)
  <2>1. ASSUME NEW x \in Of(e) PROVE x \in Of(d) \cup Of(s)
    <3>1. PICK i \in 1 .. (m + n) : x = es[i].of
      BY <1>10
    <3> QED  BY <1>5, <1>10, <3>1
  <2>2. \A i \in 1 .. m : ds[i].of \in Of(e)
    BY <1>4, <1>10
  <2>3. ASSUME NEW i \in 1 .. n PROVE ss[i].of \in Of(e)
    <3>1. i + m \in 1 .. (m + n) /\ es[i + m] = ss[i]
      BY <1>4
    <3> QED  BY <1>10, <3>1
  <2>4. Of(d) \subseteq Of(e)
    BY <1>10, <2>2
  <2>5. Of(s) \subseteq Of(e)
    BY <1>10, <2>3
  <2>6. Of(e) \subseteq Of(d) \cup Of(s)
    BY <2>1
  <2> QED  BY <2>4, <2>5, <2>6
<1>12. Of(d) = Faults \cap A /\ Of(s) = Faults \cap B /\ Once(d) /\ Once(s)
       /\ Unable \cap A = {} /\ Unable \cap B = {}
  BY DEF Tells
<1>13. Once(e)
  <2>1. /\ \A i, j \in 1 .. m : ds[i].of = ds[j].of => i = j
        /\ \A i, j \in 1 .. n : ss[i].of = ss[j].of => i = j
    BY <1>1, <1>4, <1>12 DEF Once
  <2>2. \A i \in 1 .. m, j \in 1 .. n : ds[i].of # ss[j].of
    <3> SUFFICES ASSUME NEW i \in 1 .. m, NEW j \in 1 .. n PROVE ds[i].of # ss[j].of
      OBVIOUS
    <3>1. ds[i].of \in A /\ ss[j].of \in B
      BY <1>10, <1>12
    <3> QED  BY <3>1
  <2>3. ASSUME NEW i \in 1 .. (m + n), NEW j \in 1 .. (m + n), es[i].of = es[j].of
        PROVE  i = j
    <3>1. CASE i \in 1 .. m /\ j \in 1 .. m /\ es[i] = ds[i] /\ es[j] = ds[j]
      BY <2>1, <2>3, <3>1
    <3>2. CASE i - m \in 1 .. n /\ j - m \in 1 .. n /\ es[i] = ss[i - m]
               /\ es[j] = ss[j - m]
      <4>1. i - m = j - m
        BY <2>1, <2>3, <3>2
      <4> QED  BY <4>1
    <3>3. CASE i \in 1 .. m /\ j - m \in 1 .. n /\ es[i] = ds[i] /\ es[j] = ss[j - m]
      BY <2>2, <2>3, <3>3
    <3>4. CASE i - m \in 1 .. n /\ j \in 1 .. m /\ es[i] = ss[i - m] /\ es[j] = ds[j]
      BY <2>2, <2>3, <3>4
    <3> QED  BY <1>5, <3>1, <3>2, <3>3, <3>4
  <2> QED  BY <1>4, <1>6, <2>3 DEF Once
<1>14. Tells(e, A \cup B)
  BY <1>6, <1>11, <1>12, <1>13 DEF Tells
<1>15. ASSUME NEW k, Leads(d, k), Leads(s, k) PROVE Leads(e, k)
  <2>1. ASSUME NEW i \in 1 .. (m + n)
        PROVE  /\ WayTo(es[i].of) = Way(k) \o Reverse(es[i].path)
               /\ InKey(es[i].of) <=> es[i].forKey \/ InKey(k)
    <3>1. CASE i \in 1 .. m /\ es[i] = ds[i]
      BY <1>1, <1>4, <1>15, <3>1 DEF Leads
    <3>2. CASE i - m \in 1 .. n /\ es[i] = ss[i - m]
      BY <1>1, <1>4, <1>15, <3>2 DEF Leads
    <3> QED  BY <1>5, <3>1, <3>2
  <2>2. e.violations = es /\ DOMAIN es = 1 .. (m + n)
    BY <1>4, <1>6
  <2> QED  BY <2>1, <2>2 DEF Leads
<1> QED  BY <1>9, <1>14, <1>15

(* mergeViolations: it goes on with all that both say, or stops with what  *)
(* may be the last word.                                                   *)
LEMMA MergeTells ==
    ASSUME Constants, NEW d \in Error, NEW s \in Error, NEW A, NEW c,
           Tells(d, A), failFast => d = Nil, Verdict(s, c),
           A \cap Below(c) = {},
           NEW m, m = Merge(d, s)
    PROVE  /\ m.err \in Error /\ m.go \in BOOLEAN
           /\ m.go => Tells(m.err, A \cup Below(c)) /\ (failFast => m.err = Nil)
           /\ ~m.go => \A n : Verdict(m.err, n)
           /\ \A n : Leads(d, n) /\ Leads(s, n) => Leads(m.err, n)
<1>1. /\ d.kind \in {"nil", "violations"} /\ Of(d) = Faults \cap A
      /\ Unable \cap A = {} /\ Once(d) /\ failFast \in BOOLEAN
  BY DEF Tells, Constants
<1>2. /\ s.kind \in {"nil", "violations", "compile", "runtime"}
      /\ s.kind = "violations" <=> s.violations # << >>
      /\ d.kind = "violations" <=> d.violations # << >>
  BY ErrorFacts
<1>3. CASE s.kind = "nil"
  <2>1. m = [go |-> TRUE, err |-> d]
    BY <1>3 DEF Merge
  <2>2. Tells(s, Below(c))
    BY <1>3 DEF Verdict
  <2>3. DOMAIN s.violations = {}
    BY <1>2, <1>3
  <2>4. Of(s) = {}
    BY <2>3 DEF Of
  <2>5. Tells(d, A \cup Below(c))
    BY <1>1, <2>2, <2>4 DEF Tells
  <2> QED  BY <2>1, <2>5
<1>4. CASE s.kind \in {"compile", "runtime"}
  <2>1. m = [go |-> FALSE, err |-> s]
    BY <1>4 DEF Merge
  <2>2. Len(s.violations) = 0
    BY <1>2, <1>4
  <2>3. Unable # {}
    BY <1>4 DEF Verdict, Tells
  <2> QED  BY <1>4, <2>1, <2>2, <2>3 DEF Verdict
<1>5. CASE s.kind = "violations" /\ d.kind = "nil"
  <2>1. m = [go |-> ~(failFast /\ s.violations # << >>), err |-> s]
    BY <1>5 DEF Merge
  <2>2. m.go = ~failFast /\ m.err = s
    BY <1>1, <1>2, <1>5, <2>1
  <2>3. Of(d) = {}
    <3>1. DOMAIN d.violations = {}
      BY <1>2, <1>5
    <3> QED  BY <3>1 DEF Of
  <2>4. ASSUME ~failFast PROVE Tells(s, A \cup Below(c))
    <3>1. Tells(s, Below(c))
      BY <1>5, <2>4 DEF Verdict
    <3> QED  BY <1>1, <2>3, <3>1 DEF Tells
  <2>5. ASSUME failFast, NEW n PROVE Verdict(s, n)
    <3>1. Of(s) \subseteq Faults /\ Len(s.violations) <= 1
      BY <1>5, <2>5 DEF Verdict, Tells
    <3> QED  BY <1>5, <2>5, <3>1 DEF Verdict
  <2> QED  BY <1>1, <2>2, <2>4, <2>5
<1>6. CASE s.kind = "violations" /\ d.kind = "violations"
  <2>1. ~failFast
    BY <1>6 DEF Nil
  <2>2. m = [go |-> TRUE, err |-> Violations(d.violations \o s.violations)]
    BY <1>6, <2>1 DEF Merge
  <2>3. Tells(s, Below(c))
    BY <1>6, <2>1 DEF Verdict
  <2>4. PICK e : e = Violations(d.violations \o s.violations)
    OBVIOUS
  <2>5. /\ e \in Error /\ Tells(e, A \cup Below(c))
        /\ \A n : Leads(d, n) /\ Leads(s, n) => Leads(e, n)
    BY <1>6, <2>3, <2>4, ConcatTells
  <2> QED  BY <2>1, <2>2, <2>4, <2>5
<1> QED  BY <1>1, <1>2, <1>3, <1>4, <1>5, <1>6

-----------------------------------------------------------------------------
(* One call.                                                               *)

(* The evaluators that a call has called.                                  *)
Called(f) == ToSet(Agenda(f.node)) \ ToSet(f.todo)

FrameInv(f) ==
    /\ f \in Frame
    /\ f.node \in Covered /\ Immediate(f.node) = Pending
    /\ ToSet(f.todo) \subseteq ToSet(Agenda(f.node)) /\ IsInjective(f.todo)
    /\ Leads(f.err, f.node)
    /\ failFast => f.err = Nil

(* Its error tells of all that it called, or of all but the one it called  *)
(* last, which has not been merged.                                        *)
Rests(f) == Tells(f.err, Under(Called(f)))

Waits(f) ==
    /\ f.called \in Called(f)
    /\ Tells(f.err, Under(Called(f) \ {f.called}))

(* What node n has returned.                                               *)
Answered(e, n) == e \in Error /\ n \in Covered /\ Verdict(e, n) /\ Leads(e, n)

LEMMA AgendaCovered ==
    ASSUME Constants, NEW n \in Covered, Immediate(n) = Pending,
           NEW c \in ToSet(Agenda(n))
    PROVE  c \in Covered /\ c \in DOMAIN tree \ {1} /\ Caller(c) = n
<1>1. IsTree /\ n \in DOMAIN tree /\ RejectsInv
  BY CoveredIs DEF Constants
<1>2. c \in Callees(tree[n])
  BY <1>1, CalleesAre
<1>3. c \in DOMAIN tree \ {1}
  BY <1>1, <1>2, TreeFacts, RootUncalled
<1>4. Caller(c) = n
  BY <1>1, <1>2, <1>3, CallerIs
<1>5. ~Closed(n)
  BY PendingTells
<1>6. ASSUME n \in rejects PROVE c \notin ToSet(tree[n].calls)
  <2>1. tree[n].kind \in Filterable
    BY <1>1, <1>6 DEF RejectsInv
  <2>2. tree[n].kind # "field"
    BY <1>5, <1>6 DEF Closed
  <2>3. tree[n].kind # "oneof"
    <3>1. tree[n].kind = "oneof" => Callees(tree[n]) = {}
      BY <1>1, TreeFacts DEF Leaves
    <3> QED  BY <1>2, <3>1
  <2>4. tree[n].kind = "message"
    BY <2>1, <2>2, <2>3 DEF Filterable
  <2>5. c \in ToSet(tree[n].nested)
    BY <1>6, <2>4 DEF Agenda
  <2> QED  BY <1>1, <2>5, CalleesAre
<1>7. c \in Covered
  BY <1>1, <1>3, <1>4, <1>5, <1>6, CoveredIs
<1> QED  BY <1>3, <1>4, <1>7

(* A call that begins.                                                     *)
LEMMA FrameBegins ==
    ASSUME Constants, NEW n \in Covered, Immediate(n) = Pending,
           NEW f, f = [node |-> n, todo |-> Agenda(n), called |-> n, err |-> Nil]
    PROVE  FrameInv(f) /\ Rests(f) /\ f.node = n
<1>1. IsTree /\ n \in DOMAIN tree /\ n \in Nat
  BY CoveredIs, TreeFacts DEF Constants
<1>2. Agenda(n) \in Seq(Nat) /\ IsInjective(Agenda(n))
  BY <1>1, CalleesAre
<1>3. Nil \in Error /\ Leads(Nil, n)
  BY ErrorFacts
<1>4. f \in Frame
  BY <1>1, <1>2, <1>3 DEF Frame
<1>5. FrameInv(f)
  BY <1>2, <1>3, <1>4 DEF FrameInv
<1>6. Called(f) = {}
  BY DEF Called
<1>7. Under(Called(f)) = {}
  BY <1>6 DEF Under
<1>8. Tells(Nil, {})
  BY ErrorFacts DEF Tells, Nil
<1> QED  BY <1>5, <1>7, <1>8 DEF Rests

(* A call that calls its next evaluator.                                   *)
LEMMA FrameCalls ==
    ASSUME Constants, NEW f, FrameInv(f), Rests(f), NEW i \in DOMAIN f.todo,
           NEW g, g = [f EXCEPT !.called = f.todo[i], !.todo = RemoveAt(@, i)]
    PROVE  /\ FrameInv(g) /\ Waits(g) /\ g.node = f.node
           /\ g.called = f.todo[i] /\ g.called \in Covered
<1>1. f \in Frame /\ f.node \in Covered /\ Immediate(f.node) = Pending
  BY DEF FrameInv
<1>2. /\ f.todo \in Seq(Nat) /\ IsInjective(f.todo) /\ f.todo[i] \in Nat
      /\ f.todo[i] \in ToSet(f.todo)
  BY <1>1 DEF FrameInv, Frame, ToSet
<1>3. PICK todo \in Seq(Nat) :
         todo = RemoveAt(f.todo, i) /\ IsInjective(todo)
         /\ ToSet(todo) = ToSet(f.todo) \ {f.todo[i]}
  BY <1>2, RemoveOne
<1>4. /\ g \in Frame /\ g.node = f.node /\ g.todo = todo
      /\ g.called = f.todo[i] /\ g.err = f.err
  BY <1>1, <1>2, <1>3 DEF Frame
<1>5. f.todo[i] \in ToSet(Agenda(f.node))
  BY <1>2 DEF FrameInv
<1>6. FrameInv(g)
  BY <1>3, <1>4 DEF FrameInv
<1>7. Called(g) = Called(f) \cup {g.called} /\ g.called \notin Called(f)
  BY <1>2, <1>3, <1>4, <1>5 DEF Called
<1>8. Called(g) \ {g.called} = Called(f)
  BY <1>7
<1>9. Waits(g)
  BY <1>4, <1>7, <1>8 DEF Waits, Rests
<1>10. g.called \in Covered
  BY <1>1, <1>4, <1>5, AgendaCovered
<1> QED  BY <1>4, <1>6, <1>9, <1>10

(* A call whose evaluator has returned goes on, or returns in its turn.    *)
LEMMA FrameMerges ==
    ASSUME Constants, NEW f, FrameInv(f), Waits(f), NEW r, Answered(r, f.called),
           NEW m, m = Merge(f.err, Located(f.called, r)),
           NEW g, g = [f EXCEPT !.err = m.err]
    PROVE  /\ m.go => FrameInv(g) /\ Rests(g) /\ g.node = f.node
           /\ ~m.go => Answered(m.err, f.node)
<1>1. /\ f \in Frame /\ f.node \in Covered /\ Immediate(f.node) = Pending
      /\ Leads(f.err, f.node) /\ (failFast => f.err = Nil)
      /\ f.called \in Called(f)
  BY DEF FrameInv, Waits
<1>2. PICK n, c, d : n = f.node /\ c = f.called /\ d = f.err
  OBVIOUS
<1>3. /\ c \in ToSet(Agenda(n)) /\ d \in Error /\ n \in Covered
      /\ Called(f) \subseteq ToSet(Agenda(n))
  BY <1>1, <1>2 DEF Called, Frame
<1>4. c \in DOMAIN tree \ {1} /\ Caller(c) = n
  BY <1>1, <1>2, <1>3, AgendaCovered
<1>5. IsTree /\ n \in DOMAIN tree
  BY <1>3, CoveredIs DEF Constants
<1>6. PICK s : s = Located(c, r)
  OBVIOUS
<1>7. r \in Error /\ Verdict(r, c) /\ Leads(r, c)
  BY <1>2 DEF Answered
<1>8. /\ s \in Error /\ s.kind = r.kind /\ Len(s.violations) = Len(r.violations)
      /\ Of(s) = Of(r) /\ (Once(r) => Once(s)) /\ Leads(s, n)
  BY <1>4, <1>6, <1>7, LocatedTells
<1>9. Verdict(s, c)
  BY <1>7, <1>8 DEF Verdict, Tells
<1>10. PICK A : A = Under(Called(f) \ {c})
  OBVIOUS
<1>11. Tells(d, A)
  BY <1>2, <1>10 DEF Waits
<1>12. ToSet(Agenda(n)) \subseteq Callees(tree[n])
  BY <1>5, CalleesAre
<1>13. A \cap Below(c) = {}
  <2>1. \A b \in Called(f) \ {c} : Below(b) \cap Below(c) = {}
    BY <1>3, <1>5, <1>12, BelowApart
  <2> QED  BY <1>10, <2>1 DEF Under
<1>14. A \cup Below(c) = Under(Called(f))
  BY <1>1, <1>2, <1>10 DEF Under
<1>15. m = Merge(d, s)
  BY <1>2, <1>6
<1>16. /\ m.err \in Error /\ m.go \in BOOLEAN
       /\ m.go => Tells(m.err, A \cup Below(c)) /\ (failFast => m.err = Nil)
       /\ ~m.go => Verdict(m.err, n)
       /\ Leads(m.err, n)
  BY <1>1, <1>2, <1>3, <1>8, <1>9, <1>11, <1>13, <1>15, MergeTells
<1>17. ASSUME m.go PROVE FrameInv(g) /\ Rests(g) /\ g.node = f.node
  <2>1. /\ g \in Frame /\ g.node = f.node /\ g.todo = f.todo /\ g.err = m.err
    BY <1>1, <1>16 DEF Frame
  <2>2. FrameInv(g)
    BY <1>2, <1>16, <1>17, <2>1 DEF FrameInv
  <2>3. Called(g) = Called(f)
    BY <2>1 DEF Called
  <2>4. Rests(g)
    BY <1>14, <1>16, <1>17, <2>1, <2>3 DEF Rests
  <2> QED  BY <2>1, <2>2, <2>4
<1>18. ASSUME ~m.go PROVE Answered(m.err, f.node)
  BY <1>2, <1>3, <1>16, <1>18 DEF Answered
<1> QED  BY <1>17, <1>18

(* A call that has called them all returns.  What it has not called is     *)
(* not validated.                                                          *)
LEMMA FrameEnds ==
    ASSUME Constants, NEW f, FrameInv(f), Rests(f), f.todo = << >>
    PROVE  Answered(f.err, f.node)
<1>1. PICK n, e : n = f.node /\ e = f.err
  OBVIOUS
<1>2. /\ n \in Covered /\ Immediate(n) = Pending /\ e \in Error /\ Leads(e, n)
      /\ failFast => e = Nil
  BY <1>1 DEF FrameInv, Frame
<1>3. IsTree /\ n \in DOMAIN tree
  BY <1>2, CoveredIs DEF Constants
<1>4. ToSet(f.todo) = {}
  BY DEF ToSet
<1>5. Called(f) = ToSet(Agenda(n))
  BY <1>1, <1>4 DEF Called
<1>6. Tells(e, Under(ToSet(Agenda(n))))
  BY <1>1, <1>5 DEF Rests
<1>7. n \notin Faults /\ n \notin Unable
  BY <1>2, PendingTells
<1>8. Below(n) = {n} \cup Under(Callees(tree[n]))
  BY <1>3, BelowIs
<1>9. ToSet(Agenda(n)) \subseteq Callees(tree[n])
  BY <1>3, CalleesAre
<1>10. ASSUME NEW c \in Callees(tree[n]), c \notin ToSet(Agenda(n))
       PROVE  Below(c) \cap Covered = {}
  <2>1. c \in ToSet(tree[n].calls) \cup ToSet(tree[n].nested)
    BY <1>3, CalleesAre
  <2>2. n \in rejects /\ Agenda(n) = tree[n].nested
    <3>1. CASE tree[n].kind = "message" /\ n \in rejects
      BY <3>1 DEF Agenda
    <3>2. CASE ~(tree[n].kind = "message" /\ n \in rejects)
      <4>1. Agenda(n) = tree[n].calls \o tree[n].nested
        BY <3>2 DEF Agenda
      <4> QED  BY <1>10, <4>1 DEF Callees
    <3> QED  BY <3>1, <3>2
  <2>3. c \in ToSet(tree[n].calls)
    BY <1>10, <2>1, <2>2
  <2>4. c \in DOMAIN tree \ {1} /\ Caller(c) = n
    BY <1>3, TreeFacts, RootUncalled, CallerIs
  <2>5. c \notin Covered
    BY <1>3, <2>2, <2>3, <2>4, CoveredIs
  <2> QED  BY <1>3, <2>4, <2>5, UncoveredBelow
<1>11. Faults \subseteq Covered /\ Unable \subseteq Covered
  BY DEF Faults, Unable
<1>12. ASSUME NEW x \in Below(n), x \in Faults \/ x \in Unable
       PROVE  x \in Under(ToSet(Agenda(n)))
  <2>1. PICK c \in Callees(tree[n]) : x \in Below(c)
    BY <1>7, <1>8, <1>12 DEF Under
  <2>2. c \in ToSet(Agenda(n))
    BY <1>10, <1>11, <1>12, <2>1
  <2> QED  BY <2>1, <2>2 DEF Under
<1>13. Under(ToSet(Agenda(n))) \subseteq Below(n)
  BY <1>8, <1>9 DEF Under
<1>14. /\ Faults \cap Below(n) = Faults \cap Under(ToSet(Agenda(n)))
       /\ Unable \cap Below(n) = Unable \cap Under(ToSet(Agenda(n)))
  BY <1>12, <1>13
<1>15. Tells(e, Below(n))
  BY <1>6, <1>14 DEF Tells
<1>16. failFast => Len(e.violations) <= 1
  BY <1>2, ErrorFacts
<1> QED  BY <1>1, <1>2, <1>15, <1>16 DEF Answered, Verdict

-----------------------------------------------------------------------------
(* The calls in progress.                                                  *)

Answering(st) == IF st = << >> THEN 1 ELSE st[Len(st)].called

(* Each call was made by the one below it on the stack.                    *)
Chain(st) ==
    /\ st \in Seq(Frame)
    /\ \A i \in DOMAIN st :
          /\ FrameInv(st[i])
          /\ st[i].node = IF i = 1 THEN 1 ELSE st[i - 1].called

Waiting(st) == Chain(st) /\ \A i \in DOMAIN st : Waits(st[i])

Working(st) ==
    /\ Chain(st) /\ st # << >> /\ Rests(st[Len(st)])
    /\ \A i \in 1 .. (Len(st) - 1) : Waits(st[i])

(* No call has been made yet, one is working, or one has returned.         *)
Walk(st, ret, res) ==
    \/ st = << >> /\ ret = Pending /\ res = Pending
    \/ Working(st) /\ ret = Pending /\ res = Pending
    \/ /\ Waiting(st) /\ Answered(ret, Answering(st))
       /\ res # Pending => st = << >> /\ res = Finalized(ret)

EInv == tree \in Trees /\ Constants /\ Walk(stack, returned, result)

LEMMA Pushed ==
    ASSUME NEW st, Waiting(st), NEW f, FrameInv(f), Rests(f),
           f.node = Answering(st), NEW new, new = Append(st, f)
    PROVE  Working(new)
<1>1. st \in Seq(Frame) /\ f \in Frame
  BY DEF Waiting, Chain, FrameInv
<1>2. PICK n \in Nat : n = Len(st) /\ DOMAIN st = 1 .. n
  BY <1>1
<1>3. /\ new \in Seq(Frame) /\ Len(new) = n + 1 /\ DOMAIN new = 1 .. (n + 1)
      /\ new # << >> /\ new[n + 1] = f
      /\ \A i \in 1 .. n : new[i] = st[i]
  BY <1>1, <1>2
<1>4. \A i \in 1 .. n : /\ FrameInv(st[i]) /\ Waits(st[i])
                        /\ st[i].node = IF i = 1 THEN 1 ELSE st[i - 1].called
  BY <1>2 DEF Waiting, Chain
<1>5. ASSUME NEW i \in 1 .. (n + 1)
      PROVE  /\ FrameInv(new[i])
             /\ new[i].node = IF i = 1 THEN 1 ELSE new[i - 1].called
  <2>1. CASE i \in 1 .. n
    <3>1. i # 1 => i - 1 \in 1 .. n
      BY <2>1
    <3> QED  BY <1>3, <1>4, <2>1, <3>1
  <2>2. CASE i = n + 1
    <3>1. n = 0 <=> st = << >>
      BY <1>1, <1>2
    <3>2. n # 0 => n \in 1 .. n /\ i - 1 = n /\ i # 1
      BY <1>2, <2>2
    <3>3. f.node = IF n = 0 THEN 1 ELSE st[n].called
      BY <1>2, <3>1 DEF Answering
    <3> QED  BY <1>3, <2>2, <3>2, <3>3
  <2>3. i \in 1 .. n \/ i = n + 1
    BY <1>2
  <2> QED  BY <2>1, <2>2, <2>3
<1>6. Chain(new)
  BY <1>3, <1>5 DEF Chain
<1>7. Len(new) - 1 = n
  BY <1>3
<1> QED  BY <1>3, <1>4, <1>6, <1>7 DEF Working

(* The call on top changes, but not which one it is.                       *)
LEMMA Replaced ==
    ASSUME NEW st, Chain(st), st # << >>, NEW top, top = st[Len(st)],
           NEW g, FrameInv(g), g.node = top.node,
           \A i \in 1 .. (Len(st) - 1) : Waits(st[i]),
           NEW new, new = [st EXCEPT ![Len(st)] = g]
    PROVE  /\ Waits(g) => Waiting(new) /\ Answering(new) = g.called
           /\ Rests(g) => Working(new)
<1>1. st \in Seq(Frame) /\ g \in Frame
  BY DEF Chain, FrameInv
<1>2. PICK n \in Nat : n = Len(st) /\ DOMAIN st = 1 .. n /\ n > 0
  BY <1>1
<1>3. /\ new \in Seq(Frame) /\ Len(new) = n /\ DOMAIN new = 1 .. n
      /\ new # << >> /\ new[n] = g
      /\ \A i \in 1 .. (n - 1) : i \in 1 .. n /\ new[i] = st[i]
  BY <1>1, <1>2
<1>4. /\ \A i \in 1 .. n : /\ FrameInv(st[i])
                           /\ st[i].node = IF i = 1 THEN 1 ELSE st[i - 1].called
      /\ \A i \in 1 .. (n - 1) : Waits(st[i])
  BY <1>2 DEF Chain
<1>5. ASSUME NEW i \in 1 .. n
      PROVE  /\ FrameInv(new[i])
             /\ new[i].node = IF i = 1 THEN 1 ELSE new[i - 1].called
  <2>1. i # 1 => new[i - 1] = st[i - 1]
    <3>1. i # 1 => i - 1 \in 1 .. (n - 1)
      BY <1>2
    <3> QED  BY <1>3, <3>1
  <2>2. CASE i = n
    BY <1>2, <1>3, <1>4, <2>1, <2>2
  <2>3. CASE i # n
    <3>1. i \in 1 .. (n - 1)
      BY <1>2, <2>3
    <3> QED  BY <1>3, <1>4, <2>1, <3>1
  <2> QED  BY <2>2, <2>3
<1>6. Chain(new)
  BY <1>3, <1>5 DEF Chain
<1>7. ASSUME Waits(g) PROVE Waiting(new)
  <2>1. \A i \in 1 .. n : i = n \/ i \in 1 .. (n - 1)
    BY <1>2
  <2>2. \A i \in 1 .. n : Waits(new[i])
    BY <1>3, <1>4, <1>7, <2>1
  <2> QED  BY <1>3, <1>6, <2>2 DEF Waiting
<1>8. Answering(new) = g.called
  BY <1>3 DEF Answering
<1>9. ASSUME Rests(g) PROVE Working(new)
  <2>1. \A i \in 1 .. (n - 1) : Waits(new[i])
    BY <1>3, <1>4
  <2> QED  BY <1>3, <1>6, <1>9, <2>1 DEF Working
<1> QED  BY <1>7, <1>8, <1>9

LEMMA Popped ==
    ASSUME NEW st, Chain(st), st # << >>,
           \A i \in 1 .. (Len(st) - 1) : Waits(st[i]),
           NEW new, new = SubSeq(st, 1, Len(st) - 1)
    PROVE  Waiting(new) /\ Answering(new) = st[Len(st)].node
<1>1. st \in Seq(Frame)
  BY DEF Chain
<1>2. PICK n \in Nat : n = Len(st) /\ DOMAIN st = 1 .. n /\ n > 0
  BY <1>1
<1>3. /\ new \in Seq(Frame) /\ Len(new) = n - 1 /\ DOMAIN new = 1 .. (n - 1)
      /\ \A i \in 1 .. (n - 1) : i \in 1 .. n /\ new[i] = st[i]
  BY <1>1, <1>2
<1>4. /\ \A i \in 1 .. n : /\ FrameInv(st[i])
                           /\ st[i].node = IF i = 1 THEN 1 ELSE st[i - 1].called
      /\ \A i \in 1 .. (n - 1) : Waits(st[i])
  BY <1>2 DEF Chain
<1>5. ASSUME NEW i \in 1 .. (n - 1)
      PROVE  /\ FrameInv(new[i]) /\ Waits(new[i])
             /\ new[i].node = IF i = 1 THEN 1 ELSE new[i - 1].called
  <2>1. i # 1 => i - 1 \in 1 .. (n - 1)
    BY <1>2
  <2> QED  BY <1>3, <1>4, <2>1
<1>6. Waiting(new)
  BY <1>3, <1>5 DEF Waiting, Chain
<1>7. CASE n = 1
  <2>1. new = << >>
    BY <1>3, <1>7
  <2> QED  BY <1>2, <1>4, <1>6, <1>7, <2>1 DEF Answering
<1>8. CASE n # 1
  <2>1. new # << >> /\ n - 1 \in 1 .. (n - 1)
    <3>1. n - 1 # 0 /\ n - 1 \in 1 .. (n - 1)
      BY <1>2, <1>8
    <3>2. Len(new) # 0
      BY <1>3, <3>1
    <3> QED  BY <3>1, <3>2
  <2>2. Answering(new) = st[n - 1].called
    BY <1>3, <2>1 DEF Answering
  <2> QED  BY <1>2, <1>4, <1>6, <1>8, <2>2
<1> QED  BY <1>7, <1>8

(* Evaluate, for the caller it is to answer.                               *)
LEMMA Evaluated ==
    ASSUME Constants, NEW st, Waiting(st), NEW n, n = Answering(st), n \in Covered,
           NEW new, NEW ret,
           IF Immediate(n) = Pending
           THEN /\ new = Append(st, [node |-> n, todo |-> Agenda(n),
                                     called |-> n, err |-> Nil])
                /\ ret = Pending
           ELSE new = st /\ ret = Immediate(n)
    PROVE  Walk(new, ret, Pending)
<1>1. CASE Immediate(n) = Pending
  <2>1. PICK f : f = [node |-> n, todo |-> Agenda(n), called |-> n, err |-> Nil]
    OBVIOUS
  <2>2. FrameInv(f) /\ Rests(f) /\ f.node = n
    BY <1>1, <2>1, FrameBegins
  <2>3. new = Append(st, f) /\ ret = Pending
    BY <1>1, <2>1
  <2>4. Working(new)
    BY <2>2, <2>3, Pushed
  <2> QED  BY <2>3, <2>4 DEF Walk
<1>2. CASE Immediate(n) # Pending
  <2>1. Answered(ret, n)
    BY <1>2, ImmediateTells DEF Answered
  <2> QED  BY <1>2, <2>1 DEF Walk
<1> QED  BY <1>1, <1>2

-----------------------------------------------------------------------------
(* The tree, the filter and the option do not change, and nor does what    *)
(* is said in terms of them.                                               *)

LEMMA Steady ==
    ASSUME tree' = tree, rejects' = rejects, failFast' = failFast
    PROVE  /\ Constants' <=> Constants
           /\ \A st, ret, res : Walk(st, ret, res)' <=> Walk(st, ret, res)
<1>1. Covered' = Covered
  BY DEF Covered, Closed, Caller
<1>2. Faults' = Faults /\ Unable' = Unable
  BY <1>1 DEF Faults, Unable, Caller
<1>3. \A n : Adds(n)' = Adds(n) /\ Caller(n)' = Caller(n)
  BY DEF Adds, Caller
<1>4. \A n : Way(n)' = Way(n) /\ WayTo(n)' = WayTo(n)
  BY DEF Way, WayTo, Adds, Caller
<1>5. \A n : InKey(n)' = InKey(n)
  BY <1>3 DEF InKey
<1>6. \A n : Below(n)' = Below(n)
  BY DEF Below, ClosedUnder
<1>7. \A ns : Under(ns)' = Under(ns)
  BY <1>6 DEF Under
<1>8. \A n : Agenda(n)' = Agenda(n) /\ Immediate(n)' = Immediate(n)
  BY DEF Agenda, Immediate, CheckResult, OneofResult, MessageOneofResult,
         FieldResult, MessageResult, ValueResult, Caller
<1>9. \A e, ns : Tells(e, ns)' <=> Tells(e, ns)
  BY <1>2 DEF Tells
<1>10. \A e, n : Leads(e, n)' <=> Leads(e, n)
  BY <1>4, <1>5 DEF Leads
<1>11. \A e, n : Verdict(e, n)' <=> Verdict(e, n)
  BY <1>2, <1>6, <1>9 DEF Verdict
<1>12. \A e, n : Answered(e, n)' <=> Answered(e, n)
  BY <1>1, <1>10, <1>11 DEF Answered
<1>13. \A f : Called(f)' = Called(f)
  BY <1>8 DEF Called
<1>14. \A f : Rests(f)' <=> Rests(f)
  BY <1>7, <1>9, <1>13 DEF Rests
<1>15. \A f : Waits(f)' <=> Waits(f)
  BY <1>7, <1>9, <1>13 DEF Waits
<1>16. \A f : FrameInv(f)' <=> FrameInv(f)
  BY <1>1, <1>8, <1>10 DEF FrameInv
<1>17. \A st : Chain(st)' <=> Chain(st)
  BY <1>16 DEF Chain
<1>18. \A st : (Waiting(st)' <=> Waiting(st)) /\ (Working(st)' <=> Working(st))
  BY <1>14, <1>15, <1>17 DEF Waiting, Working
<1>19. \A st, ret, res : Walk(st, ret, res)' <=> Walk(st, ret, res)
  BY <1>12, <1>18 DEF Walk
<1>20. Constants' <=> Constants
  BY DEF Constants, IsTree, RejectsInv
<1> QED  BY <1>19, <1>20

LEMMA InitInv == Init => EInv
<1> SUFFICES ASSUME Init PROVE EInv
  OBVIOUS
<1>1. tree \in Trees /\ IsTree
  BY EvaluationAssumption DEF Init, IsTree
<1>2. RejectsInv /\ failFast \in BOOLEAN
  BY DEF Init, RejectsInv
<1>3. Walk(stack, returned, result)
  BY DEF Init, Walk
<1> QED  BY <1>1, <1>2, <1>3 DEF EInv, Constants

LEMMA NextInv == EInv /\ [Next]_vars => EInv'
<1> SUFFICES ASSUME EInv, [Next]_vars PROVE EInv'
  OBVIOUS
<1>1. tree' = tree /\ rejects' = rejects /\ failFast' = failFast
  BY DEF Next, vars, Validate, Call, Return, Finish, Finalize
<1>2. PICK st, ret, res : st = stack /\ ret = returned /\ res = result
  OBVIOUS
<1>3. PICK new, answer, final :
         new = stack' /\ answer = returned' /\ final = result'
  OBVIOUS
<1>4. Constants /\ Walk(st, ret, res) /\ tree \in Trees
  BY <1>2 DEF EInv
<1>5. Pending \notin Error
  BY ErrorFacts
<1> SUFFICES Walk(new, answer, final)
  <2>1. Constants' /\ tree' \in Trees
    BY <1>1, <1>4, Steady
  <2>2. Walk(new, answer, final)'
    BY <1>1, Steady
  <2>3. Walk(stack, returned, result)'
    BY <1>3, <2>2
  <2> QED  BY <2>1, <2>3 DEF EInv
<1>6. CASE Validate
  <2>1. /\ st = << >> /\ ret = Pending /\ res = Pending /\ final = res
    BY <1>2, <1>3, <1>6 DEF Validate
  <2>2. IF Immediate(1) = Pending
        THEN /\ new = Append(st, [node |-> 1, todo |-> Agenda(1),
                                  called |-> 1, err |-> Nil])
             /\ answer = Pending
        ELSE new = st /\ answer = Immediate(1)
    BY <1>2, <1>3, <1>6, <2>1 DEF Validate, Evaluate
  <2>3. Waiting(st) /\ Answering(st) = 1
    BY <2>1 DEF Waiting, Chain, Answering
  <2>4. 1 \in Covered
    BY <1>4, CoveredIs DEF Constants
  <2> QED  BY <1>4, <2>1, <2>2, <2>3, <2>4, Evaluated
<1>7. CASE Call
  <2>1. st # << >> /\ ret = Pending /\ final = res
    BY <1>2, <1>3, <1>7 DEF Call
  <2>2. Working(st) /\ res = Pending
    BY <1>4, <1>5, <2>1 DEF Walk, Answered
  <2>3. PICK f : f = st[Len(st)]
    OBVIOUS
  <2>4. PICK i \in DOMAIN f.todo :
           Evaluate(f.todo[i],
                    [st EXCEPT ![Len(st)] =
                        [f EXCEPT !.called = f.todo[i],
                                  !.todo = RemoveAt(@, i)]])
    BY <1>2, <1>7, <2>3 DEF Call, Top
  <2>5. PICK g : g = [f EXCEPT !.called = f.todo[i], !.todo = RemoveAt(@, i)]
    OBVIOUS
  <2>6. /\ Chain(st) /\ Rests(f) /\ FrameInv(f) /\ st \in Seq(Frame)
        /\ \A k \in 1 .. (Len(st) - 1) : Waits(st[k])
    <3>1. /\ Chain(st) /\ Rests(f) /\ st \in Seq(Frame)
          /\ \A k \in 1 .. (Len(st) - 1) : Waits(st[k])
      BY <2>2, <2>3 DEF Working, Chain
    <3>2. Len(st) \in DOMAIN st
      BY <2>1, <3>1
    <3> QED  BY <2>3, <3>1, <3>2 DEF Chain
  <2>7. /\ FrameInv(g) /\ Waits(g) /\ g.node = f.node
        /\ g.called = f.todo[i] /\ g.called \in Covered
    BY <1>4, <2>5, <2>6, FrameCalls
  <2>8. PICK below : below = [st EXCEPT ![Len(st)] = g]
    OBVIOUS
  <2>9. Waiting(below) /\ Answering(below) = g.called
    BY <2>1, <2>3, <2>6, <2>7, <2>8, Replaced
  <2>10. [st EXCEPT ![Len(st)] = [f EXCEPT !.called = f.todo[i],
                                           !.todo = RemoveAt(@, i)]] = below
    BY <2>5, <2>8
  <2>11. PICK n : n = f.todo[i]
    OBVIOUS
  <2>12. Evaluate(n, below)
    BY <2>4, <2>10, <2>11
  <2>13. IF Immediate(n) = Pending
         THEN /\ new = Append(below, [node |-> n, todo |-> Agenda(n),
                                      called |-> n, err |-> Nil])
              /\ answer = Pending
         ELSE new = below /\ answer = Immediate(n)
    BY <1>2, <1>3, <2>1, <2>12 DEF Evaluate
  <2> QED  BY <1>4, <2>1, <2>2, <2>7, <2>9, <2>11, <2>13, Evaluated
<1>8. CASE Return
  <2>1. st # << >> /\ ret # Pending /\ final = res
    BY <1>2, <1>3, <1>8 DEF Return
  <2>2. Waiting(st) /\ Answered(ret, Answering(st)) /\ res = Pending
    BY <1>4, <2>1 DEF Walk
  <2>3. PICK f : f = st[Len(st)]
    OBVIOUS
  <2>4. PICK m : m = Merge(f.err, Located(f.called, ret))
    OBVIOUS
  <2>5. MergeReturned = m
    BY <1>2, <2>3, <2>4 DEF MergeReturned, Top
  <2>6. PICK g : g = [f EXCEPT !.err = m.err]
    OBVIOUS
  <2>7. /\ Chain(st) /\ Waits(f) /\ FrameInv(f) /\ st \in Seq(Frame)
        /\ Answering(st) = f.called
        /\ \A k \in 1 .. (Len(st) - 1) : Waits(st[k])
    <3>1. Chain(st) /\ st \in Seq(Frame) /\ \A k \in DOMAIN st : Waits(st[k])
      BY <2>2 DEF Waiting, Chain
    <3>2. Len(st) \in DOMAIN st /\ 1 .. (Len(st) - 1) \subseteq DOMAIN st
      BY <2>1, <3>1
    <3>3. FrameInv(f) /\ Waits(f)
      BY <2>3, <3>1, <3>2 DEF Chain
    <3>4. Answering(st) = f.called
      BY <2>1, <2>3 DEF Answering
    <3> QED  BY <3>1, <3>2, <3>3, <3>4
  <2>8. /\ m.go => FrameInv(g) /\ Rests(g) /\ g.node = f.node
        /\ ~m.go => Answered(m.err, f.node)
    BY <1>4, <2>2, <2>4, <2>6, <2>7, FrameMerges
  <2>9. CASE m.go
    <3>1. new = [st EXCEPT ![Len(st)] = g] /\ answer = Pending
      <4>1. Top = f
        BY <1>2, <2>3 DEF Top
      <4> QED  BY <1>2, <1>3, <1>8, <2>5, <2>6, <2>9, <4>1 DEF Return
    <3>2. Working(new)
      BY <2>1, <2>3, <2>7, <2>8, <2>9, <3>1, Replaced
    <3> QED  BY <2>1, <2>2, <3>1, <3>2 DEF Walk
  <2>10. CASE ~m.go
    <3>1. new = SubSeq(st, 1, Len(st) - 1) /\ answer = m.err
      BY <1>2, <1>3, <1>8, <2>5, <2>10 DEF Return
    <3>2. Waiting(new) /\ Answering(new) = f.node
      BY <2>1, <2>3, <2>7, <3>1, Popped
    <3> QED  BY <2>1, <2>2, <2>8, <2>10, <3>1, <3>2 DEF Walk
  <2> QED  BY <2>9, <2>10
<1>9. CASE Finish
  <2>1. st # << >> /\ ret = Pending /\ final = res
    BY <1>2, <1>3, <1>9 DEF Finish
  <2>2. Working(st) /\ res = Pending
    BY <1>4, <1>5, <2>1 DEF Walk, Answered
  <2>3. PICK f : f = st[Len(st)]
    OBVIOUS
  <2>4. f.todo = << >> /\ new = SubSeq(st, 1, Len(st) - 1) /\ answer = f.err
    BY <1>2, <1>3, <1>9, <2>3 DEF Finish, Top
  <2>5. /\ Chain(st) /\ Rests(f) /\ FrameInv(f)
        /\ \A k \in 1 .. (Len(st) - 1) : Waits(st[k])
    <3>1. /\ Chain(st) /\ Rests(f) /\ st \in Seq(Frame)
          /\ \A k \in 1 .. (Len(st) - 1) : Waits(st[k])
      BY <2>2, <2>3 DEF Working, Chain
    <3>2. Len(st) \in DOMAIN st
      BY <2>1, <3>1
    <3> QED  BY <2>3, <3>1, <3>2 DEF Chain
  <2>6. Answered(f.err, f.node)
    BY <1>4, <2>4, <2>5, FrameEnds
  <2>7. Waiting(new) /\ Answering(new) = f.node
    BY <2>1, <2>3, <2>4, <2>5, Popped
  <2> QED  BY <2>1, <2>2, <2>4, <2>6, <2>7 DEF Walk
<1>10. CASE Finalize
  <2>1. /\ st = << >> /\ ret # Pending /\ res = Pending
        /\ final = Finalized(ret) /\ new = st /\ answer = ret
    BY <1>2, <1>3, <1>10 DEF Finalize
  <2> QED  BY <1>4, <2>1 DEF Walk
<1>11. CASE UNCHANGED vars
  <2>1. new = st /\ answer = ret /\ final = res
    BY <1>2, <1>3, <1>11 DEF vars
  <2> QED  BY <1>4, <2>1
<1> QED  BY <1>6, <1>7, <1>8, <1>9, <1>10, <1>11 DEF Next

LEMMA Invariant == Spec => []EInv
BY InitInv, NextInv, PTL DEF Spec

-----------------------------------------------------------------------------
(* What Validate returns.                                                  *)

LEMMA FinalizedTells ==
    ASSUME NEW e \in Error
    PROVE  /\ Finalized(e) \in Error /\ Finalized(e).kind = e.kind
           /\ Len(Finalized(e).violations) = Len(e.violations)
           /\ DOMAIN Finalized(e).violations = DOMAIN e.violations
           /\ Of(Finalized(e)) = Of(e) /\ (Once(e) => Once(Finalized(e)))
           /\ \A i \in DOMAIN e.violations :
                 /\ Finalized(e).violations[i].of = e.violations[i].of
                 /\ Finalized(e).violations[i].path = Reverse(e.violations[i].path)
                 /\ Finalized(e).violations[i].forKey = e.violations[i].forKey
<1>1. PICK vs \in Seq(Violation) : vs = e.violations
  BY ErrorFacts
<1>2. PICK m \in Nat : m = Len(vs) /\ DOMAIN vs = 1 .. m
  OBVIOUS
<1> DEFINE ws == [i \in 1 .. m |-> [vs[i] EXCEPT !.path = Reverse(@)]]
<1>3. ASSUME NEW i \in 1 .. m
      PROVE  /\ ws[i] \in Violation /\ ws[i].of = vs[i].of
             /\ ws[i].path = Reverse(vs[i].path) /\ ws[i].forKey = vs[i].forKey
  <2>1. vs[i] \in Violation
    BY <1>2
  <2>2. vs[i].path \in Seq(Elements)
    BY <2>1 DEF Violation
  <2>3. PICK r \in Seq(Elements) : r = Reverse(vs[i].path)
    BY <2>2, ReverseIs
  <2>4. ws[i] = [vs[i] EXCEPT !.path = r]
    BY <2>3
  <2> HIDE DEF ws
  <2> QED  BY <2>1, <2>3, <2>4 DEF Violation
<1>4. ws \in Seq(Violation) /\ Len(ws) = m /\ DOMAIN ws = 1 .. m
  <2>1. ws \in [1 .. m -> Violation]
    BY <1>3
  <2> HIDE DEF ws
  <2> QED  BY <2>1
<1>5. Finalized(e) = [kind |-> e.kind, violations |-> ws]
  <2>1. e = [kind |-> e.kind, violations |-> e.violations]
    BY ErrorFacts
  <2>2. [i \in DOMAIN e.violations |->
            [e.violations[i] EXCEPT !.path = Reverse(@)]] = ws
    BY <1>1, <1>2
  <2>3. Finalized(e) = [e EXCEPT !.violations = ws]
    BY <2>2 DEF Finalized
  <2> HIDE DEF ws
  <2> QED  BY <2>1, <2>3
<1> HIDE DEF ws
<1>6. e.kind \in {"nil", "violations", "compile", "runtime"}
      /\ (e.kind = "violations" <=> vs # << >>)
  BY <1>1, ErrorFacts
<1>7. ws # << >> <=> vs # << >>
  BY <1>2, <1>4
<1>8. PICK f : f = Finalized(e)
  OBVIOUS
<1>9. f.kind = e.kind /\ f.violations = ws /\ f \in Error
  BY <1>4, <1>5, <1>6, <1>7, <1>8 DEF Error
<1>10. Of(f) = Of(e)
  BY <1>1, <1>2, <1>3, <1>4, <1>9 DEF Of
<1>11. Once(e) => Once(f)
  BY <1>1, <1>2, <1>3, <1>4, <1>9 DEF Once
<1> QED  BY <1>1, <1>2, <1>3, <1>4, <1>8, <1>9, <1>10, <1>11

LEMMA EmptyIs ==
    ASSUME NEW S, NEW s \in Seq(S)
    PROVE  /\ Len(s) \in Nat /\ s = << >> <=> Len(s) = 0
           /\ s = << >> <=> DOMAIN s = {}
<1>1. PICK m \in Nat : m = Len(s) /\ DOMAIN s = 1 .. m
  OBVIOUS
<1>2. s = << >> <=> m = 0
  BY <1>1
<1>3. 1 .. m = {} <=> m = 0
  <2>1. m # 0 => 1 \in 1 .. m
    BY <1>1
  <2>2. m = 0 => 1 .. m = {}
    OBVIOUS
  <2> QED  BY <2>1, <2>2
<1> QED  BY <1>1, <1>2, <1>3

(* When Validate has returned, the last call of Evaluate was the root's.   *)
LEMMA ResultIs ==
    ASSUME EInv, result # Pending
    PROVE  Answered(returned, 1) /\ result = Finalized(returned)
BY DEF EInv, Walk, Answering

(* Every variable has its type in every reachable state; in particular no  *)
(* evaluator returns a ValidationError without violations, which would     *)
(* stand for a valid message (message_oneof.go:52-80, program.go:80-84).   *)
THEOREM WalkTypes == Spec => []TypeOK
<1>1. EInv => TypeOK
  <2> SUFFICES ASSUME EInv PROVE TypeOK
    OBVIOUS
  <2>1. tree \in Trees /\ failFast \in BOOLEAN /\ rejects \subseteq DOMAIN tree
    BY DEF EInv, Constants, RejectsInv
  <2>2. stack \in Seq(Frame)
    <3>1. << >> \in Seq(Frame)
      OBVIOUS
    <3> QED  BY <3>1 DEF EInv, Walk, Working, Waiting, Chain
  <2>3. returned \in Error \cup {Pending}
    BY DEF EInv, Walk, Answered
  <2>4. result \in Error \cup {Pending}
    <3>1. result # Pending => returned \in Error /\ result = Finalized(returned)
      BY ResultIs DEF Answered
    <3> QED  BY <3>1, FinalizedTells
  <2> QED  BY <2>1, <2>2, <2>3, <2>4 DEF TypeOK
<1> QED  BY <1>1, Invariant, PTL

(* The root's verdict is about every node.                                 *)
LEMMA Judged ==
    ASSUME EInv, result # Pending
    PROVE  /\ result \in Error /\ Reported = Of(result) /\ failFast \in BOOLEAN
           /\ \/ result.kind \in {"compile", "runtime"} /\ Unable # {}
              \/ /\ result.kind \in {"nil", "violations"} /\ Unable = {}
                 /\ Of(result) = Faults /\ Once(result)
              \/ failFast /\ result.kind = "violations" /\ Of(result) \subseteq Faults
           /\ failFast => Len(result.violations) <= 1
<1>1. PICK e : e = returned
  OBVIOUS
<1>2. e \in Error /\ Verdict(e, 1) /\ result = Finalized(e)
  BY <1>1, ResultIs DEF Answered
<1>3. /\ result \in Error /\ result.kind = e.kind
      /\ Len(result.violations) = Len(e.violations)
      /\ Of(result) = Of(e) /\ (Once(e) => Once(result))
  BY <1>2, FinalizedTells
<1>4. IsTree /\ failFast \in BOOLEAN
  BY DEF EInv, Constants
<1>5. Faults \subseteq Below(1) /\ Unable \subseteq Below(1)
  BY <1>4, BelowRoot, CoveredIs DEF Faults, Unable
<1>6. Faults \cap Below(1) = Faults /\ Unable \cap Below(1) = Unable
  BY <1>5
<1>7. Reported = Of(result)
  BY DEF Reported, Of
<1> QED  BY <1>2, <1>3, <1>4, <1>6, <1>7 DEF Verdict, Tells

(* An error that has a violation for each node of a set has as many.       *)
LEMMA OnceCounts ==
    ASSUME NEW e \in Error, Once(e)
    PROVE  Len(e.violations) = Cardinality(Of(e))
<1>1. PICK vs \in Seq(Violation) : vs = e.violations
  BY ErrorFacts
<1>2. PICK m \in Nat : m = Len(vs) /\ DOMAIN vs = 1 .. m
  OBVIOUS
<1>3. PICK T : T = Of(e)
  OBVIOUS
<1>4. T = {vs[i].of : i \in 1 .. m}
  BY <1>1, <1>2, <1>3 DEF Of
<1>5. PICK f : f = [i \in 1 .. m |-> vs[i].of]
  OBVIOUS
<1>6. f \in [1 .. m -> T] /\ \A i \in 1 .. m : f[i] = vs[i].of
  BY <1>4, <1>5
<1>7. f \in Injection(1 .. m, T)
  <2>1. \A i, j \in 1 .. m : vs[i].of = vs[j].of => i = j
    BY <1>1, <1>2 DEF Once
  <2> QED  BY <1>6, <2>1 DEF Injection, IsInjective
<1>8. f \in Surjection(1 .. m, T)
  BY <1>4, <1>6 DEF Surjection
<1>9. ExistsBijection(1 .. m, T)
  BY <1>7, <1>8 DEF Bijection, ExistsBijection
<1>10. Cardinality(T) = m
  BY <1>9, FS_CountingElements
<1> QED  BY <1>1, <1>2, <1>3, <1>10

(* Without failFast a validation that can be finished reports each fault   *)
(* that the rules and the message call for exactly once, and nothing else, *)
(* whatever order a map is walked in and whatever the filter turns down;   *)
(* one that cannot says so (evaluator.go:33-43, 48-51; error_utils.go:     *)
(* 44-76).                                                                 *)
THEOREM EveryFaultOnce == Spec => []ReportsAll
<1>1. EInv => ReportsAll
  <2> SUFFICES ASSUME EInv, result # Pending, ~failFast
               PROVE  IF Unable # {} THEN result.kind \in {"compile", "runtime"}
                      ELSE /\ Reported = Faults
                           /\ Len(result.violations) = Cardinality(Faults)
                           /\ result.kind = IF Faults = {} THEN "nil" ELSE "violations"
    BY DEF ReportsAll
  <2>1. \/ result.kind \in {"compile", "runtime"} /\ Unable # {}
        \/ /\ result.kind \in {"nil", "violations"} /\ Unable = {}
           /\ Of(result) = Faults /\ Once(result)
    BY Judged
  <2>2. result \in Error /\ Reported = Of(result)
    BY Judged
  <2>3. CASE Unable = {}
    <3>1. /\ result.kind \in {"nil", "violations"}
          /\ Of(result) = Faults /\ Once(result)
      BY <2>1, <2>3
    <3>2. Len(result.violations) = Cardinality(Faults)
      BY <2>2, <3>1, OnceCounts
    <3>3. /\ result.kind = "violations" <=> result.violations # << >>
          /\ result.violations \in Seq(Violation)
      BY <2>2, ErrorFacts
    <3>4. result.violations # << >> <=> Of(result) # {}
      <4>1. result.violations # << >> <=> DOMAIN result.violations # {}
        BY <3>3, EmptyIs
      <4> QED  BY <4>1 DEF Of
    <3> QED  BY <2>2, <2>3, <3>1, <3>2, <3>3, <3>4
  <2> QED  BY <2>1, <2>3
<1> QED  BY <1>1, Invariant, PTL

(* The path of a violation leads from the root to where it was found, and  *)
(* it is marked as being of a key exactly if it was found in one: the      *)
(* elements that each caller appends, turned around at the end, are the    *)
(* way down (error_utils.go:78-136, field.go, map.go).                     *)
THEOREM PathsFromRoot == Spec => []PathsLead
<1>1. EInv => PathsLead
  <2> SUFFICES ASSUME EInv, result # Pending, NEW i \in DOMAIN result.violations
               PROVE  /\ result.violations[i].path = WayTo(result.violations[i].of)
                      /\ result.violations[i].forKey = InKey(result.violations[i].of)
    BY DEF PathsLead
  <2>1. PICK e : e = returned
    OBVIOUS
  <2>2. e \in Error /\ Leads(e, 1) /\ result = Finalized(e) /\ IsTree
    BY <2>1, ResultIs DEF Answered, EInv, Constants
  <2>3. PICK v, w : v = e.violations[i] /\ w = result.violations[i]
    OBVIOUS
  <2>4. /\ i \in DOMAIN e.violations /\ w.of = v.of
        /\ w.path = Reverse(v.path) /\ w.forKey = v.forKey
    BY <2>2, <2>3, FinalizedTells
  <2>5. v \in Violation
    <3>1. e.violations \in Seq(Violation)
      BY <2>2, ErrorFacts
    <3> QED  BY <2>3, <2>4, <3>1
  <2>6. PICK r \in Seq(Elements) : r = Reverse(v.path)
    BY <2>5, ReverseIs DEF Violation
  <2>7. WayTo(v.of) = << >> \o r /\ (InKey(v.of) <=> v.forKey \/ InKey(1))
    BY <2>2, <2>3, <2>4, <2>6, WayIs DEF Leads
  <2>8. ~InKey(1) /\ v.forKey \in BOOLEAN
    BY <2>2, <2>5, InKeyIs DEF Violation
  <2>9. << >> \o r = r
    OBVIOUS
  <2>10. InKey(v.of) \in BOOLEAN
    <3>1. /\ result \in Error
          /\ Of(result) \subseteq Faults \/ result.kind \in {"compile", "runtime"}
      BY Judged
    <3>2. result.violations # << >>
      <4>1. DOMAIN result.violations # {} /\ result.violations \in Seq(Violation)
        BY <3>1, ErrorFacts
      <4> QED  BY <4>1, EmptyIs
    <3>3. Of(result) \subseteq Faults
      BY <3>1, <3>2, ErrorFacts
    <3>4. v.of \in Faults
      BY <2>3, <2>4, <3>3 DEF Of
    <3>5. v.of \in DOMAIN tree
      BY <2>2, <3>4, CoveredIs DEF Faults
    <3> QED  BY <2>2, <3>5, InKeyIs
  <2> QED  BY <2>3, <2>4, <2>6, <2>7, <2>8, <2>9, <2>10
<1> QED  BY <1>1, Invariant, PTL

(* failFast never changes whether a message is valid: the first violation  *)
(* or fatal error ends the walk, but an answer of no error is given only   *)
(* when everything was asked (option.go:103-109, error_utils.go:44-76).    *)
THEOREM FailFastSameVerdict == Spec => []FailFastAgrees
<1>1. EInv => FailFastAgrees
  <2> SUFFICES ASSUME EInv, result # Pending, failFast
               PROVE  /\ result.kind = "nil" <=> Faults \cup Unable = {}
                      /\ result.kind \in {"compile", "runtime"} => Unable # {}
                      /\ Reported \subseteq Faults
    BY DEF FailFastAgrees
  <2>1. /\ result \in Error /\ Reported = Of(result)
        /\ \/ result.kind \in {"compile", "runtime"} /\ Unable # {}
           \/ /\ result.kind \in {"nil", "violations"} /\ Unable = {}
              /\ Of(result) = Faults
           \/ result.kind = "violations" /\ Of(result) \subseteq Faults
    BY Judged
  <2>2. /\ result.kind = "violations" <=> result.violations # << >>
        /\ result.violations \in Seq(Violation)
    BY <2>1, ErrorFacts
  <2>3. Of(result) # {} <=> result.kind = "violations"
    <3>1. result.violations # << >> <=> DOMAIN result.violations # {}
      BY <2>2, EmptyIs
    <3> QED  BY <2>2, <3>1 DEF Of
  <2> QED  BY <2>1, <2>3
<1> QED  BY <1>1, Invariant, PTL

(* With failFast exactly one violation is reported: the first one ends     *)
(* every call it passes through (option.go:103-109).                       *)
THEOREM FailFastFirst == Spec => []FailFastReportsOne
<1>1. EInv => FailFastReportsOne
  <2> SUFFICES ASSUME EInv, failFast, result.kind = "violations"
               PROVE  Len(result.violations) = 1
    BY DEF FailFastReportsOne
  <2>1. result # Pending
    BY DEF Pending
  <2>2. result \in Error /\ Len(result.violations) <= 1
    BY <2>1, Judged
  <2>3. result.violations \in Seq(Violation) /\ result.violations # << >>
    BY <2>2, ErrorFacts
  <2>4. Len(result.violations) \in Nat /\ Len(result.violations) # 0
    BY <2>3, EmptyIs
  <2>5. PICK m \in Nat : m = Len(result.violations)
    BY <2>4
  <2>6. m # 0 /\ m <= 1
    BY <2>2, <2>4, <2>5
  <2>7. m = 1
    BY <2>6
  <2> QED  BY <2>5, <2>7
<1> QED  BY <1>1, Invariant, PTL

==============================================================================
