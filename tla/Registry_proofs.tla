---------------------------- MODULE Registry_proofs ----------------------------
(***************************************************************************)
(* The safety of the tree of registries, for any files, any number of      *)
(* registries and any goroutines.                                          *)
(***************************************************************************)
EXTENDS Registry, TLAPS

-----------------------------------------------------------------------------
(* Chains of ancestors.                                                    *)

LEMMA ChainSelf ==
    ASSUME NEW p, NEW r \in Registries
    PROVE  r \in Chain(p, r)
  BY DEF Chain

LEMMA ChainRoot ==
    ASSUME NEW p, NEW r \in Registries, p[r] = 0
    PROVE  Chain(p, r) = {r}
<1>1. {r} \in SUBSET Registries /\ Ascends(p, {r})
  BY DEF Ascends
<1> QED
  BY <1>1, ChainSelf DEF Chain

LEMMA ChainStep ==
    ASSUME NEW p, NEW r \in Registries, p[r] \in Registries
    PROVE  Chain(p, r) = {r} \cup Chain(p, p[r])
<1>1. ASSUME NEW a \in Chain(p, r) PROVE a \in {r} \cup Chain(p, p[r])
  <2> SUFFICES ASSUME a # r,
                      NEW s \in SUBSET Registries, p[r] \in s, Ascends(p, s)
               PROVE  a \in s
    BY <1>1 DEF Chain
  <2>1. s \cup {r} \in SUBSET Registries /\ Ascends(p, s \cup {r})
    BY DEF Ascends
  <2> QED
    BY <1>1, <2>1 DEF Chain
<1>2. ASSUME NEW a \in Chain(p, p[r]) PROVE a \in Chain(p, r)
  <2> SUFFICES ASSUME NEW s \in SUBSET Registries, r \in s, Ascends(p, s)
               PROVE  a \in s
    BY <1>2 DEF Chain
  <2>1. p[r] # 0
    BY DEF Registries
  <2> QED
    BY <1>2, <2>1 DEF Chain, Ascends
<1> QED
  BY <1>1, <1>2, ChainSelf

LEMMA ChainBound ==
    ASSUME NEW n \in 0 .. MaxRegistries, NEW p,
           \A x \in 1 .. n : p[x] \in 0 .. x - 1,
           NEW r \in 1 .. n
    PROVE  Chain(p, r) \subseteq 1 .. r
<1>1. 1 .. r \in SUBSET Registries /\ r \in 1 .. r
  BY RegistryAssumption DEF Registries
<1>2. Ascends(p, 1 .. r)
  BY RegistryAssumption DEF Ascends
<1> QED
  BY <1>1, <1>2 DEF Chain

LEMMA ChainMonotone ==
    ASSUME NEW n \in 0 .. MaxRegistries, NEW p, NEW q,
           \A x \in 1 .. n : p[x] \in 0 .. x - 1 /\ q[x] = p[x],
           NEW r \in 1 .. n
    PROVE  Chain(p, r) \subseteq Chain(q, r)
<1> SUFFICES ASSUME NEW a \in Chain(p, r),
                    NEW s \in SUBSET Registries, r \in s, Ascends(q, s)
             PROVE  a \in s
  BY DEF Chain
<1> DEFINE t == s \cap (1 .. n)
<1>1. t \in SUBSET Registries /\ r \in t
  OBVIOUS
<1>2. Ascends(p, t)
  <2> SUFFICES ASSUME NEW x \in t PROVE p[x] \in t \cup {0}
    BY DEF Ascends
  <2>1. p[x] \in s \cup {0}
    BY DEF Ascends
  <2>2. p[x] \in 0 .. n
    OBVIOUS
  <2> QED
    BY <2>1, <2>2
<1> QED
  BY <1>1, <1>2 DEF Chain

LEMMA ChainStable ==
    ASSUME NEW n \in 0 .. MaxRegistries, NEW p, NEW q,
           \A x \in 1 .. n : p[x] \in 0 .. x - 1 /\ q[x] = p[x],
           NEW r \in 1 .. n
    PROVE  Chain(q, r) = Chain(p, r)
<1>1. Chain(p, r) \subseteq Chain(q, r)
  BY ChainMonotone
<1>2. \A x \in 1 .. n : q[x] \in 0 .. x - 1 /\ p[x] = q[x]
  OBVIOUS
<1>3. Chain(q, r) \subseteq Chain(p, r)
  BY ONLY <1>2, ChainMonotone, n \in 0 .. MaxRegistries, r \in 1 .. n
<1> QED
  BY <1>1, <1>3

LEMMA ChainWithin ==
    ASSUME NEW p, NEW s \in SUBSET Registries, Ascends(p, s), NEW r \in s
    PROVE  Chain(p, r) \subseteq s
  BY DEF Chain

-----------------------------------------------------------------------------
(* The inductive invariant.                                                *)

(* Parents are older; what is used descends from what is used; at most the *)
(* newest registry is under construction.                                  *)
Tree ==
    /\ \A r \in 1 .. count : parent[r] \in 0 .. r - 1
    /\ \A r \in Registries : r > count => known[r] = {} /\ local[r] = {}
    /\ \A r \in used : parent[r] \in used \cup {0}
    /\ building # 0 => /\ building = count
                       /\ building \notin used
                       /\ parent[building] \in used \cup {0}
                       /\ todo \subseteq asked[building]
    /\ building = 0 => todo = {}

Live == used \cup ({building} \ {0})

(* A registry in use or under construction has what it knows, whole, and   *)
(* nothing else, and knows what it was asked to or has an ancestor that    *)
(* does, except what is still to do.                                       *)
Whole(r) ==
    /\ \A f \in known[r] : \A t \in Message[f] : <<f, t>> \in local[r]
    /\ \A f \in Files : \A t \in Types :
            <<f, t>> \in local[r] => f \in known[r] /\ t \in Message[f]
    /\ known[r] \subseteq asked[r]
    /\ Pool(asked[r])
    /\ \A f \in asked[r] :
            \/ r = building /\ f \in todo
            \/ \E a \in Ancestors(r) : f \in known[a]

Complete == \A r \in Live : Whole(r)

(* What a reader has passed lies above where it is and has no definition.  *)
Passed(g) ==
    /\ at[g] \in used
    /\ Ancestors(at[g]) \subseteq Ancestors(asks[g].from)
    /\ \A u \in Ancestors(asks[g].from) :
           \/ u \in Ancestors(at[g])
           \/ u > at[g] /\ ~Has(u, asks[g].type, Wanted(asks[g]))

Reading ==
    \A g \in Readers :
        /\ pc[g] # "idle" => asks[g].from \in used
        /\ pc[g] = "looking" => Passed(g)

IInv == TypeOK /\ Tree /\ Complete /\ Reading /\ LookupExact

-----------------------------------------------------------------------------
(* What extending the tree leaves alone.                                   *)

LEMMA UsedClosed ==
    ASSUME TypeOK, Tree, NEW r \in used
    PROVE  /\ r \in Ancestors(r)
           /\ Ancestors(r) \subseteq used
           /\ Ancestors(r) \subseteq 1 .. r
<1>1. used \in SUBSET Registries /\ Ascends(parent, used)
  BY RegistryAssumption DEF TypeOK, Tree, Ascends, Registries
<1>2. r \in 1 .. count /\ count \in 0 .. MaxRegistries
  BY DEF TypeOK
<1>3. \A x \in 1 .. count : parent[x] \in 0 .. x - 1
  BY DEF Tree
<1>4. Chain(parent, r) \subseteq 1 .. r
  BY <1>2, <1>3, ChainBound
<1> QED
  BY <1>1, <1>4, ChainSelf, ChainWithin DEF Ancestors

LEMMA AncestorsKept ==
    ASSUME TypeOK, Tree, \A r \in 1 .. count : parent'[r] = parent[r],
           NEW r \in 1 .. count
    PROVE  Ancestors(r)' = Ancestors(r)
  BY ChainStable DEF Ancestors, TypeOK, Tree

(* The readers do not notice what happens to registries not yet used.      *)
LEMMA ReadersKeep ==
    ASSUME TypeOK, Tree, Reading, LookupExact,
           UNCHANGED readers,
           used \subseteq used',
           \A r \in 1 .. count : parent'[r] = parent[r],
           \A r \in used : local'[r] = local[r]
    PROVE  Reading' /\ LookupExact'
<1>1. \A r \in used : /\ Ancestors(r)' = Ancestors(r)
                      /\ Ancestors(r) \subseteq used
  BY UsedClosed, AncestorsKept DEF TypeOK
<1>2. \A r \in used : \A t, fs : Has(r, t, fs)' = Has(r, t, fs)
  BY DEF Has
<1>3. ASSUME NEW g \in Readers, Passed(g), asks[g].from \in used PROVE Passed(g)'
  BY <1>1, <1>2, <1>3 DEF Passed, readers
<1>4. Reading'
  BY <1>3 DEF Reading, readers
<1>5. \A r \in used : \A t, fs : Seen(r, t, fs)' = Seen(r, t, fs)
  BY <1>1, <1>2 DEF Seen
<1>6. LookupExact'
  BY <1>5 DEF LookupExact, Reading, readers
<1> QED
  BY <1>4, <1>6

(* What holds of a used registry is kept as well.                          *)
LEMMA WholeKept ==
    ASSUME TypeOK, Tree, Complete,
           \A r \in 1 .. count : parent'[r] = parent[r],
           \A r \in used : /\ local'[r] = local[r]
                           /\ known'[r] = known[r]
                           /\ asked'[r] = asked[r],
           NEW r \in used
    PROVE  Whole(r)'
<1>1. /\ Ancestors(r)' = Ancestors(r)
      /\ Ancestors(r) \subseteq used
  BY UsedClosed, AncestorsKept DEF TypeOK
<1>2. r # building
  BY DEF Tree, TypeOK
<1>3. Whole(r)
  BY DEF Complete, Live
<1> QED
  BY <1>1, <1>2, <1>3 DEF Whole, Pool

-----------------------------------------------------------------------------
(* The steps of an extension.                                              *)

LEMMA InitIInv == Init => IInv
<1> SUFFICES ASSUME Init PROVE IInv
  OBVIOUS
<1>1. TypeOK
  BY RegistryAssumption DEF Init, TypeOK, Registries
<1>2. Tree
  BY RegistryAssumption DEF Init, Tree, Registries
<1>3. Complete
  BY DEF Init, Complete, Live
<1>4. Reading /\ LookupExact
  BY DEF Init, Reading, LookupExact
<1> QED
  BY <1>1, <1>2, <1>3, <1>4 DEF IInv

LEMMA MakeKeeps ==
    ASSUME IInv, NEW p \in used \cup {0}, NEW fs \in SUBSET Files, Pool(fs),
           Make(p, fs)
    PROVE  IInv'
<1> USE DEF IInv
<1>1. TypeOK'
  BY RegistryAssumption DEF TypeOK, Make, readers, Registries
<1>2. Tree'
  BY RegistryAssumption DEF Tree, TypeOK, Make, Registries
<1>3. \A r \in 1 .. count : parent'[r] = parent[r] /\ asked'[r] = asked[r]
  BY RegistryAssumption DEF TypeOK, Make, Registries
<1>4. Complete'
  <2>1. \A r \in used : Whole(r)'
    BY <1>3, WholeKept DEF Make, TypeOK
  <2>2. ASSUME NEW r, r = count + 1 PROVE Whole(r)'
    <3>1. /\ r \in Registries /\ r > count
          /\ asked'[r] = fs /\ building' = r /\ todo' = fs
      BY <2>2, RegistryAssumption DEF TypeOK, Make, Registries
    <3>2. known'[r] = {} /\ local'[r] = {}
      BY <3>1 DEF Tree, Make
    <3> QED
      BY ONLY <3>1, <3>2, Pool(fs) DEF Whole, Pool
  <2>3. Live' = used \cup {count + 1}
    BY DEF Live, Make, TypeOK
  <2> QED
    BY <2>1, <2>2, <2>3 DEF Complete
<1>5. Reading' /\ LookupExact'
  BY <1>3, ReadersKeep DEF Make
<1> QED
  BY <1>1, <1>2, <1>4, <1>5

(* A registration writes the newest registry only, which is not yet used.  *)
LEMMA RegisterKeeps ==
    ASSUME IInv, RegisterDescriptor
    PROVE  IInv'
<1> USE DEF IInv
<1>1. PICK f \in todo :
          /\ todo' = todo \ {f}
          /\ IF \E r \in Ancestors(building) : f \in known[r]
             THEN UNCHANGED <<known, local>>
             ELSE /\ known' = [known EXCEPT ![building] = @ \cup {f}]
                  /\ local' = [local EXCEPT ![building] = @ \cup ({f} \X Message[f])]
          /\ UNCHANGED <<count, parent, asked, building, used, readers>>
  BY DEF RegisterDescriptor
<1> DEFINE b == building
<1>2. /\ b # 0 /\ b = count /\ b \in Registries /\ b \notin used
      /\ todo \subseteq asked[b] /\ f \in Files /\ Message[f] \in SUBSET Types
  BY <1>1, RegistryAssumption DEF Tree, TypeOK, Registries
<1>3. \A r \in Registries \ {b} : known'[r] = known[r] /\ local'[r] = local[r]
  BY <1>1 DEF TypeOK
<1>4. TypeOK'
  BY <1>1, <1>2 DEF TypeOK, readers
<1>5. Tree'
  BY <1>1, <1>2, <1>3, RegistryAssumption DEF Tree, TypeOK, Registries
<1>6. Whole(b)
  BY <1>2 DEF Complete, Live
<1>7. /\ Ancestors(b)' = Ancestors(b)
      /\ b \in Ancestors(b)
  BY <1>1, <1>2, AncestorsKept, ChainSelf DEF Ancestors, Registries, TypeOK
<1>8. Whole(b)'
  <2>1. CASE \E r \in Ancestors(b) : f \in known[r]
    BY <1>1, <1>6, <1>7, <2>1 DEF Whole, Pool
  <2>2. CASE ~ \E r \in Ancestors(b) : f \in known[r]
    <3>1. /\ known'[b] = known[b] \cup {f}
          /\ local'[b] = local[b] \cup ({f} \X Message[f])
      BY <1>1, <1>2, <2>2 DEF TypeOK
    <3>2. \A a \in Ancestors(b) : known[a] \subseteq known'[a]
      BY <1>3, <3>1 DEF Ancestors, Chain
    <3>3. /\ known'[b] \subseteq asked[b]
          /\ Pool(asked[b])
      BY <1>1, <1>2, <1>6, <3>1 DEF Whole
    <3>4. \A g \in known'[b] : \A t \in Message[g] : <<g, t>> \in local'[b]
      BY <1>6, <3>1 DEF Whole
    <3>5. \A g \in Files : \A t \in Types :
              <<g, t>> \in local'[b] => g \in known'[b] /\ t \in Message[g]
      BY <1>6, <3>1 DEF Whole
    <3>6. ASSUME NEW g \in asked[b]
          PROVE  g \in todo' \/ \E a \in Ancestors(b) : g \in known'[a]
      BY <1>1, <1>6, <1>7, <3>1, <3>2 DEF Whole
    <3> QED
      BY <1>1, <1>7, <3>3, <3>4, <3>5, <3>6 DEF Whole, Pool
  <2> QED
    BY <2>1, <2>2
<1>9. Complete'
  <2>1. \A r \in used : r \in Registries \ {b}
    BY <1>2, RegistryAssumption DEF TypeOK, Registries
  <2>2. \A r \in used : Whole(r)'
    BY <1>1, <1>3, <2>1, WholeKept
  <2> QED
    BY <1>1, <1>8, <2>2 DEF Complete, Live
<1>10. Reading' /\ LookupExact'
  <2>1. \A r \in used : local'[r] = local[r]
    BY <1>2, <1>3, RegistryAssumption DEF TypeOK, Registries
  <2> QED
    BY <1>1, <2>1, ReadersKeep
<1> QED
  BY <1>4, <1>5, <1>9, <1>10

LEMMA ExtendFailsKeeps ==
    ASSUME IInv, ExtendFails
    PROVE  IInv'
<1> USE DEF IInv
<1>1. PICK f \in todo : \E ts \in SUBSET Message[f] :
          /\ known' = [known EXCEPT ![building] = @ \cup {f}]
          /\ local' = [local EXCEPT ![building] = @ \cup ({f} \X ts)]
          /\ building' = 0
          /\ todo' = {}
          /\ UNCHANGED <<count, parent, asked, used, readers>>
  BY DEF ExtendFails
<1>2. PICK ts \in SUBSET Message[f] :
          /\ known' = [known EXCEPT ![building] = @ \cup {f}]
          /\ local' = [local EXCEPT ![building] = @ \cup ({f} \X ts)]
          /\ building' = 0
          /\ todo' = {}
          /\ UNCHANGED <<count, parent, asked, used, readers>>
  BY <1>1
<1> DEFINE b == building
<1>3. /\ b # 0 /\ b = count /\ b \in Registries /\ b \notin used
      /\ f \in Files /\ ts \in SUBSET Types
  BY RegistryAssumption DEF Tree, TypeOK, Registries
<1>4. \A r \in Registries \ {b} : known'[r] = known[r] /\ local'[r] = local[r]
  BY <1>2 DEF TypeOK
<1>5. TypeOK'
  BY <1>2, <1>3 DEF TypeOK, readers
<1>6. Tree'
  BY <1>2, <1>3, <1>4, RegistryAssumption DEF Tree, TypeOK, Registries
<1>7. \A r \in used : known'[r] = known[r] /\ local'[r] = local[r]
  BY <1>3, <1>4, RegistryAssumption DEF TypeOK, Registries
<1>8. Complete'
  <2>1. \A r \in used : Whole(r)'
    BY <1>2, <1>7, WholeKept
  <2> QED
    BY <1>2, <2>1 DEF Complete, Live
<1>9. Reading' /\ LookupExact'
  BY <1>2, <1>7, ReadersKeep
<1> QED
  BY <1>5, <1>6, <1>8, <1>9

LEMMA HandOutKeeps ==
    ASSUME IInv, HandOut
    PROVE  IInv'
<1> USE DEF IInv, HandOut, tree
<1>1. TypeOK'
  BY DEF TypeOK, readers, Tree
<1>2. Tree'
  BY DEF Tree, TypeOK
<1>3. Complete'
  <2>1. Live' = Live
    BY DEF Live, TypeOK
  <2>2. \A r \in 1 .. count : Ancestors(r)' = Ancestors(r)
    BY DEF Ancestors
  <2>3. ASSUME NEW r \in Live PROVE Whole(r)'
    <3>1. Whole(r) /\ r \in 1 .. count
      BY DEF Complete, Live, TypeOK
    <3> QED
      BY <2>2, <3>1 DEF Whole, Pool
  <2> QED
    BY <2>1, <2>3 DEF Complete
<1>4. Reading' /\ LookupExact'
  BY ReadersKeep
<1> QED
  BY <1>1, <1>2, <1>3, <1>4

-----------------------------------------------------------------------------
(* The steps of a lookup.                                                  *)

(* They leave the tree as it is.                                           *)
LEMMA TreeKept ==
    ASSUME Tree, Complete, UNCHANGED <<tree, building, todo, used>>
    PROVE  Tree' /\ Complete'
<1>1. Tree'
  BY DEF Tree, tree
<1>2. Live' = Live
  BY DEF Live
<1>3. \A r : Ancestors(r)' = Ancestors(r)
  BY DEF Ancestors, tree
<1>4. ASSUME NEW r \in Live PROVE Whole(r)'
  <2>1. Whole(r)
    BY DEF Complete
  <2> QED
    BY <1>3, <2>1 DEF Whole, Pool, tree
<1> QED
  BY <1>1, <1>2, <1>4 DEF Complete

(* A reader's own part of the invariant.                                   *)
Reader(g) ==
    /\ pc[g] # "idle" => asks[g].from \in used
    /\ pc[g] = "looking" => Passed(g)
    /\ pc[g] = "answered" =>
           answer[g] = Seen(asks[g].from, asks[g].type, Wanted(asks[g]))

LEMMA OthersKeep ==
    ASSUME IInv, UNCHANGED <<tree, building, todo, used>>, TypeOK',
           NEW g \in Readers, Reader(g)',
           \A h \in Readers \ {g} : /\ pc'[h] = pc[h] /\ asks'[h] = asks[h]
                                    /\ at'[h] = at[h] /\ answer'[h] = answer[h]
    PROVE  IInv'
<1>1. Tree' /\ Complete'
  BY TreeKept DEF IInv
<1>2. ASSUME NEW h \in Readers \ {g} PROVE Reader(h)'
  <2>1. Reader(h)
    BY DEF IInv, Reading, LookupExact, Reader
  <2>2. /\ \A r : Ancestors(r)' = Ancestors(r)
        /\ \A r, t, fs : Has(r, t, fs)' = Has(r, t, fs)
        /\ \A r, t, fs : Seen(r, t, fs)' = Seen(r, t, fs)
    BY DEF Ancestors, Has, Seen, tree
  <2>3. Passed(h) <=> Passed(h)'
    BY <2>2 DEF Passed
  <2> QED
    BY <2>1, <2>2, <2>3 DEF Reader
<1>3. Reading' /\ LookupExact'
  BY <1>2 DEF Reading, LookupExact, Reader
<1> QED
  BY <1>1, <1>3 DEF IInv

LEMMA AskKeeps ==
    ASSUME IInv, NEW g \in Readers, Ask(g)
    PROVE  IInv'
<1>1. PICK q \in Question :
          /\ q.from \in used
          /\ asks' = [asks EXCEPT ![g] = q]
          /\ at' = [at EXCEPT ![g] = q.from]
  BY DEF Ask
<1>2. UNCHANGED <<tree, building, todo, used>>
  BY DEF Ask
<1>3. /\ pc'[g] = "looking" /\ asks'[g] = q /\ at'[g] = q.from
      /\ \A h \in Readers \ {g} : /\ pc'[h] = pc[h] /\ asks'[h] = asks[h]
                                   /\ at'[h] = at[h] /\ answer'[h] = answer[h]
  BY <1>1 DEF Ask, IInv, TypeOK
<1>4. TypeOK'
  <2>1. q.from \in Registries /\ Registries \subseteq 0 .. MaxRegistries
    BY RegistryAssumption DEF Question, Registries
  <2> QED
    BY <1>1, <1>2, <2>1, Zenon DEF Ask, IInv, TypeOK, tree
<1>5. Reader(g)'
  BY <1>1, <1>2, <1>3 DEF Reader, Passed
<1> QED
  BY <1>2, <1>3, <1>4, <1>5, OthersKeep

(* Where a lookup that has not ended may stand.                            *)
LEMMA Standing ==
    ASSUME IInv, NEW g \in Readers, pc[g] = "looking"
    PROVE  /\ at[g] \in Ancestors(at[g])
           /\ Ancestors(at[g]) \subseteq 1 .. at[g]
           /\ Ancestors(at[g]) \subseteq Ancestors(asks[g].from)
           /\ Ancestors(asks[g].from) \subseteq used
           /\ used \subseteq Registries
           /\ asks[g].from \in used /\ at[g] \in used
<1>1. Passed(g) /\ asks[g].from \in used
  BY DEF IInv, Reading
<1>2. used \subseteq Registries
  BY RegistryAssumption DEF IInv, TypeOK, Registries
<1> QED
  BY <1>1, <1>2, UsedClosed DEF IInv, Passed

(* The first registry with a definition has the one that is seen.          *)
LEMMA FoundIsSeen ==
    ASSUME IInv, NEW g \in Readers, pc[g] = "looking", Local(at[g], asks[g]) # {}
    PROVE  Local(at[g], asks[g]) = Seen(asks[g].from, asks[g].type, Wanted(asks[g]))
<1> DEFINE c == at[g]
           t == asks[g].type
           fs == Wanted(asks[g])
           above == Ancestors(asks[g].from)
<1>1. Local(c, asks[g]) =
         {f \in Files : <<f, t>> \in local[c] /\ fs \subseteq FieldsOf[f][t]}
  BY DEF Local
<1>2. c \in above /\ Ancestors(c) \subseteq 1 .. c /\ above \subseteq Registries
  BY Standing
<1>3. \A u \in above : u \in Ancestors(c) \/ (u > c /\ ~Has(u, t, fs))
  BY DEF IInv, Reading, Passed
<1>4. Has(c, t, fs)
  BY <1>1 DEF Has
<1>5. /\ c \in Int /\ \A u \in above : u \in Int
      /\ \A u \in Ancestors(c) : u <= c
  BY <1>2, RegistryAssumption DEF Registries
<1>6. ASSUME NEW f \in Files, <<f, t>> \in local[c], fs \subseteq FieldsOf[f][t]
      PROVE  f \in Seen(asks[g].from, t, fs)
  <2>1. \A u \in above : u > c => ~Has(u, t, fs)
    <3>1. ASSUME NEW u \in above, u > c PROVE u \notin Ancestors(c)
      BY <1>5, <3>1
    <3> QED
      BY <1>3, <3>1
  <2> QED
    BY <1>2, <1>6, <2>1 DEF Seen, Has
<1>7. ASSUME NEW f \in Seen(asks[g].from, t, fs)
      PROVE  <<f, t>> \in local[c] /\ fs \subseteq FieldsOf[f][t]
  <2>1. PICK s \in above : /\ <<f, t>> \in local[s] /\ fs \subseteq FieldsOf[f][t]
                           /\ \A u \in above : u > s => ~Has(u, t, fs)
    BY <1>7 DEF Seen
  <2>2. Has(s, t, fs) /\ f \in Files
    BY <1>7, <2>1 DEF Seen, Has
  <2>3. s \in Ancestors(c)
    BY <1>3, <2>2
  <2>4. s <= c /\ ~(c > s)
    BY <1>2, <1>4, <1>5, <2>1, <2>3
  <2>5. s = c
    <3>1. s \in Int /\ c \in Int
      BY <1>5, <2>1
    <3> QED
      BY ONLY <2>4, <3>1
  <2> QED
    BY <2>1, <2>5
<1> QED
  BY <1>1, <1>6, <1>7 DEF Seen

(* If the root has none either there is nothing to be seen.                *)
LEMMA NothingSeen ==
    ASSUME IInv, NEW g \in Readers, pc[g] = "looking",
           Local(at[g], asks[g]) = {}, parent[at[g]] = 0
    PROVE  Seen(asks[g].from, asks[g].type, Wanted(asks[g])) = {}
<1>1. Ancestors(at[g]) = {at[g]}
  BY Standing, ChainRoot DEF Ancestors
<1>2. ~Has(at[g], asks[g].type, Wanted(asks[g]))
  BY DEF Local, Has
<1>3. \A u \in Ancestors(asks[g].from) : ~Has(u, asks[g].type, Wanted(asks[g]))
  BY <1>1, <1>2 DEF IInv, Reading, Passed
<1> QED
  BY <1>3 DEF Seen, Has

(* The walk goes on with nothing passed over.                              *)
LEMMA StepPassed ==
    ASSUME IInv, NEW g \in Readers, pc[g] = "looking",
           Local(at[g], asks[g]) = {}, parent[at[g]] # 0,
           UNCHANGED <<tree, used, asks>>, at'[g] = parent[at[g]]
    PROVE  Passed(g)'
<1> DEFINE c == at[g]
           q == asks[g]
           n == parent[c]
<1>1. c \in used /\ Ancestors(q.from) \subseteq used /\ used \subseteq Registries
  BY Standing
<1>2. n \in used /\ n < c /\ n \in Registries /\ Registries \subseteq Int
  BY <1>1 DEF IInv, Tree, TypeOK, Registries
<1>3. Ancestors(c) = {c} \cup Ancestors(n)
  BY <1>1, <1>2, ChainStep DEF Ancestors
<1>4. Ancestors(n) \subseteq Ancestors(q.from)
  BY <1>3, Standing
<1>5. ASSUME NEW u \in Ancestors(q.from), u \notin Ancestors(n)
      PROVE  u > n /\ ~Has(u, q.type, Wanted(q))
  <2>1. ~Has(c, q.type, Wanted(q))
    BY <1>5 DEF Local, Has
  <2>2. u \in Ancestors(c) \/ (u > c /\ ~Has(u, q.type, Wanted(q)))
    BY <1>5 DEF IInv, Reading, Passed
  <2>3. CASE u \in Ancestors(c)
    BY <1>2, <1>3, <1>5, <2>1, <2>3
  <2>4. CASE u > c /\ ~Has(u, q.type, Wanted(q))
    <3>1. u \in Int /\ c \in Int /\ n \in Int
      BY <1>1, <1>2, <1>5
    <3>2. u > n
      BY ONLY <1>2, <2>4, <3>1
    <3> QED
      BY <2>4, <3>2
  <2> QED
    BY <2>2, <2>3, <2>4
<1>6. /\ \A r : Ancestors(r)' = Ancestors(r)
      /\ \A r, t, fs : Has(r, t, fs)' = Has(r, t, fs)
  BY DEF Ancestors, Has, tree
<1> QED
  BY <1>2, <1>4, <1>5, <1>6 DEF Passed

LEMMA LookKeeps ==
    ASSUME IInv, NEW g \in Readers, Look(g)
    PROVE  IInv'
<1> DEFINE found == Local(at[g], asks[g])
           next == parent[at[g]]
<1>1. /\ pc[g] = "looking"
      /\ UNCHANGED <<tree, building, todo, used, asks>>
      /\ IF found # {} \/ next = 0
         THEN /\ answer' = [answer EXCEPT ![g] = found]
              /\ pc' = [pc EXCEPT ![g] = "answered"]
              /\ UNCHANGED at
         ELSE /\ at' = [at EXCEPT ![g] = next]
              /\ UNCHANGED <<answer, pc>>
  BY DEF Look, Delegate
<1>2. /\ asks[g].from \in used
      /\ \A r, t, fs : Seen(r, t, fs)' = Seen(r, t, fs)
  BY <1>1, Standing DEF Seen, Has, Ancestors, tree
<1>3. CASE found # {} \/ next = 0
  <2> HIDE DEF found, next
  <2>1. /\ pc'[g] = "answered" /\ answer'[g] = found
        /\ \A h \in Readers \ {g} : /\ pc'[h] = pc[h] /\ asks'[h] = asks[h]
                                     /\ at'[h] = at[h] /\ answer'[h] = answer[h]
    BY <1>1, <1>3 DEF IInv, TypeOK
  <2>2. TypeOK'
    <3>1. found \in SUBSET Files
      BY DEF found, Local
    <3> QED
      BY <1>1, <1>3, <3>1 DEF IInv, TypeOK, tree
  <2>3. found = Seen(asks[g].from, asks[g].type, Wanted(asks[g]))
    BY <1>1, <1>3, FoundIsSeen, NothingSeen DEF found, next
  <2>4. Reader(g)'
    BY <1>1, <1>2, <2>1, <2>3 DEF Reader
  <2> QED
    BY <1>1, <2>1, <2>2, <2>4, OthersKeep
<1>4. CASE found = {} /\ next # 0
  <2>1. /\ pc'[g] = "looking" /\ at'[g] = next
        /\ \A h \in Readers \ {g} : /\ pc'[h] = pc[h] /\ asks'[h] = asks[h]
                                     /\ at'[h] = at[h] /\ answer'[h] = answer[h]
    BY <1>1, <1>4 DEF IInv, TypeOK
  <2>2. Passed(g)'
    BY <1>1, <1>4, <2>1, StepPassed
  <2>3. TypeOK'
    <3>1. next \in 1 .. count /\ next \in 0 .. MaxRegistries
      BY <1>1, <1>4, Standing DEF IInv, Tree, TypeOK
    <3> HIDE DEF found, next
    <3> QED
      BY <1>1, <1>4, <3>1 DEF IInv, TypeOK, tree
  <2>4. Reader(g)'
    BY <1>1, <1>2, <2>1, <2>2 DEF Reader
  <2> QED
    BY <1>1, <2>1, <2>3, <2>4, OthersKeep
<1> QED
  BY <1>3, <1>4

LEMMA ReturnKeeps ==
    ASSUME IInv, NEW g \in Readers, Return(g)
    PROVE  IInv'
<1>1. /\ pc'[g] = "idle" /\ asks' = asks /\ at' = at /\ answer' = answer
      /\ \A h \in Readers \ {g} : pc'[h] = pc[h]
      /\ UNCHANGED <<tree, building, todo, used>>
  BY DEF Return, IInv, TypeOK
<1>2. TypeOK'
  BY DEF Return, IInv, TypeOK, tree
<1>3. Reader(g)'
  BY <1>1 DEF Reader
<1> QED
  BY <1>1, <1>2, <1>3, OthersKeep

-----------------------------------------------------------------------------
(* The theorems.                                                           *)

LEMMA StepIInv ==
    ASSUME IInv, [Next]_vars
    PROVE  IInv'
<1>1. CASE NewRegistry
  <2>1. 0 \in used \cup {0} /\ GlobalFiles \in SUBSET Files /\ Pool(GlobalFiles)
    BY RegistryAssumption
  <2> QED
    BY <1>1, <2>1, MakeKeeps DEF NewRegistry
<1>2. CASE Extend
  BY <1>2, MakeKeeps DEF Extend
<1>3. CASE RegisterDescriptor
  BY <1>3, RegisterKeeps
<1>4. CASE ExtendFails
  BY <1>4, ExtendFailsKeeps
<1>5. CASE HandOut
  BY <1>5, HandOutKeeps
<1>6. CASE \E g \in Readers : Ask(g) \/ Look(g) \/ Return(g)
  BY <1>6, AskKeeps, LookKeeps, ReturnKeeps
<1>7. CASE UNCHANGED vars
  <2>1. TypeOK'
    BY <1>7 DEF IInv, TypeOK, vars, tree, readers
  <2>2. Tree' /\ Complete'
    BY <1>7, TreeKept DEF IInv, vars
  <2>3. Reading' /\ LookupExact'
    BY <1>7, ReadersKeep DEF IInv, vars, tree
  <2> QED
    BY <2>1, <2>2, <2>3 DEF IInv
<1> QED
  BY <1>1, <1>2, <1>3, <1>4, <1>5, <1>6, <1>7 DEF Next

LEMMA AlwaysIInv == Spec => []IInv
  BY InitIInv, StepIInv, PTL DEF Spec

(* Every variable keeps its type; no walk stands at a missing parent.      *)
THEOREM TypeCorrect == Spec => []TypeOK
<1>1. IInv => TypeOK
  BY DEF IInv
<1> QED
  BY <1>1, AlwaysIInv, PTL

(* A lookup ends with the one definition its environment sees, wherever in *)
(* the tree it began and whatever was extended meanwhile                   *)
(* (registry.go:74-82, 96-159).                                            *)
THEOREM LookupsExact == Spec => []LookupExact
<1>1. IInv => LookupExact
  BY DEF IInv
<1> QED
  BY <1>1, AlwaysIInv, PTL

(* What a registry in use knows it has whole, so that skipping a known     *)
(* file is right (registry.go:189-200).                                    *)
THEOREM KnownIsRegistered == Spec => []KnownRegistered
<1>1. IInv => KnownRegistered
  <2> SUFFICES ASSUME IInv, NEW r \in used, NEW f \in known[r]
               PROVE  {f} \X Message[f] \subseteq local[r]
    BY DEF KnownRegistered
  <2>1. Whole(r)
    BY DEF IInv, Complete, Live
  <2> QED
    BY <2>1 DEF Whole
<1> QED
  BY <1>1, AlwaysIInv, PTL

(* An environment that extends the root sees the very types it was         *)
(* extended with (registry.go:189-200).                                    *)
THEOREM OwnTypesAreSeen == Spec => []OwnTypesSeen
<1>1. IInv => OwnTypesSeen
  <2> SUFFICES ASSUME IInv, NEW r \in used, parent[r] \in {0, 1},
                      NEW f \in asked[r], NEW t \in Message[f]
               PROVE  Seen(r, t, {}) = {f}
    BY DEF OwnTypesSeen
  <2>1. /\ Whole(r) /\ r \in Registries /\ r # building
        /\ f \in Files /\ t \in Types
    BY RegistryAssumption DEF IInv, Complete, Live, TypeOK, Tree, Registries
  <2>2. PICK a \in Ancestors(r) : f \in known[a]
    BY <2>1 DEF Whole
  <2>3. /\ a \in used /\ Whole(a) /\ <<f, t>> \in local[a]
    BY <2>1, <2>2, UsedClosed DEF IInv, Complete, Live, Whole
  <2>4. ASSUME NEW s \in {r, a}, NEW g \in Files, <<g, t>> \in local[s]
        PROVE  g = f
    <3>1. Whole(s) /\ g \in asked[s] /\ t \in Message[g]
      BY <2>1, <2>3, <2>4 DEF Whole
    <3>2. f \in asked[s]
      BY <2>2, <2>3 DEF Whole
    <3>3. Pool(asked[s])
      BY <3>1 DEF Whole
    <3> QED
      BY <3>1, <3>2, <3>3 DEF Pool
  <2>5. Ancestors(r) \subseteq {r, 1} /\ r \in Ancestors(r) /\ r >= 1
    <3>1. CASE parent[r] = 0
      BY <2>1, <3>1, ChainRoot DEF Ancestors, Registries
    <3>2. CASE parent[r] = 1
      <4>1. 1 \in used /\ parent[1] = 0 /\ 1 \in Registries
        <5>1. 1 \in used
          BY <3>2 DEF IInv, Tree
        <5>2. 1 \in 1 .. count /\ 1 \in Registries
          BY <5>1, RegistryAssumption DEF IInv, TypeOK, Registries
        <5>3. parent[1] \in 0 .. 1 - 1
          BY <5>2 DEF IInv, Tree
        <5> QED
          BY <5>1, <5>2, <5>3
      <4>2. Chain(parent, r) = {r} \cup {1}
        BY <2>1, <3>2, <4>1, ChainRoot, ChainStep
      <4> QED
        BY <2>1, <4>2 DEF Ancestors, Registries
    <3> QED
      BY <3>1, <3>2
  <2>6. f \in Seen(r, t, {})
    <3>1. CASE Has(r, t, {})
      <4>1. <<f, t>> \in local[r]
        BY <2>4, <3>1 DEF Has
      <4>2. \A u \in Ancestors(r) : ~(u > r)
        BY <2>1, <2>5 DEF Registries
      <4> QED
        BY <2>1, <2>5, <4>1, <4>2 DEF Seen
    <3>2. CASE ~Has(r, t, {})
      <4>1. \A u \in Ancestors(r) : u > a => ~Has(u, t, {})
        BY <2>1, <2>2, <2>5, <3>2 DEF Registries
      <4> QED
        BY <2>1, <2>2, <2>3, <4>1 DEF Seen, Has
    <3> QED
      BY <3>1, <3>2
  <2>7. ASSUME NEW g \in Seen(r, t, {}) PROVE g = f
    <3>1. PICK s \in Ancestors(r) :
              /\ <<g, t>> \in local[s]
              /\ \A u \in Ancestors(r) : u > s => ~Has(u, t, {})
      BY <2>7 DEF Seen, Has
    <3>2. g \in Files
      BY <2>7 DEF Seen
    <3>3. CASE s \in {r, a}
      BY <2>4, <3>1, <3>2, <3>3
    <3>4. CASE s \notin {r, a}
      <4>1. a = r /\ s = 1 /\ r > 1
        BY <2>1, <2>2, <2>5, <3>4 DEF Registries
      <4>2. Has(r, t, {})
        BY <2>1, <2>3, <4>1 DEF Has
      <4> QED
        BY <2>5, <3>1, <4>1, <4>2
    <3> QED
      BY <3>3, <3>4
  <2> QED
    BY <2>6, <2>7
<1> QED
  BY <1>1, AlwaysIInv, PTL

(* No registry of an environment that was handed out is ever written, so   *)
(* that reading it needs no lock (registry.go:26-38).                      *)
THEOREM SharedNeverWritten == Spec => NoWriteShared
<1> DEFINE Kept == \A r \in used : /\ known'[r] = known[r]
                                   /\ local'[r] = local[r]
                                   /\ parent'[r] = parent[r]
<1>1. ASSUME IInv, [Next]_vars PROVE [Kept]_vars
  <2>1. ASSUME NEW r \in used
        PROVE  r \in Registries /\ r # building /\ r # count + 1
    <3>1. r \in 1 .. count /\ count \in 0 .. MaxRegistries
      BY <1>1 DEF IInv, TypeOK
    <3>2. r # building
      BY <1>1, <3>1 DEF IInv, Tree
    <3> QED
      BY <3>1, <3>2, RegistryAssumption DEF Registries
  <2> SUFFICES ASSUME Next, NEW r \in used
               PROVE  known'[r] = known[r] /\ local'[r] = local[r] /\ parent'[r] = parent[r]
    BY <1>1
  <2>2. r \in Registries /\ r # building /\ r # count + 1
    BY <2>1
  <2>3. ASSUME NEW p, NEW fs, Make(p, fs)
        PROVE  known'[r] = known[r] /\ local'[r] = local[r] /\ parent'[r] = parent[r]
    BY <1>1, <2>2, <2>3 DEF Make, IInv, TypeOK
  <2>4. CASE NewRegistry \/ Extend
    BY <2>3, <2>4 DEF NewRegistry, Extend
  <2>5. CASE RegisterDescriptor
    BY <1>1, <2>2, <2>5 DEF RegisterDescriptor, IInv, TypeOK
  <2>6. CASE ExtendFails
    BY <1>1, <2>2, <2>6 DEF ExtendFails, IInv, TypeOK
  <2>7. CASE HandOut
    BY <2>7 DEF HandOut, tree
  <2>8. CASE \E g \in Readers : Ask(g) \/ Look(g) \/ Return(g)
    BY <2>8 DEF Ask, Look, Return, tree
  <2> QED
    BY <2>4, <2>5, <2>6, <2>7, <2>8 DEF Next
<1> QED
  BY <1>1, AlwaysIInv, PTL DEF Spec, NoWriteShared

==============================================================================
