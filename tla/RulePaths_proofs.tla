--------------------------- MODULE RulePaths_proofs ----------------------------
(***************************************************************************)
(* The rule paths of violations stay what they are, for any number of      *)
(* goroutines and wherever the violations are.                             *)
(***************************************************************************)
EXTENDS RulePaths, TLAPS

(* The messages a goroutine's violations may point to.                     *)
Mine(g) == Global \cup ({g} \X {1, 2})

TypeInv ==
    /\ heap \in [Paths -> Seq(Elements)]
    /\ pc \in [Validators -> {"idle", "part", "message", "done"}]
    /\ site \in [Validators -> Site \cup {<< >>}]
    /\ rule \in [Validators -> Paths \cup {<< >>}]
    /\ held \in [Validators -> SUBSET [site : Site, rule : Paths]]

(* What a goroutine's violation points to is right and not another's.      *)
Found ==
    \A g \in Validators :
        pc[g] # "idle" => /\ rule[g] \in Mine(g)
                          /\ site[g] \in Site
                          /\ heap[rule[g]] = Exact(site[g])

(* So is what its caller has, and one of its two messages is free.         *)
Kept ==
    \A g \in Validators :
        /\ \A h \in held[g] : h.rule \in Mine(g)
        /\ \A h, i \in held[g] : h = i

IInv == TypeInv /\ StaticIntact /\ Found /\ Kept /\ RuleExact

LEMMA StaticType ==
    /\ Static \in [DOMAIN Static -> Seq(Elements)]
    /\ {"items", "keys", "values", "required", "definedOnly", "anyIn", "anyNotIn"}
         = DOMAIN Static
  BY RulePathsAssumption DEF Static

LEMMA PathTypes ==
    ASSUME NEW s \in Site
    PROVE  /\ NestedRule(s.value) \in Seq(Elements)
           /\ Own(s) \in Seq(Elements)
           /\ Exact(s) \in Seq(Elements)
<1>1. NestedRule(s.value) \in Seq(Elements)
  <2>1. s.value \in Value /\ << >> \in Seq(Elements)
    BY DEF Site
  <2>2. \A v \in Value : v # "field" => v \in DOMAIN Static
    BY StaticType DEF Value
  <2> QED
    BY <2>1, <2>2, StaticType DEF NestedRule
<1>2. Own(s) \in Seq(Elements)
  BY StaticType, RulePathsAssumption DEF Site, Own
<1> QED
  BY <1>1, <1>2 DEF Exact

LEMMA FreshType ==
    ASSUME NEW g \in Validators, \A h, i \in held[g] : h = i
    PROVE  Fresh(g) \in {g} \X {1, 2} /\ \A h \in held[g] : h.rule # Fresh(g)
<1>1. \E o \in {g} \X {1, 2} : \A h \in held[g] : h.rule # o
  <2>1. <<g, 1>> # <<g, 2>> /\ {<<g, 1>>, <<g, 2>>} \subseteq {g} \X {1, 2}
    OBVIOUS
  <2> QED
    BY <2>1
<1> QED
  BY <1>1 DEF Fresh

(* The prefixes that the levels above give are empty.                      *)
LEMMA UpdateKeeps ==
    ASSUME NEW p, NEW v, Update(p, PartPrefix(v)) \/ Update(p, EmbeddedPrefix(v))
    PROVE  heap' = heap
  BY DEF Update, PartPrefix, EmbeddedPrefix, NestedRule

LEMMA InitIInv == Init => IInv
<1> SUFFICES ASSUME Init PROVE IInv
  OBVIOUS
<1>1. \A p \in Paths : (IF p \in Global THEN Static[p[2]] ELSE << >>) \in Seq(Elements)
  <2>1. << >> \in Seq(Elements) /\ \A p \in Global : p[2] \in DOMAIN Static
    BY DEF Global
  <2> QED
    BY <2>1, StaticType
<1>2. TypeInv
  BY <1>1 DEF Init, TypeInv
<1>3. StaticIntact
  BY DEF Init, StaticIntact, Global, Paths
<1> QED
  BY <1>2, <1>3 DEF Init, IInv, Found, Kept, RuleExact

LEMMA ReportKeeps ==
    ASSUME IInv, NEW g \in Validators, Report(g)
    PROVE  IInv'
<1> USE DEF IInv
<1>1. PICK s \in Sites :
          /\ site' = [site EXCEPT ![g] = s]
          /\ IF NestedRule(s.value) # << >> \/ s.rule \in DOMAIN CelPath
             THEN /\ rule' = [rule EXCEPT ![g] = Fresh(g)]
                  /\ heap' = [heap EXCEPT ![Fresh(g)] = NestedRule(s.value) \o Own(s)]
             ELSE /\ rule' = [rule EXCEPT ![g] = <<"global", s.rule>>]
                  /\ UNCHANGED heap
          /\ pc' = [pc EXCEPT ![g] = "part"]
          /\ held' = held
  BY DEF Report
<1>2. /\ s \in Site
      /\ NestedRule(s.value) \in Seq(Elements)
      /\ Own(s) \in Seq(Elements)
      /\ Exact(s) \in Seq(Elements)
  BY RulePathsAssumption, PathTypes
<1>3. /\ Fresh(g) \in {g} \X {1, 2}
      /\ \A h \in held[g] : h.rule # Fresh(g)
  BY FreshType DEF Kept
<1>4. Fresh(g) \in Owned /\ Fresh(g) \in Paths /\ Fresh(g) \notin Global
  BY <1>3, RulePathsAssumption DEF Owned, Paths, Global
<1> HIDE DEF IInv
<1>5. /\ TypeInv'
      /\ rule'[g] \in Mine(g)
      /\ heap'[rule'[g]] = Exact(s)
      /\ \A p \in Paths \ {Fresh(g)} : heap'[p] = heap[p]
  <2>1. CASE NestedRule(s.value) # << >> \/ s.rule \in DOMAIN CelPath
    <3>1. /\ rule' = [rule EXCEPT ![g] = Fresh(g)]
          /\ heap' = [heap EXCEPT ![Fresh(g)] = Exact(s)]
      BY <1>1, <2>1 DEF Exact
    <3> QED
      BY <1>1, <1>2, <1>3, <1>4, <3>1 DEF IInv, TypeInv, Mine
  <2>2. CASE NestedRule(s.value) = << >> /\ s.rule \notin DOMAIN CelPath
    <3>1. rule' = [rule EXCEPT ![g] = <<"global", s.rule>>] /\ heap' = heap
      BY <1>1, <2>2
    <3>2. s.rule \in DOMAIN Static
      BY <1>2, <2>2, StaticType DEF Site
    <3>3. <<"global", s.rule>> \in Global
      BY <3>2 DEF Global
    <3>4. heap[<<"global", s.rule>>] = Own(s)
      BY <2>2, <3>2 DEF IInv, StaticIntact, Own
    <3>5. Exact(s) = Own(s)
      BY <1>2, <2>2 DEF Exact
    <3> QED
      BY <1>1, <1>2, <3>1, <3>3, <3>4, <3>5 DEF IInv, TypeInv, Mine, Paths
  <2> QED
    BY <2>1, <2>2
<1>6. StaticIntact'
  <2>1. ASSUME NEW p \in DOMAIN Static
        PROVE  heap'[<<"global", p>>] = heap[<<"global", p>>]
    <3>1. <<"global", p>> \in Global
      BY DEF Global
    <3> QED
      BY <1>4, <1>5, <3>1 DEF Paths
  <2> QED
    BY <2>1 DEF IInv, StaticIntact
<1>7. ASSUME NEW h \in Validators, h # g, NEW p \in Mine(h)
      PROVE  heap'[p] = heap[p]
  <2>1. p \in Paths /\ p # Fresh(g)
    BY <1>3, <1>4, <1>7 DEF Mine, Paths, Owned
  <2> QED
    BY <1>5, <2>1
<1>8. Found'
  <2>1. ASSUME NEW h \in Validators, pc'[h] # "idle"
        PROVE  rule'[h] \in Mine(h) /\ site'[h] \in Site /\ heap'[rule'[h]] = Exact(site'[h])
    <3>1. CASE h = g
      BY <1>1, <1>2, <1>5, <3>1 DEF IInv, TypeInv
    <3>2. CASE h # g
      <4>1. /\ pc'[h] = pc[h] /\ site'[h] = site[h] /\ rule'[h] = rule[h]
        BY <1>1, <3>2 DEF IInv, TypeInv
      <4> QED
        BY <1>7, <2>1, <3>2, <4>1 DEF IInv, Found
    <3> QED
      BY <3>1, <3>2
  <2> QED
    BY <2>1 DEF Found, Mine, Exact
<1>9. Kept'
  BY <1>1 DEF IInv, Kept, Mine
<1>10. RuleExact'
  <2>1. ASSUME NEW h \in Validators, NEW v \in held[h]
        PROVE  heap'[v.rule] = heap[v.rule]
    <3>1. v.rule \in Mine(h) /\ v.rule \in Paths
      BY DEF IInv, Kept, TypeInv
    <3> QED
      BY <1>3, <1>5, <1>7, <3>1
  <2> QED
    BY <1>1, <2>1 DEF IInv, RuleExact, Exact
<1> QED
  BY <1>5, <1>6, <1>8, <1>9, <1>10 DEF IInv

(* On the way up nothing is written.                                       *)
LEMMA LeaveKeeps ==
    ASSUME IInv, NEW g \in Validators, LeavePart(g) \/ LeaveMessage(g)
    PROVE  IInv'
<1>1. /\ heap' = heap /\ site' = site /\ rule' = rule /\ held' = held
      /\ pc' = [pc EXCEPT ![g] = pc'[g]] /\ pc'[g] \in {"part", "message", "done"}
      /\ pc[g] # "idle"
  <2>1. CASE LeavePart(g)
    BY <2>1, UpdateKeeps DEF LeavePart, IInv, TypeInv
  <2>2. CASE LeaveMessage(g)
    BY <2>2, UpdateKeeps DEF LeaveMessage, IInv, TypeInv
  <2> QED
    BY <2>1, <2>2
<1>2. TypeInv'
  <2>1. pc' \in [Validators -> {"idle", "part", "message", "done"}]
    BY <1>1 DEF IInv, TypeInv
  <2> QED
    BY <1>1, <2>1 DEF IInv, TypeInv
<1>3. StaticIntact'
  BY <1>1 DEF IInv, StaticIntact
<1>4. Found'
  <2>1. \A h \in Validators : pc'[h] # "idle" => pc[h] # "idle"
    BY <1>1 DEF IInv, TypeInv
  <2> QED
    BY <1>1, <2>1 DEF IInv, Found, Mine, Exact
<1>5. Kept'
  BY <1>1 DEF IInv, Kept, Mine
<1>6. RuleExact'
  BY <1>1 DEF IInv, RuleExact, Exact
<1> QED
  BY <1>2, <1>3, <1>4, <1>5, <1>6 DEF IInv

LEMMA ReturnKeeps ==
    ASSUME IInv, NEW g \in Validators, Return(g)
    PROVE  IInv'
<1> DEFINE v == [site |-> site[g], rule |-> rule[g]]
<1>1. /\ heap' = heap /\ held' = [held EXCEPT ![g] = {v}]
      /\ pc' = [pc EXCEPT ![g] = "idle"] /\ pc[g] = "done"
      /\ site' = [site EXCEPT ![g] = << >>]
      /\ rule' = [rule EXCEPT ![g] = << >>]
  BY DEF Return
<1>2. /\ rule[g] \in Mine(g) /\ rule[g] \in Paths /\ site[g] \in Site
      /\ heap[rule[g]] = Exact(site[g])
  BY <1>1 DEF IInv, TypeInv, Found, Mine, Paths, Owned
<1>3. TypeInv'
  BY <1>1, <1>2 DEF IInv, TypeInv
<1>4. StaticIntact'
  BY <1>1 DEF IInv, StaticIntact
<1>5. \A h \in Validators : held'[h] = IF h = g THEN {v} ELSE held[h]
  BY <1>1 DEF IInv, TypeInv
<1>6. Found'
  BY <1>1 DEF IInv, TypeInv, Found, Mine, Exact
<1>7. Kept'
  BY <1>2, <1>5 DEF IInv, Kept, Mine
<1>8. RuleExact'
  <2>1. ASSUME NEW h \in Validators, NEW w \in held'[h]
        PROVE  heap[w.rule] = Exact(w.site)
    <3>1. CASE h = g
      <4>1. w = v
        BY <1>5, <2>1, <3>1
      <4> QED
        BY <1>2, <4>1
    <3>2. CASE h # g
      BY <1>5, <2>1, <3>2 DEF IInv, RuleExact
    <3> QED
      BY <3>1, <3>2
  <2> QED
    BY <1>1, <2>1 DEF RuleExact, Exact
<1> QED
  BY <1>3, <1>4, <1>6, <1>7, <1>8 DEF IInv

LEMMA AlwaysIInv == Spec => []IInv
<1>1. ASSUME IInv, [Next]_vars PROVE IInv'
  <2>1. CASE UNCHANGED vars
    BY <1>1, <2>1 DEF vars, IInv, TypeInv, StaticIntact, Found, Kept, RuleExact, Exact, Mine
  <2>2. CASE Next
    BY <1>1, <2>2, ReportKeeps, LeaveKeeps, ReturnKeeps DEF Next
  <2> QED
    BY <1>1, <2>1, <2>2
<1> QED
  BY <1>1, InitIInv, PTL DEF Spec

(* No validation changes a global rule path (error_utils.go:113-117,       *)
(* base.go:63-70).                                                         *)
THEOREM StaticStaysIntact == Spec => []StaticIntact
<1>1. IInv => StaticIntact
  BY DEF IInv
<1> QED
  BY <1>1, AlwaysIInv, PTL

(* A caller reads the exact rule path of its violation, now and while      *)
(* other messages are validated (error_utils.go:90-120, message.go:110).   *)
THEOREM RulesStayExact == Spec => []RuleExact
<1>1. IInv => RuleExact
  BY DEF IInv
<1> QED
  BY <1>1, AlwaysIInv, PTL

==============================================================================
