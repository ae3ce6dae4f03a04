--------------------------- MODULE RuleCache_proofs ----------------------------
(***************************************************************************)
(* What a validator's Build returns for a field does not depend on what it *)
(* built before, for any number of validators, fields and rules, as long   *)
(* as no other validator may reparse the field's rules meanwhile; and the  *)
(* options lose no rule.                                                   *)
(***************************************************************************)
EXTENDS RuleCache, TLAPS

-----------------------------------------------------------------------------
(* The invariant.                                                          *)

(* The rules of a field, or among the bytes s, of which v's resolver makes *)
(* `what'.                                                                 *)
Among(v, s, what) == {r \in ToSet(s) : resolver[v][r] = what}
Wire(f) == declared[f].rules.unknown
Resolved(v, f) == declared[f].rules.known \cup Among(v, Wire(f), "known")

(* The message m is what v makes of the field's rules, but for the bytes s *)
(* that it has still to merge.                                             *)
Parsed(v, f, m, s) ==
    /\ m.known \cup Among(v, s, "known") = Resolved(v, f)
    /\ ToSet(m.unknown) \cup Among(v, s, "missing") = Among(v, Wire(f), "missing")
    /\ Among(v, s, "malformed") = Among(v, Wire(f), "malformed")

Accepted(v, f) ==
    /\ Among(v, Wire(f), "malformed") = {}
    /\ Among(v, Wire(f), "missing") = {} \/ allow[v]

WithPrograms(rules) == {r \in rules : kind[r] \notin {"empty", "bad", "garbled"}}

(* Where Build is with a field nobody else reparses.                       *)
At(v) ==
    LET f == field[v]
    IN  /\ pc[v] \in {"resolve", "reparse", "clear"} => Mine(v) = declared[f].rules
        /\ pc[v] = "clear" => wire[v] = Wire(f)
        /\ pc[v] \in {"merge", "check"} => Parsed(v, f, Mine(v), wire[v])
        /\ pc[v] = "range" =>
              /\ Accepted(v, f)
              /\ range[v] \subseteq Resolved(v, f)
              /\ asts[v] = WithPrograms(Resolved(v, f) \ range[v])
              /\ \A r \in Resolved(v, f) \ range[v] : kind[r] # "bad"

AtInv ==
    \A v \in active :
        pc[v] # "idle" /\ ~Contended(field[v]) => At(v)

(* A validator at work has a field it has not built, whose rules apply.    *)
WorkInv ==
    \A v \in Validators :
        /\ pc[v] # "idle" =>
              /\ v \in active
              /\ outcome[v][field[v]].err = "unbuilt"
              /\ declared[field[v]].options # "malformed"
        /\ pc[v] \notin {"idle", "resolve"} => declared[field[v]].match = "match"
        /\ pc[v] \in {"clear", "merge"} => Wire(field[v]) # << >>
        /\ \A r \in compiled[v] : kind[r] # "bad"

(* Nobody has written the options of f.                                    *)
Unwritten(f) ==
    \/ Wire(f) = << >>
    \/ ~Shared(f)
    \/ /\ ~Contended(f)
       /\ \A v \in active : /\ outcome[v][f].err = "unbuilt"
                            /\ pc[v] = "idle" \/ field[v] # f

WrittenInv == \A f \in Fields : Unwritten(f) => messages[f] = declared[f].rules

(* The message m and the bytes s have all rules of the field, once.        *)
Conserved(f, m, s) ==
    /\ m.known \cup ToSet(m.unknown) \cup ToSet(s) = Declared(f)
    /\ m.known \cap ToSet(m.unknown) = {}
    /\ m.known \cap ToSet(s) = {}
    /\ ToSet(m.unknown) \cap ToSet(s) = {}
    /\ IsInjective(m.unknown) /\ IsInjective(s)

(* What v has taken out of the options of f.                               *)
Taken(v, f) == IF pc[v] = "merge" /\ field[v] = f THEN wire[v] ELSE << >>

ConservedInv ==
    \A f \in Fields : Shared(f) /\ ~Contended(f) =>
        \/ \E v \in Validators : outcome[v][f].err = "parse"
        \/ \A v \in active : Conserved(f, messages[f], Taken(v, f))

(* What a behaviour starts from.                                           *)
SetupInv ==
    /\ active # {}
    /\ declared \in Descriptors

IInv ==
    /\ TypeOK /\ SetupInv /\ WorkInv /\ WrittenInv /\ AtInv /\ OwnOutcome
    /\ ConservedInv

-----------------------------------------------------------------------------
(* Sequences of rules.                                                     *)

LEMMA EmptySet ==
    ASSUME NEW S, NEW s \in Seq(S)
    PROVE  /\ ToSet(<< >>) = {} /\ IsInjective(<< >>)
           /\ ToSet(s) = {} <=> s = << >>
           /\ ToSet(s) \subseteq S
<1>1. ToSet(<< >>) = {} /\ IsInjective(<< >>)
  BY DEF ToSet, IsInjective
<1>2. ASSUME s # << >> PROVE ToSet(s) # {}
  <2>1. 1 \in DOMAIN s
    BY <1>2
  <2> QED  BY <2>1 DEF ToSet
<1>3. ToSet(s) \subseteq S
  BY DEF ToSet
<1> QED  BY <1>1, <1>2, <1>3

LEMMA HeadTail ==
    ASSUME NEW S, NEW s \in Seq(S), s # << >>
    PROVE  /\ Head(s) \in S /\ Tail(s) \in Seq(S)
           /\ Head(s) \in ToSet(s)
           /\ ToSet(s) = {Head(s)} \cup ToSet(Tail(s))
           /\ IsInjective(s) => IsInjective(Tail(s)) /\ Head(s) \notin ToSet(Tail(s))
<1>1. /\ Len(s) \in Nat \ {0} /\ Head(s) = s[1] /\ 1 \in DOMAIN s /\ s[1] \in S
      /\ Tail(s) \in Seq(S) /\ Len(Tail(s)) = Len(s) - 1
      /\ \A i \in DOMAIN Tail(s) : i + 1 \in DOMAIN s /\ Tail(s)[i] = s[i + 1]
      /\ \A i \in DOMAIN s : i # 1 => i - 1 \in DOMAIN Tail(s) /\ Tail(s)[i - 1] = s[i]
  OBVIOUS
<1>2. ToSet(s) = {Head(s)} \cup ToSet(Tail(s))
  <2>1. ASSUME NEW r \in ToSet(s) PROVE r \in {Head(s)} \cup ToSet(Tail(s))
    <3>1. PICK i \in DOMAIN s : r = s[i]
      BY <2>1 DEF ToSet
    <3> QED  BY <1>1, <3>1 DEF ToSet
  <2>2. ASSUME NEW r \in ToSet(Tail(s)) PROVE r \in ToSet(s)
    <3>1. PICK i \in DOMAIN Tail(s) : r = Tail(s)[i]
      BY <2>2 DEF ToSet
    <3> QED  BY <1>1, <3>1 DEF ToSet
  <2>3. Head(s) \in ToSet(s)
    BY <1>1 DEF ToSet
  <2> QED  BY <2>1, <2>2, <2>3
<1>3. ASSUME IsInjective(s)
      PROVE  IsInjective(Tail(s)) /\ Head(s) \notin ToSet(Tail(s))
  <2>1. ASSUME NEW i \in DOMAIN Tail(s), NEW j \in DOMAIN Tail(s), Tail(s)[i] = Tail(s)[j]
        PROVE  i = j
    <3>1. i \in Int /\ j \in Int /\ i + 1 = j + 1
      BY <1>1, <1>3, <2>1 DEF IsInjective
    <3> QED  BY <3>1
  <2>2. ASSUME NEW i \in DOMAIN Tail(s) PROVE Tail(s)[i] # Head(s)
    <3>1. i \in Nat \ {0} /\ i + 1 \in DOMAIN s /\ 1 \in DOMAIN s /\ Tail(s)[i] = s[i + 1]
      BY <1>1
    <3> QED  BY <1>1, <1>3, <3>1 DEF IsInjective
  <2> QED  BY <2>1, <2>2 DEF IsInjective, ToSet
<1> QED  BY <1>1, <1>2, <1>3

LEMMA AppendSet ==
    ASSUME NEW S, NEW s \in Seq(S), NEW r \in S
    PROVE  /\ Append(s, r) \in Seq(S)
           /\ ToSet(Append(s, r)) = ToSet(s) \cup {r}
           /\ IsInjective(s) /\ r \notin ToSet(s) => IsInjective(Append(s, r))
<1> DEFINE a == Append(s, r)
<1>1. /\ a \in Seq(S) /\ DOMAIN a = DOMAIN s \cup {Len(s) + 1} /\ Len(s) + 1 \notin DOMAIN s
      /\ a[Len(s) + 1] = r /\ \A i \in DOMAIN s : a[i] = s[i]
  OBVIOUS
<1> HIDE DEF a
<1>2. ToSet(a) = ToSet(s) \cup {r}
  BY <1>1 DEF ToSet
<1>3. IsInjective(s) /\ r \notin ToSet(s) => IsInjective(a)
  BY <1>1 DEF ToSet, IsInjective
<1> QED  BY <1>1, <1>2, <1>3 DEF a

-----------------------------------------------------------------------------
(* What reparsing does to a message and the bytes it has still to merge.   *)

LEMMA AmongHead ==
    ASSUME NEW v, NEW s \in Seq(Rules), s # << >>, NEW what
    PROVE  Among(v, s, what) = IF resolver[v][Head(s)] = what
                               THEN {Head(s)} \cup Among(v, Tail(s), what)
                               ELSE Among(v, Tail(s), what)
  BY HeadTail DEF Among

LEMMA ParsedStep ==
    ASSUME NEW v, NEW f, NEW m \in RuleMessage, NEW s \in Seq(Rules), s # << >>,
           Parsed(v, f, m, s)
    PROVE  /\ resolver[v][Head(s)] = "known" =>
                 Parsed(v, f, [m EXCEPT !.known = @ \cup {Head(s)}], Tail(s))
           /\ resolver[v][Head(s)] = "missing" =>
                 Parsed(v, f, [m EXCEPT !.unknown = Append(@, Head(s))], Tail(s))
           /\ resolver[v][Head(s)] = "malformed" =>
                 Among(v, Wire(f), "malformed") # {}
<1> DEFINE r == Head(s)
<1>1. /\ m.known \in SUBSET Rules /\ m.unknown \in Seq(Rules) /\ r \in Rules
      /\ ToSet(Append(m.unknown, r)) = ToSet(m.unknown) \cup {r}
  BY HeadTail, AppendSet DEF RuleMessage
<1>2. ASSUME NEW k, k = [m EXCEPT !.known = @ \cup {r}]
      PROVE  k.known = m.known \cup {r} /\ k.unknown = m.unknown
  BY <1>2 DEF RuleMessage
<1>3. ASSUME NEW k, k = [m EXCEPT !.unknown = Append(@, r)]
      PROVE  k.known = m.known /\ k.unknown = Append(m.unknown, r)
  BY <1>3 DEF RuleMessage
<1>4. /\ Among(v, s, "known") = IF resolver[v][r] = "known"
            THEN {r} \cup Among(v, Tail(s), "known") ELSE Among(v, Tail(s), "known")
      /\ Among(v, s, "missing") = IF resolver[v][r] = "missing"
            THEN {r} \cup Among(v, Tail(s), "missing") ELSE Among(v, Tail(s), "missing")
      /\ Among(v, s, "malformed") = IF resolver[v][r] = "malformed"
            THEN {r} \cup Among(v, Tail(s), "malformed") ELSE Among(v, Tail(s), "malformed")
  BY AmongHead
<1> HIDE DEF r
<1>5. ASSUME resolver[v][r] = "known", NEW k, k = [m EXCEPT !.known = @ \cup {r}]
      PROVE  Parsed(v, f, k, Tail(s))
  BY <1>2, <1>4, <1>5 DEF Parsed
<1>6. ASSUME resolver[v][r] = "missing", NEW k, k = [m EXCEPT !.unknown = Append(@, r)]
      PROVE  Parsed(v, f, k, Tail(s))
  BY <1>1, <1>3, <1>4, <1>6 DEF Parsed
<1>7. resolver[v][r] = "malformed" => Among(v, Wire(f), "malformed") # {}
  BY <1>4 DEF Parsed
<1> QED  BY <1>5, <1>6, <1>7 DEF r

LEMMA ConservedStep ==
    ASSUME NEW f, NEW m \in RuleMessage, NEW s \in Seq(Rules), s # << >>,
           Conserved(f, m, s)
    PROVE  /\ Conserved(f, [m EXCEPT !.known = @ \cup {Head(s)}], Tail(s))
           /\ Conserved(f, [m EXCEPT !.unknown = Append(@, Head(s))], Tail(s))
<1> DEFINE r == Head(s)
<1>1. /\ m.known \in SUBSET Rules /\ m.unknown \in Seq(Rules) /\ r \in Rules
      /\ ToSet(Append(m.unknown, r)) = ToSet(m.unknown) \cup {r}
      /\ IsInjective(m.unknown) /\ r \notin ToSet(m.unknown)
             => IsInjective(Append(m.unknown, r))
      /\ ToSet(s) = {r} \cup ToSet(Tail(s))
      /\ IsInjective(s) => IsInjective(Tail(s)) /\ r \notin ToSet(Tail(s))
  BY HeadTail, AppendSet DEF RuleMessage
<1>2. ASSUME NEW k, k = [m EXCEPT !.known = @ \cup {r}]
      PROVE  k.known = m.known \cup {r} /\ k.unknown = m.unknown
  BY <1>2 DEF RuleMessage
<1>3. ASSUME NEW k, k = [m EXCEPT !.unknown = Append(@, r)]
      PROVE  k.known = m.known /\ k.unknown = Append(m.unknown, r)
  BY <1>3 DEF RuleMessage
<1> HIDE DEF r
<1>4. ASSUME NEW k, k = [m EXCEPT !.known = @ \cup {r}]
      PROVE  Conserved(f, k, Tail(s))
  BY <1>1, <1>2, <1>4 DEF Conserved
<1>5. ASSUME NEW k, k = [m EXCEPT !.unknown = Append(@, r)]
      PROVE  Conserved(f, k, Tail(s))
  BY <1>1, <1>3, <1>5 DEF Conserved
<1> QED  BY <1>4, <1>5 DEF r

LEMMA ClearStep ==
    ASSUME NEW f, NEW m \in RuleMessage, NEW k, k = [m EXCEPT !.unknown = << >>]
    PROVE  /\ k \in RuleMessage
           /\ \A v : m = declared[f].rules => Parsed(v, f, k, Wire(f))
           /\ Conserved(f, m, << >>) => Conserved(f, k, m.unknown)
<1>1. k.known = m.known /\ k.unknown = << >> /\ m.unknown \in Seq(Rules) /\ k \in RuleMessage
  <2>1. << >> \in Seq(Rules)
    OBVIOUS
  <2> QED  BY <2>1 DEF RuleMessage
<1>2. ToSet(<< >>) = {} /\ IsInjective(<< >>)
  BY <1>1, EmptySet
<1>3. ASSUME NEW v, m = declared[f].rules PROVE Parsed(v, f, k, Wire(f))
  BY <1>1, <1>2, <1>3 DEF Parsed, Resolved, Wire
<1>4. Conserved(f, m, << >>) => Conserved(f, k, m.unknown)
  BY <1>1, <1>2 DEF Conserved
<1> QED  BY <1>1, <1>3, <1>4

(* Rules that are all parsed already.                                      *)
LEMMA NothingToParse ==
    ASSUME NEW v, NEW f, NEW m, m = declared[f].rules, m.unknown = << >>
    PROVE  Parsed(v, f, m, << >>)
<1>1. ToSet(<< >>) = {}
  BY DEF ToSet
<1> QED  BY <1>1 DEF Parsed, Resolved, Wire, Among

-----------------------------------------------------------------------------
(* What a step of one validator leaves alone.                              *)

Action(v) ==
    \/ ResolveFieldRules(v) \/ ResolveRules(v)
    \/ GetUnknown(v) \/ ClearUnknown(v) \/ Unmarshal(v) \/ Unmarshalled(v)
    \/ CheckUnknown(v) \/ CompileRule(v) \/ ReduceResiduals(v)

Own(v) ==
    <<pc[v], field[v], wire[v], range[v], asts[v], compiled[v], outcome[v], copy[v]>>

StepOf(v) ==
    /\ UNCHANGED setup
    /\ v \in active
    /\ \A u \in Validators \ {v} : Own(u)' = Own(u)
    /\ pc[v] # "idle" => field'[v] = field[v]
    /\ \A f \in Fields : messages'[f] # messages[f] =>
          /\ f = field[v] /\ Shared(f)
          /\ pc[v] \in {"clear", "merge"}
    /\ \A f \in Fields : outcome'[v][f] # outcome[v][f] =>
          /\ f = field'[v] /\ pc'[v] = "idle"
          /\ outcome[v][f].err = "unbuilt" /\ outcome'[v][f].err # "unbuilt"
    /\ (pc[v] # "idle" /\ pc'[v] = "idle")
          => outcome'[v][field[v]] # outcome[v][field[v]]

(* What a step of v has to keep for v itself.                              *)
OwnWork(v) ==
    /\ pc[v] # "idle" =>
          /\ v \in active
          /\ outcome[v][field[v]].err = "unbuilt"
          /\ declared[field[v]].options # "malformed"
    /\ pc[v] \notin {"idle", "resolve"} => declared[field[v]].match = "match"
    /\ pc[v] \in {"clear", "merge"} => Wire(field[v]) # << >>
    /\ \A r \in compiled[v] : kind[r] # "bad"
OwnAt(v) == pc[v] # "idle" /\ ~Contended(field[v]) => At(v)
OwnResult(v) ==
    \A f \in Fields : (outcome[v][f].err # "unbuilt" /\ ~Contended(f))
        => outcome[v][f] = Expected(v, f)
OwnConserved(v) ==
    \A f \in Fields :
        (Shared(f) /\ ~Contended(f) /\ Conserved(f, messages[f], Taken(v, f)))
            => \/ outcome'[v][f].err = "parse"
               \/ Conserved(f, messages'[f], Taken(v, f)')

LEMMA TwoContend ==
    ASSUME NEW v \in active, NEW u \in active, u # v, NEW f, Shared(f), Wire(f) # << >>
    PROVE  Contended(f)
  BY DEF Contended, Wire

LEMMA FrameKeeps ==
    ASSUME IInv, NEW v \in Validators, StepOf(v), TypeOK', OwnWork(v)', OwnAt(v)',
           OwnResult(v)', OwnConserved(v)
    PROVE  IInv'
<1> USE DEF IInv
<1>1. /\ active' = active /\ kind' = kind /\ declared' = declared
      /\ resolver' = resolver /\ allow' = allow /\ v \in active
  BY DEF StepOf, setup
<1>2. ASSUME NEW u \in Validators, u # v
      PROVE  /\ pc'[u] = pc[u] /\ field'[u] = field[u] /\ wire'[u] = wire[u]
             /\ range'[u] = range[u] /\ asts'[u] = asts[u] /\ compiled'[u] = compiled[u]
             /\ outcome'[u] = outcome[u] /\ copy'[u] = copy[u]
  BY <1>2 DEF StepOf, Own
<1>3. \A f \in Fields : Shared(f)' = Shared(f) /\ Contended(f)' = Contended(f)
                        /\ Wire(f)' = Wire(f)
  BY <1>1 DEF Shared, Contended, Wire
<1>4. SetupInv'
  BY <1>1 DEF SetupInv
<1>5. WorkInv'
  <2> SUFFICES ASSUME NEW u \in Validators PROVE OwnWork(u)'
    BY DEF WorkInv, OwnWork
  <2>1. CASE u # v
    <3>1. OwnWork(u)
      BY DEF WorkInv, OwnWork
    <3> QED  BY <1>1, <1>2, <2>1, <3>1 DEF OwnWork, Wire
  <2> QED  BY <2>1
<1>6. ASSUME NEW u \in active, u # v, NEW f \in Fields, ~Contended(f)
      PROVE  messages'[f] = messages[f]
  <2>1. messages'[f] # messages[f] =>
            f = field[v] /\ Shared(f) /\ pc[v] \in {"clear", "merge"}
    BY DEF StepOf
  <2>2. pc[v] \in {"clear", "merge"} => Wire(field[v]) # << >>
    BY DEF WorkInv
  <2> QED  BY <1>1, <1>6, <2>1, <2>2, TwoContend
<1>7. AtInv'
  <2> SUFFICES ASSUME NEW u \in active, pc'[u] # "idle", ~Contended(field[u])'
               PROVE  At(u)'
    BY <1>1 DEF AtInv
  <2>1. CASE u = v
    BY <2>1 DEF OwnAt
  <2>2. CASE u # v
    <3>1. u \in Validators /\ field[u] \in Fields
      BY DEF TypeOK
    <3>2. pc[u] # "idle" /\ ~Contended(field[u])
      BY <1>2, <1>3, <2>2, <3>1
    <3>3. At(u)
      BY <3>2 DEF AtInv
    <3>4. Mine(u)' = Mine(u)
      BY <1>2, <1>3, <1>6, <2>2, <3>1, <3>2 DEF Mine
    <3> QED
      BY <1>1, <1>2, <2>2, <3>1, <3>3, <3>4
         DEF At, Parsed, Accepted, WithPrograms, Resolved, Among, Wire
  <2> QED  BY <2>1, <2>2
<1>8. OwnOutcome'
  <2> SUFFICES ASSUME NEW u \in active, NEW f \in Fields,
                      outcome'[u][f].err # "unbuilt", ~Contended(f)'
               PROVE  outcome'[u][f] = Expected(u, f)'
    BY <1>1 DEF OwnOutcome
  <2>1. CASE u = v
    BY <2>1 DEF OwnResult
  <2>2. CASE u # v
    <3>1. u \in Validators
      BY DEF TypeOK
    <3>2. outcome[u][f] = Expected(u, f)
      BY <1>2, <1>3, <2>2, <3>1 DEF OwnOutcome
    <3>3. Expected(u, f)' = Expected(u, f)
      BY <1>1 DEF Expected
    <3> QED  BY <1>2, <2>2, <3>1, <3>2, <3>3
  <2> QED  BY <2>1, <2>2
<1>9. WrittenInv'
  <2> SUFFICES ASSUME NEW f \in Fields, Unwritten(f)'
               PROVE  messages'[f] = declared[f].rules
    BY <1>1 DEF WrittenInv
  <2>1. messages'[f] # messages[f] =>
            f = field[v] /\ Shared(f) /\ pc[v] \in {"clear", "merge"} /\ Wire(f) # << >>
    BY DEF StepOf, WorkInv
  <2>2. CASE Wire(f) = << >> \/ ~Shared(f)
    BY <2>1, <2>2 DEF WrittenInv, Unwritten
  <2>3. CASE /\ ~Contended(f)
             /\ \A u \in active : /\ outcome'[u][f].err = "unbuilt"
                                  /\ pc'[u] = "idle" \/ field'[u] # f
    <3>1. outcome[v][f].err = "unbuilt" /\ (pc[v] = "idle" \/ field[v] # f)
      <4>1. outcome'[v][f].err = "unbuilt" /\ (pc'[v] = "idle" \/ field'[v] # f)
        BY <1>1, <2>3
      <4>2. outcome'[v][f] = outcome[v][f]
        BY <4>1 DEF StepOf
      <4>3. pc[v] # "idle" /\ field[v] = f => FALSE
        BY <4>1, <4>2 DEF StepOf
      <4> QED  BY <4>1, <4>2, <4>3
    <3>2. \A u \in active : /\ outcome[u][f].err = "unbuilt"
                            /\ pc[u] = "idle" \/ field[u] # f
      <4>1. \A u \in active : u \in Validators
        BY DEF TypeOK
      <4> QED  BY <1>2, <2>3, <3>1, <4>1
    <3>3. Unwritten(f)
      BY <2>3, <3>2 DEF Unwritten
    <3>4. messages'[f] = messages[f]
      BY <2>1, <3>1
    <3> QED  BY <3>3, <3>4 DEF WrittenInv
  <2> QED  BY <1>1, <1>3, <2>2, <2>3 DEF Unwritten
<1>10. ConservedInv'
  <2> SUFFICES ASSUME NEW f \in Fields, Shared(f)', ~Contended(f)',
                      \A w \in Validators : outcome'[w][f].err # "parse",
                      NEW u \in active'
               PROVE  Conserved(f, messages[f], Taken(u, f))'
    BY DEF ConservedInv
  <2>0. Shared(f) /\ ~Contended(f) /\ u \in active
    BY <1>1, <1>3
  <2> SUFFICES Conserved(f, messages'[f], Taken(u, f)')
    <3>1. Declared(f)' = Declared(f)
      BY <1>1 DEF Declared
    <3>2. Conserved(f, messages'[f], Taken(u, f)') => Conserved(f, messages[f], Taken(u, f))'
      BY <3>1 DEF Conserved
    <3> QED  BY <3>2
  <2>1. \A w \in Validators : outcome[w][f].err # "parse"
    <3>1. \A w \in Validators : w # v => outcome[w][f] = outcome'[w][f]
      BY <1>2
    <3>2. outcome'[v][f] # outcome[v][f] => outcome[v][f].err = "unbuilt"
      BY DEF StepOf
    <3> QED  BY <3>1, <3>2
  <2>2. Conserved(f, messages[f], Taken(u, f))
    BY <2>0, <2>1 DEF ConservedInv
  <2>3. CASE u = v
    BY <1>1, <2>0, <2>2, <2>3 DEF OwnConserved
  <2>4. CASE u # v
    <3>1. u \in Validators
      BY <2>0 DEF TypeOK
    <3>2. messages'[f] = messages[f]
      BY <1>6, <2>0, <2>4
    <3>3. Taken(u, f)' = Taken(u, f)
      BY <1>2, <2>4, <3>1 DEF Taken
    <3> QED  BY <2>2, <3>2, <3>3
  <2> QED  BY <2>3, <2>4
<1> QED  BY <1>4, <1>5, <1>7, <1>8, <1>9, <1>10

-----------------------------------------------------------------------------
(* The rule message a validator works on.                                  *)

LEMMA MineType ==
    ASSUME TypeOK, NEW v \in Validators
    PROVE  /\ field[v] \in Fields /\ Mine(v) \in RuleMessage
           /\ Mine(v).known \in SUBSET Rules /\ Mine(v).unknown \in Seq(Rules)
<1>1. field[v] \in Fields /\ Mine(v) \in RuleMessage
  BY DEF TypeOK, Mine
<1> QED  BY <1>1 DEF RuleMessage

LEMMA MineSet ==
    ASSUME TypeOK, NEW v \in Validators, NEW m \in RuleMessage, SetMine(v, m),
           field' = field, declared' = declared
    PROVE  /\ messages' \in [Fields -> RuleMessage]
           /\ copy' \in [Validators -> RuleMessage]
           /\ Mine(v)' = m
           /\ \A u \in Validators \ {v} : copy'[u] = copy[u]
           /\ \A f \in Fields : messages'[f] # messages[f] =>
                 f = field[v] /\ Shared(f) /\ messages'[f] = m
           /\ Shared(field[v]) => messages[field[v]] = Mine(v) /\ messages'[field[v]] = m
<1>1. field[v] \in Fields /\ Shared(field[v])' = Shared(field[v])
  BY DEF TypeOK, Shared
<1>2. messages \in [Fields -> RuleMessage] /\ copy \in [Validators -> RuleMessage]
  BY DEF TypeOK
<1>3. CASE Shared(field[v])
  <2>1. messages' = [messages EXCEPT ![field[v]] = m] /\ copy' = copy
    BY <1>3 DEF SetMine
  <2> QED  BY <1>1, <1>2, <1>3, <2>1 DEF Mine
<1>4. CASE ~Shared(field[v])
  <2>1. copy' = [copy EXCEPT ![v] = m] /\ messages' = messages
    BY <1>4 DEF SetMine
  <2> QED  BY <1>1, <1>2, <1>4, <2>1 DEF Mine
<1> QED  BY <1>3, <1>4

(* What Build ought to return, case by case.                               *)
LEMMA ExpectedCases ==
    ASSUME TypeOK, NEW v \in Validators, NEW f \in Fields,
           declared[f].options # "malformed"
    PROVE  /\ declared[f].match = "absent" => Expected(v, f) = Built({})
           /\ declared[f].match = "mismatch" => Expected(v, f) = Failed("mismatch")
           /\ declared[f].match = "match" =>
                 /\ Among(v, Wire(f), "malformed") # {}
                       => Expected(v, f) = Failed("parse")
                 /\ Among(v, Wire(f), "malformed") = {}
                       /\ Among(v, Wire(f), "missing") # {} /\ ~allow[v]
                       => Expected(v, f) = Failed("unknown")
                 /\ Accepted(v, f) /\ (\E r \in Resolved(v, f) : kind[r] = "bad")
                       => Expected(v, f) = Failed("compile")
                 /\ Accepted(v, f) /\ (\A r \in Resolved(v, f) : kind[r] # "bad")
                       => Expected(v, f) = Built(WithPrograms(Resolved(v, f)))
<1> DEFINE at(what) == Among(v, Wire(f), what)
           readable == {r \in Resolved(v, f) : kind[r] \notin {"empty", "garbled"}}
<1>1. Expected(v, f) =
        IF declared[f].options = "malformed" \/ declared[f].match = "absent" THEN Built({})
        ELSE IF declared[f].match = "mismatch" THEN Failed("mismatch")
        ELSE IF at("malformed") # {} THEN Failed("parse")
        ELSE IF at("missing") # {} /\ ~allow[v] THEN Failed("unknown")
        ELSE IF \E r \in Resolved(v, f) : kind[r] = "bad" THEN Failed("compile")
        ELSE Built(readable)
  BY DEF Expected, Among, Wire, Resolved
<1>2. (\A r \in Resolved(v, f) : kind[r] # "bad") => readable = WithPrograms(Resolved(v, f))
  BY DEF WithPrograms
<1>3. Accepted(v, f) <=> at("malformed") = {} /\ (at("missing") = {} \/ allow[v])
  BY DEF Accepted
<1> HIDE DEF at, readable
<1>4. /\ declared[f].match = "absent" => Expected(v, f) = Built({})
      /\ declared[f].match = "mismatch" => Expected(v, f) = Failed("mismatch")
  BY <1>1
<1>5. ASSUME declared[f].match = "match"
      PROVE  /\ at("malformed") # {} => Expected(v, f) = Failed("parse")
             /\ at("malformed") = {} /\ at("missing") # {} /\ ~allow[v]
                   => Expected(v, f) = Failed("unknown")
             /\ Accepted(v, f) /\ (\E r \in Resolved(v, f) : kind[r] = "bad")
                   => Expected(v, f) = Failed("compile")
             /\ Accepted(v, f) /\ (\A r \in Resolved(v, f) : kind[r] # "bad")
                   => Expected(v, f) = Built(readable)
  BY <1>1, <1>3, <1>5
<1> QED  BY <1>2, <1>4, <1>5 DEF at

(* What returning does, and what not returning does.                       *)
LEMMA Returns ==
    ASSUME IInv, NEW v \in active, pc[v] # "idle", NEW result \in Outcome,
           result.err # "unbuilt", Return(v, field[v], result), UNCHANGED <<setup, field>>,
           ~Contended(field[v]) => result = Expected(v, field[v])
    PROVE  /\ outcome' \in [Validators -> [Fields -> Outcome]]
           /\ pc' = [pc EXCEPT ![v] = "idle"]
           /\ outcome'[v][field[v]] = result
           /\ outcome'[v][field[v]] # outcome[v][field[v]]
           /\ \A u \in Validators \ {v} : outcome'[u] = outcome[u]
           /\ \A f \in Fields : outcome'[v][f] # outcome[v][f] =>
                 f = field[v] /\ outcome[v][f].err = "unbuilt" /\ outcome'[v][f].err # "unbuilt"
           /\ OwnResult(v)'
<1>1. /\ v \in Validators /\ field[v] \in Fields
      /\ outcome \in [Validators -> [Fields -> Outcome]]
      /\ outcome' = [outcome EXCEPT ![v][field[v]] = result]
      /\ pc' = [pc EXCEPT ![v] = "idle"]
      /\ outcome[v][field[v]].err = "unbuilt"
  BY DEF IInv, TypeOK, WorkInv, Return
<1>2. /\ outcome' \in [Validators -> [Fields -> Outcome]]
      /\ outcome'[v][field[v]] = result
      /\ \A u \in Validators \ {v} : outcome'[u] = outcome[u]
      /\ \A f \in Fields : f # field[v] => outcome'[v][f] = outcome[v][f]
  BY <1>1
<1>3. \A f \in Fields : Contended(f)' = Contended(f) /\ Expected(v, f)' = Expected(v, f)
  BY DEF setup, Contended, Shared, Expected
<1>4. OwnResult(v)'
  <2> SUFFICES ASSUME NEW f \in Fields, outcome'[v][f].err # "unbuilt", ~Contended(f)
               PROVE  outcome'[v][f] = Expected(v, f)
    BY <1>3 DEF OwnResult
  <2>1. CASE f = field[v]
    BY <1>2, <2>1
  <2>2. CASE f # field[v]
    BY <1>2, <2>2 DEF IInv, OwnOutcome
  <2> QED  BY <2>1, <2>2
<1> QED  BY <1>1, <1>2, <1>4

LEMMA Continues ==
    ASSUME IInv, NEW v \in active, UNCHANGED <<setup, outcome>>
    PROVE  OwnResult(v)'
<1>1. \A f \in Fields : Contended(f)' = Contended(f) /\ Expected(v, f)' = Expected(v, f)
  BY DEF setup, Contended, Shared, Expected
<1> QED  BY <1>1 DEF IInv, OwnOutcome, OwnResult

LEMMA OutcomeType ==
    /\ \A err \in Errors : Failed(err) \in Outcome /\ Failed(err).err # "unbuilt"
                           /\ Failed(err).err = err
    /\ \A rules \in SUBSET Rules : Built(rules) \in Outcome /\ Built(rules).err # "unbuilt"
  BY DEF Failed, Built, Outcome, Errors

-----------------------------------------------------------------------------
(* Every action keeps the invariant.                                       *)

LEMMA ResolveFieldRulesKeeps ==
    ASSUME IInv, NEW v \in Validators, ResolveFieldRules(v)
    PROVE  IInv'
<1> USE DEF IInv
<1>1. PICK f \in Fields :
        /\ outcome[v][f].err = "unbuilt"
        /\ field' = [field EXCEPT ![v] = f]
        /\ copy' = [copy EXCEPT ![v] = IF Shared(f) THEN NoRules ELSE declared[f].rules]
        /\ IF declared[f].options = "malformed"
           THEN Return(v, f, Built({}))
           ELSE pc' = [pc EXCEPT ![v] = "resolve"] /\ UNCHANGED outcome
  BY DEF ResolveFieldRules
<1>2. /\ v \in active /\ pc[v] = "idle"
      /\ UNCHANGED <<setup, messages, wire, range, asts, compiled>>
  BY DEF ResolveFieldRules
<1>3. /\ active' = active /\ kind' = kind /\ declared' = declared
      /\ resolver' = resolver /\ allow' = allow
  BY <1>2 DEF setup
<1>4. /\ pc'[v] = IF declared[f].options = "malformed" THEN "idle" ELSE "resolve"
      /\ pc' = [pc EXCEPT ![v] = pc'[v]]
      /\ outcome' = IF declared[f].options = "malformed"
                    THEN [outcome EXCEPT ![v][f] = Built({})] ELSE outcome
  BY <1>1 DEF Return, TypeOK
<1>5. Built({}) \in Outcome /\ Built({}).err # "unbuilt"
  BY OutcomeType
<1>6. /\ outcome' \in [Validators -> [Fields -> Outcome]]
      /\ \A u \in Validators \ {v} : outcome'[u] = outcome[u]
      /\ \A g \in Fields : outcome'[v][g] # outcome[v][g] =>
            g = f /\ declared[f].options = "malformed" /\ outcome'[v][f] = Built({})
  BY <1>4, <1>5 DEF TypeOK
<1>7. field'[v] = f /\ \A u \in Validators \ {v} : field'[u] = field[u] /\ pc'[u] = pc[u]
  BY <1>1, <1>4 DEF TypeOK
<1>8. NoRules \in RuleMessage /\ declared[f].rules \in RuleMessage
  BY DEF NoRules, RuleMessage, TypeOK, Descriptor
<1>9. TypeOK'
  <2>1. copy' \in [Validators -> RuleMessage] /\ field' \in [Validators -> Fields]
    BY <1>1, <1>8 DEF TypeOK
  <2>2. pc' \in [Validators ->
                   {"idle", "resolve", "reparse", "clear", "merge", "check", "range"}]
    BY <1>4 DEF TypeOK
  <2>3. wire[v] = << >> /\ \A u \in Validators : wire[u] # << >> => pc'[u] \in {"clear", "merge"}
    BY <1>2, <1>7 DEF TypeOK
  <2> QED  BY <1>2, <1>3, <1>6, <2>1, <2>2, <2>3 DEF TypeOK
<1>10. StepOf(v)
  <2>1. \A u \in Validators \ {v} : Own(u)' = Own(u)
    BY <1>1, <1>2, <1>6, <1>7 DEF Own, TypeOK
  <2> QED  BY <1>1, <1>2, <1>4, <1>5, <1>6, <1>7, <2>1 DEF StepOf
<1>11. OwnWork(v)'
  BY <1>1, <1>2, <1>3, <1>4, <1>7 DEF OwnWork, WorkInv
<1>12. OwnAt(v)'
  <2> SUFFICES ASSUME declared[f].options # "malformed", ~Contended(f)
               PROVE  At(v)'
    BY <1>3, <1>4, <1>7 DEF OwnAt, Contended, Shared
  <2>1. Mine(v)' = IF Shared(f) THEN messages[f] ELSE declared[f].rules
    BY <1>1, <1>2, <1>3, <1>7 DEF Mine, Shared, TypeOK
  <2>2. Shared(f) => Unwritten(f)
    <3> SUFFICES ASSUME Shared(f), Wire(f) # << >> PROVE Unwritten(f)
      BY DEF Unwritten
    <3>1. \A u \in active : u = v
      BY <1>2, TwoContend
    <3> QED  BY <1>1, <1>2, <3>1 DEF Unwritten
  <2>3. Mine(v)' = declared[f].rules
    BY <2>1, <2>2 DEF WrittenInv
  <2> QED  BY <1>3, <1>4, <1>7, <2>3 DEF At
<1>13. OwnResult(v)'
  <2>1. \A g \in Fields : Contended(g)' = Contended(g) /\ Expected(v, g)' = Expected(v, g)
    BY <1>3 DEF Contended, Shared, Expected
  <2>2. declared[f].options = "malformed" => Expected(v, f) = Built({})
    BY DEF Expected
  <2> SUFFICES ASSUME NEW g \in Fields, outcome'[v][g].err # "unbuilt", ~Contended(g)
               PROVE  outcome'[v][g] = Expected(v, g)
    BY <2>1 DEF OwnResult
  <2>3. outcome[v][g].err # "unbuilt" => outcome[v][g] = Expected(v, g)
    BY <1>2 DEF OwnOutcome
  <2> QED  BY <1>6, <2>2, <2>3
<1>14. OwnConserved(v)
  <2>1. \A g : Taken(v, g) = << >> /\ Taken(v, g)' = << >>
    BY <1>2, <1>4 DEF Taken
  <2> QED  BY <1>2, <2>1 DEF OwnConserved
<1> QED  BY <1>9, <1>10, <1>11, <1>12, <1>13, <1>14, FrameKeeps

(* An action that ends Build with the result it ought to have.             *)
LEMMA ReturnKeeps ==
    ASSUME IInv, NEW v \in active, pc[v] # "idle", NEW result \in Outcome,
           result.err # "unbuilt", Return(v, field[v], result),
           UNCHANGED <<setup, messages, copy, field, range, asts, compiled>>,
           wire' = [wire EXCEPT ![v] = << >>],
           ~Contended(field[v]) => result = Expected(v, field[v]),
           pc[v] = "merge" => result.err = "parse"
    PROVE  IInv'
<1> USE DEF IInv
<1> DEFINE f == field[v]
<1>1. /\ active' = active /\ kind' = kind /\ declared' = declared
      /\ resolver' = resolver /\ allow' = allow
  BY DEF setup
<1>2. v \in Validators /\ f \in Fields
  BY DEF TypeOK
<1>3. /\ outcome' \in [Validators -> [Fields -> Outcome]]
      /\ pc' = [pc EXCEPT ![v] = "idle"]
      /\ outcome'[v][f] = result
      /\ outcome'[v][f] # outcome[v][f]
      /\ \A u \in Validators \ {v} : outcome'[u] = outcome[u]
      /\ \A g \in Fields : outcome'[v][g] # outcome[v][g] =>
            g = f /\ outcome[v][g].err = "unbuilt" /\ outcome'[v][g].err # "unbuilt"
      /\ OwnResult(v)'
  BY Returns
<1>4. pc'[v] = "idle" /\ \A u \in Validators \ {v} : pc'[u] = pc[u]
  BY <1>2, <1>3 DEF TypeOK
<1>5. /\ wire' \in [Validators -> Seq(Rules)] /\ wire'[v] = << >>
      /\ \A u \in Validators \ {v} : wire'[u] = wire[u]
  <2>1. << >> \in Seq(Rules)
    OBVIOUS
  <2> QED  BY <1>2, <2>1 DEF TypeOK
<1>6. TypeOK'
  <2>1. \A u \in Validators : wire'[u] # << >> => pc'[u] \in {"clear", "merge"}
    BY <1>4, <1>5 DEF TypeOK
  <2>2. pc' \in [Validators ->
                   {"idle", "resolve", "reparse", "clear", "merge", "check", "range"}]
    BY <1>3 DEF TypeOK
  <2> QED  BY <1>1, <1>3, <1>5, <2>1, <2>2 DEF TypeOK
<1>7. StepOf(v)
  BY <1>3, <1>4, <1>5 DEF StepOf, Own
<1>8. OwnWork(v)' /\ OwnAt(v)'
  BY <1>1, <1>2, <1>4 DEF OwnWork, OwnAt, WorkInv
<1>9. OwnConserved(v)
  <2>1. \A g : Taken(v, g)' = << >>
    BY <1>4 DEF Taken
  <2>2. \A g : pc[v] # "merge" \/ g # f => Taken(v, g) = << >>
    BY DEF Taken
  <2>3. pc[v] = "merge" => outcome'[v][f].err = "parse"
    BY <1>3
  <2> QED  BY <2>1, <2>2, <2>3 DEF OwnConserved
<1> QED  BY <1>2, <1>3, <1>6, <1>7, <1>8, <1>9, FrameKeeps

LEMMA Wireless ==
    ASSUME TypeOK, NEW v \in Validators, pc[v] \notin {"clear", "merge"}
    PROVE  wire[v] = << >> /\ wire = [wire EXCEPT ![v] = << >>]
<1>1. wire[v] = << >> /\ wire \in [Validators -> Seq(Rules)]
  BY DEF TypeOK
<1> QED  BY <1>1

(* A step of v that neither starts nor ends a Build.                       *)
LEMMA WorkKeeps ==
    ASSUME IInv, NEW v \in active, pc[v] # "idle", NEW l \in
               {"resolve", "reparse", "clear", "merge", "check", "range"},
           pc' = [pc EXCEPT ![v] = l], UNCHANGED <<setup, field, outcome>>,
           messages' \in [Fields -> RuleMessage], copy' \in [Validators -> RuleMessage],
           wire' \in [Validators -> Seq(Rules)], range' \in [Validators -> SUBSET Rules],
           asts' \in [Validators -> SUBSET Rules], compiled' \in [Validators -> SUBSET Rules],
           wire'[v] # << >> => l \in {"clear", "merge"},
           \A u \in Validators \ {v} :
               /\ wire'[u] = wire[u] /\ range'[u] = range[u] /\ asts'[u] = asts[u]
               /\ compiled'[u] = compiled[u] /\ copy'[u] = copy[u],
           \A f \in Fields : messages'[f] # messages[f] =>
               f = field[v] /\ Shared(f) /\ pc[v] \in {"clear", "merge"},
           l # "resolve" => declared[field[v]].match = "match",
           l \in {"clear", "merge"} => Wire(field[v]) # << >>,
           \A r \in compiled'[v] : kind[r] # "bad",
           ~Contended(field[v]) => At(v)',
           OwnConserved(v)
    PROVE  IInv'
<1> USE DEF IInv
<1>1. /\ active' = active /\ kind' = kind /\ declared' = declared
      /\ resolver' = resolver /\ allow' = allow
  BY DEF setup
<1>2. v \in Validators /\ field[v] \in Fields
  BY DEF TypeOK
<1>3. pc'[v] = l /\ \A u \in Validators \ {v} : pc'[u] = pc[u]
  BY <1>2 DEF TypeOK
<1>4. TypeOK'
  <2>1. \A u \in Validators : wire'[u] # << >> => pc'[u] \in {"clear", "merge"}
    BY <1>3 DEF TypeOK
  <2>2. pc' \in [Validators ->
                   {"idle", "resolve", "reparse", "clear", "merge", "check", "range"}]
    BY DEF TypeOK
  <2> QED  BY <1>1, <2>1, <2>2 DEF TypeOK
<1>5. StepOf(v)
  BY <1>2, <1>3 DEF StepOf, Own
<1>6. OwnWork(v)'
  BY <1>1, <1>2, <1>3 DEF OwnWork, WorkInv, Wire
<1>7. OwnAt(v)'
  BY <1>1 DEF OwnAt, Contended, Shared
<1>8. OwnResult(v)'
  BY Continues
<1> QED  BY <1>2, <1>4, <1>5, <1>6, <1>7, <1>8, FrameKeeps

(* Such a step that leaves the rule messages alone.                        *)
LEMMA Reads ==
    ASSUME IInv, NEW v \in active, NEW l, pc' = [pc EXCEPT ![v] = l],
           UNCHANGED <<setup, messages, copy, field, outcome>>,
           pc[v] # "merge" \/ wire[v] = << >>, l # "merge"
    PROVE  /\ v \in Validators /\ field[v] \in Fields /\ pc'[v] = l
           /\ messages' \in [Fields -> RuleMessage] /\ copy' \in [Validators -> RuleMessage]
           /\ Mine(v)' = Mine(v) /\ field'[v] = field[v]
           /\ declared' = declared /\ kind' = kind /\ resolver' = resolver /\ allow' = allow
           /\ OwnConserved(v)
<1>1. v \in Validators /\ pc'[v] = l /\ field[v] \in Fields
  BY DEF IInv, TypeOK
<1>2. \A g : Taken(v, g) = << >> /\ Taken(v, g)' = << >>
  BY <1>1 DEF Taken
<1>3. OwnConserved(v)
  BY <1>2 DEF OwnConserved
<1>4. Mine(v)' = Mine(v)
  BY DEF setup, Mine, Shared
<1> QED  BY <1>1, <1>3, <1>4 DEF IInv, TypeOK, setup

LEMMA ResolveRulesKeeps ==
    ASSUME IInv, NEW v \in Validators, ResolveRules(v)
    PROVE  IInv'
<1> USE DEF IInv
<1> DEFINE f == field[v]
<1>1. /\ pc[v] = "resolve"
      /\ UNCHANGED <<setup, messages, copy, field, wire, range, asts, compiled>>
  BY DEF ResolveRules
<1>2. /\ v \in active /\ f \in Fields /\ declared[f].options # "malformed"
      /\ wire[v] = << >>
  BY <1>1 DEF WorkInv, TypeOK
<1>3. CASE declared[f].match = "match" /\ pc' = [pc EXCEPT ![v] = "reparse"]
           /\ UNCHANGED outcome
  <2>1. /\ pc'[v] = "reparse" /\ Mine(v)' = Mine(v) /\ OwnConserved(v)
        /\ declared' = declared /\ field' = field
        /\ messages' \in [Fields -> RuleMessage] /\ copy' \in [Validators -> RuleMessage]
    BY <1>1, <1>2, <1>3, Reads
  <2>2. ~Contended(f) => At(v)'
    BY <1>1, <1>2, <2>1 DEF AtInv, At
  <2>3. /\ wire' \in [Validators -> Seq(Rules)] /\ range' \in [Validators -> SUBSET Rules]
        /\ asts' \in [Validators -> SUBSET Rules] /\ compiled' \in [Validators -> SUBSET Rules]
        /\ \A r \in compiled'[v] : kind[r] # "bad"
    BY <1>1 DEF TypeOK, WorkInv
  <2> QED  BY <1>1, <1>2, <1>3, <2>1, <2>2, <2>3, WorkKeeps
<1>4. CASE declared[f].match = "absent" /\ Return(v, f, Built({}))
  BY <1>1, <1>2, <1>4, Wireless, ReturnKeeps, OutcomeType, ExpectedCases
<1>5. CASE declared[f].match = "mismatch" /\ Return(v, f, Failed("mismatch"))
  BY <1>1, <1>2, <1>5, Wireless, ReturnKeeps, OutcomeType, ExpectedCases DEF Errors
<1> QED  BY <1>3, <1>4, <1>5 DEF ResolveRules

LEMMA GetUnknownKeeps ==
    ASSUME IInv, NEW v \in Validators, GetUnknown(v)
    PROVE  IInv'
<1> USE DEF IInv
<1> DEFINE f == field[v]
           s == Mine(v).unknown
           l == IF s = << >> THEN "check" ELSE "clear"
<1>1. /\ pc[v] = "reparse" /\ wire' = [wire EXCEPT ![v] = s] /\ pc' = [pc EXCEPT ![v] = l]
      /\ UNCHANGED <<setup, messages, copy, field, range, asts, compiled, outcome>>
  BY DEF GetUnknown
<1>2. /\ v \in active /\ f \in Fields /\ declared[f].match = "match"
      /\ s \in Seq(Rules)
  BY <1>1, MineType DEF WorkInv
<1>3. /\ pc'[v] = l /\ Mine(v)' = Mine(v) /\ OwnConserved(v)
      /\ declared' = declared /\ field'[v] = f /\ resolver' = resolver
      /\ messages' \in [Fields -> RuleMessage] /\ copy' \in [Validators -> RuleMessage]
  BY <1>1, <1>2, Reads
<1>4. wire' \in [Validators -> Seq(Rules)] /\ wire'[v] = s
      /\ \A u \in Validators \ {v} : wire'[u] = wire[u]
  BY <1>1, <1>2 DEF TypeOK
<1>5. ~Contended(f) => Mine(v) = declared[f].rules
  BY <1>1, <1>2 DEF AtInv, At
<1>6. l = "clear" => Wire(f) # << >>
  BY <1>5 DEF Wire, Contended
<1>7. ASSUME ~Contended(f) PROVE At(v)'
  <2>1. CASE s = << >>
    <3>1. Parsed(v, f, Mine(v), << >>)
      BY <1>5, <1>7, <2>1, NothingToParse
    <3>2. Parsed(v, f, Mine(v), << >>)'
      BY <1>3, <3>1 DEF Parsed, Resolved, Among, Wire
    <3> QED  BY <1>3, <1>4, <2>1, <3>2 DEF At
  <2>2. CASE s # << >>
    BY <1>3, <1>4, <1>5, <1>7, <2>2 DEF At, Wire
  <2> QED  BY <2>1, <2>2
<1>8. /\ range' \in [Validators -> SUBSET Rules] /\ asts' \in [Validators -> SUBSET Rules]
      /\ compiled' \in [Validators -> SUBSET Rules]
      /\ \A r \in compiled'[v] : kind[r] # "bad"
  BY <1>1 DEF TypeOK, WorkInv
<1>9. /\ l \in {"resolve", "reparse", "clear", "merge", "check", "range"} /\ l # "resolve"
      /\ (wire'[v] # << >> => l \in {"clear", "merge"})
      /\ (l \in {"clear", "merge"} => Wire(f) # << >>)
  BY <1>4, <1>6
<1> HIDE DEF l, s
<1> QED  BY <1>1, <1>2, <1>3, <1>4, <1>7, <1>8, <1>9, WorkKeeps

LEMMA ClearUnknownKeeps ==
    ASSUME IInv, NEW v \in Validators, ClearUnknown(v)
    PROVE  IInv'
<1> USE DEF IInv
<1> DEFINE f == field[v]
           m == [Mine(v) EXCEPT !.unknown = << >>]
<1>1. /\ pc[v] = "clear" /\ SetMine(v, m) /\ pc' = [pc EXCEPT ![v] = "merge"]
      /\ UNCHANGED <<setup, field, wire, range, asts, compiled, outcome>>
  BY DEF ClearUnknown
<1>2. /\ v \in active /\ f \in Fields /\ declared[f].match = "match" /\ Wire(f) # << >>
      /\ Mine(v) \in RuleMessage
  BY <1>1, MineType DEF WorkInv
<1>3. /\ m \in RuleMessage
      /\ \A w : Mine(v) = declared[f].rules => Parsed(w, f, m, Wire(f))
      /\ Conserved(f, Mine(v), << >>) => Conserved(f, m, Mine(v).unknown)
  BY <1>2, ClearStep
<1> HIDE DEF m
<1>4. /\ messages' \in [Fields -> RuleMessage] /\ copy' \in [Validators -> RuleMessage]
      /\ Mine(v)' = m /\ declared' = declared /\ resolver' = resolver /\ field'[v] = f
      /\ \A u \in Validators \ {v} : copy'[u] = copy[u]
      /\ \A g \in Fields : messages'[g] # messages[g] => g = f /\ Shared(g)
      /\ Shared(f) => messages[f] = Mine(v) /\ messages'[f] = m
  BY <1>1, <1>3, MineSet DEF setup
<1>5. pc'[v] = "merge"
  BY <1>1 DEF TypeOK
<1>6. ~Contended(f) => Mine(v) = declared[f].rules /\ wire[v] = Wire(f)
  BY <1>1, <1>2 DEF AtInv, At
<1>7. ASSUME ~Contended(f) PROVE At(v)'
  <2>1. Parsed(v, f, m, wire[v])
    BY <1>3, <1>6, <1>7
  <2> QED  BY <1>1, <1>4, <1>5, <2>1 DEF At, Parsed, Resolved, Among, Wire
<1>8. OwnConserved(v)
  <2> SUFFICES ASSUME NEW g \in Fields, Shared(g), ~Contended(g),
                      Conserved(g, messages[g], Taken(v, g))
               PROVE  Conserved(g, messages'[g], Taken(v, g)')
    BY DEF OwnConserved
  <2>1. Taken(v, g) = << >> /\ Taken(v, g)' = IF g = f THEN wire[v] ELSE << >>
    BY <1>1, <1>4, <1>5 DEF Taken
  <2>2. CASE g = f
    <3>1. wire[v] = Mine(v).unknown
      BY <1>6, <2>2 DEF Wire
    <3> QED  BY <1>3, <1>4, <2>1, <2>2, <3>1
  <2>3. CASE g # f
    BY <1>4, <2>1, <2>3
  <2> QED  BY <2>2, <2>3
<1>9. /\ wire' \in [Validators -> Seq(Rules)]
      /\ range' \in [Validators -> SUBSET Rules] /\ asts' \in [Validators -> SUBSET Rules]
      /\ compiled' \in [Validators -> SUBSET Rules]
      /\ \A r \in compiled'[v] : kind[r] # "bad"
  BY <1>1 DEF TypeOK, WorkInv
<1> QED  BY <1>1, <1>2, <1>4, <1>7, <1>8, <1>9, WorkKeeps

LEMMA UnmarshalKeeps ==
    ASSUME IInv, NEW v \in Validators, Unmarshal(v)
    PROVE  IInv'
<1> USE DEF IInv
<1> DEFINE f == field[v]
           s == wire[v]
           r == Head(wire[v])
           known == [Mine(v) EXCEPT !.known = @ \cup {r}]
           unknown == [Mine(v) EXCEPT !.unknown = Append(@, r)]
<1>1. /\ pc[v] = "merge" /\ s # << >>
      /\ UNCHANGED <<setup, field, range, asts, compiled>>
      /\ \/ /\ resolver[v][r] = "known" /\ SetMine(v, known)
            /\ wire' = [wire EXCEPT ![v] = Tail(s)] /\ UNCHANGED <<pc, outcome>>
         \/ /\ resolver[v][r] = "missing" /\ SetMine(v, unknown)
            /\ wire' = [wire EXCEPT ![v] = Tail(s)] /\ UNCHANGED <<pc, outcome>>
         \/ /\ resolver[v][r] = "malformed" /\ Return(v, f, Failed("parse"))
            /\ wire' = [wire EXCEPT ![v] = << >>] /\ UNCHANGED <<messages, copy>>
  BY DEF Unmarshal, TypeOK
<1>2. /\ v \in active /\ f \in Fields /\ declared[f].match = "match" /\ Wire(f) # << >>
      /\ Mine(v) \in RuleMessage /\ s \in Seq(Rules) /\ declared[f].options # "malformed"
      /\ Mine(v).known \in SUBSET Rules /\ Mine(v).unknown \in Seq(Rules)
  BY <1>1, MineType DEF WorkInv, TypeOK
<1>3. r \in Rules /\ Tail(s) \in Seq(Rules)
  BY <1>1, <1>2, HeadTail
<1>4. known \in RuleMessage /\ unknown \in RuleMessage
  BY <1>2, <1>3, AppendSet DEF RuleMessage
<1>5. ~Contended(f) => Parsed(v, f, Mine(v), s)
  BY <1>1, <1>2 DEF AtInv, At
<1>6. ~Contended(f) =>
        /\ resolver[v][r] = "known" => Parsed(v, f, known, Tail(s))
        /\ resolver[v][r] = "missing" => Parsed(v, f, unknown, Tail(s))
        /\ resolver[v][r] = "malformed" => Among(v, Wire(f), "malformed") # {}
  <2> SUFFICES ASSUME ~Contended(f)
               PROVE  /\ resolver[v][r] = "known" => Parsed(v, f, known, Tail(s))
                      /\ resolver[v][r] = "missing" => Parsed(v, f, unknown, Tail(s))
                      /\ resolver[v][r] = "malformed" =>
                            Among(v, Wire(f), "malformed") # {}
    OBVIOUS
  <2>1. PICK g, m, w : g = f /\ m = Mine(v) /\ w = s
    OBVIOUS
  <2>2. m \in RuleMessage /\ w \in Seq(Rules) /\ w # << >> /\ Parsed(v, g, m, w)
    BY <1>1, <1>2, <1>5, <2>1
  <2>3. /\ resolver[v][Head(w)] = "known" =>
              Parsed(v, g, [m EXCEPT !.known = @ \cup {Head(w)}], Tail(w))
        /\ resolver[v][Head(w)] = "missing" =>
              Parsed(v, g, [m EXCEPT !.unknown = Append(@, Head(w))], Tail(w))
        /\ resolver[v][Head(w)] = "malformed" =>
              Among(v, Wire(g), "malformed") # {}
    BY ONLY <2>2, ParsedStep
  <2> QED  BY <2>1, <2>3
<1>7. Conserved(f, Mine(v), s) => Conserved(f, known, Tail(s)) /\ Conserved(f, unknown, Tail(s))
  BY <1>1, <1>2, ConservedStep
<1> HIDE DEF r, known, unknown
<1>8. ASSUME NEW m \in RuleMessage, SetMine(v, m), wire' = [wire EXCEPT ![v] = Tail(s)],
             UNCHANGED <<pc, outcome>>, ~Contended(f) => Parsed(v, f, m, Tail(s)),
             Conserved(f, Mine(v), s) => Conserved(f, m, Tail(s))
      PROVE  IInv'
  <2>1. /\ messages' \in [Fields -> RuleMessage] /\ copy' \in [Validators -> RuleMessage]
        /\ Mine(v)' = m /\ declared' = declared /\ resolver' = resolver /\ field'[v] = f
        /\ \A u \in Validators \ {v} : copy'[u] = copy[u]
        /\ \A g \in Fields : messages'[g] # messages[g] => g = f /\ Shared(g)
        /\ Shared(f) => messages[f] = Mine(v) /\ messages'[f] = m
    BY <1>1, <1>8, MineSet DEF setup
  <2>2. /\ wire' \in [Validators -> Seq(Rules)] /\ wire'[v] = Tail(s)
        /\ \A u \in Validators \ {v} : wire'[u] = wire[u]
    BY <1>3, <1>8 DEF TypeOK
  <2>3. pc' = [pc EXCEPT ![v] = "merge"] /\ pc'[v] = "merge"
    BY <1>1, <1>8 DEF TypeOK
  <2>4. ASSUME ~Contended(f) PROVE At(v)'
    BY <1>8, <2>1, <2>2, <2>3, <2>4 DEF At, Parsed, Resolved, Among, Wire
  <2>5. OwnConserved(v)
    <3> SUFFICES ASSUME NEW g \in Fields, Shared(g), ~Contended(g),
                        Conserved(g, messages[g], Taken(v, g))
                 PROVE  Conserved(g, messages'[g], Taken(v, g)')
      BY DEF OwnConserved
    <3>1. /\ Taken(v, g) = IF g = f THEN s ELSE << >>
          /\ Taken(v, g)' = IF g = f THEN Tail(s) ELSE << >>
      BY <1>1, <2>1, <2>2, <2>3 DEF Taken
    <3>2. CASE g = f
      BY <1>8, <2>1, <3>1, <3>2
    <3>3. CASE g # f
      BY <2>1, <3>1, <3>3
    <3> QED  BY <3>2, <3>3
  <2>6. /\ range' \in [Validators -> SUBSET Rules] /\ asts' \in [Validators -> SUBSET Rules]
        /\ compiled' \in [Validators -> SUBSET Rules]
        /\ \A q \in compiled'[v] : kind[q] # "bad"
    BY <1>1 DEF TypeOK, WorkInv
  <2> QED  BY <1>1, <1>2, <1>8, <2>1, <2>2, <2>3, <2>4, <2>5, <2>6, WorkKeeps
<1>9. CASE resolver[v][r] = "known" /\ SetMine(v, known)
           /\ wire' = [wire EXCEPT ![v] = Tail(s)] /\ UNCHANGED <<pc, outcome>>
  BY <1>4, <1>6, <1>7, <1>8, <1>9
<1>10. CASE resolver[v][r] = "missing" /\ SetMine(v, unknown)
            /\ wire' = [wire EXCEPT ![v] = Tail(s)] /\ UNCHANGED <<pc, outcome>>
  BY <1>4, <1>6, <1>7, <1>8, <1>10
<1>11. CASE resolver[v][r] = "malformed" /\ Return(v, f, Failed("parse"))
            /\ wire' = [wire EXCEPT ![v] = << >>] /\ UNCHANGED <<messages, copy>>
  <2>1. ~Contended(f) => Failed("parse") = Expected(v, f)
    BY <1>2, <1>6, <1>11, ExpectedCases
  <2> QED  BY <1>1, <1>2, <1>11, <2>1, OutcomeType, ReturnKeeps DEF Errors
<1> QED  BY <1>1, <1>9, <1>10, <1>11

LEMMA UnmarshalledKeeps ==
    ASSUME IInv, NEW v \in Validators, Unmarshalled(v)
    PROVE  IInv'
<1> USE DEF IInv
<1> DEFINE f == field[v]
<1>1. /\ pc[v] = "merge" /\ wire[v] = << >> /\ pc' = [pc EXCEPT ![v] = "check"]
      /\ UNCHANGED <<setup, messages, copy, field, wire, range, asts, compiled, outcome>>
  BY DEF Unmarshalled
<1>2. v \in active /\ f \in Fields /\ declared[f].match = "match"
  BY <1>1 DEF WorkInv, TypeOK
<1>3. /\ pc'[v] = "check" /\ Mine(v)' = Mine(v) /\ OwnConserved(v)
      /\ declared' = declared /\ field'[v] = f /\ resolver' = resolver
      /\ messages' \in [Fields -> RuleMessage] /\ copy' \in [Validators -> RuleMessage]
  BY <1>1, <1>2, Reads
<1>4. ASSUME ~Contended(f) PROVE At(v)'
  <2>1. Parsed(v, f, Mine(v), wire[v])
    BY <1>1, <1>2, <1>4 DEF AtInv, At
  <2> QED  BY <1>1, <1>3, <2>1 DEF At, Parsed, Resolved, Among, Wire
<1>5. /\ wire' \in [Validators -> Seq(Rules)]
      /\ range' \in [Validators -> SUBSET Rules] /\ asts' \in [Validators -> SUBSET Rules]
      /\ compiled' \in [Validators -> SUBSET Rules]
      /\ \A q \in compiled'[v] : kind[q] # "bad"
  BY <1>1 DEF TypeOK, WorkInv
<1> QED  BY <1>1, <1>2, <1>3, <1>4, <1>5, WorkKeeps

LEMMA CheckUnknownKeeps ==
    ASSUME IInv, NEW v \in Validators, CheckUnknown(v)
    PROVE  IInv'
<1> USE DEF IInv
<1> DEFINE f == field[v]
<1>1. /\ pc[v] = "check"
      /\ UNCHANGED <<setup, messages, copy, field, wire, compiled>>
      /\ \/ /\ ~allow[v] /\ Mine(v).unknown # << >>
            /\ Return(v, f, Failed("unknown")) /\ UNCHANGED <<range, asts>>
         \/ /\ allow[v] \/ Mine(v).unknown = << >>
            /\ range' = [range EXCEPT ![v] = Mine(v).known]
            /\ asts' = [asts EXCEPT ![v] = {}]
            /\ pc' = [pc EXCEPT ![v] = "range"] /\ UNCHANGED outcome
  BY DEF CheckUnknown
<1>2. /\ v \in active /\ f \in Fields /\ declared[f].match = "match"
      /\ declared[f].options # "malformed" /\ wire[v] = << >>
      /\ Mine(v).known \in SUBSET Rules /\ Mine(v).unknown \in Seq(Rules)
  BY <1>1, MineType DEF WorkInv, TypeOK
<1>3. ASSUME ~Contended(f)
      PROVE  /\ Mine(v).known = Resolved(v, f)
             /\ Among(v, Wire(f), "malformed") = {}
             /\ Among(v, Wire(f), "missing") = {} <=> Mine(v).unknown = << >>
  <2>1. Parsed(v, f, Mine(v), << >>)
    BY <1>1, <1>2, <1>3 DEF AtInv, At
  <2>2. \A what : Among(v, << >>, what) = {}
    BY <1>2, EmptySet DEF Among
  <2>3. ToSet(Mine(v).unknown) = {} <=> Mine(v).unknown = << >>
    BY <1>2, EmptySet
  <2> QED  BY <2>1, <2>2, <2>3 DEF Parsed
<1>4. CASE /\ ~allow[v] /\ Mine(v).unknown # << >>
           /\ Return(v, f, Failed("unknown")) /\ UNCHANGED <<range, asts>>
  <2>1. ~Contended(f) => Failed("unknown") = Expected(v, f)
    BY <1>2, <1>3, <1>4, ExpectedCases
  <2> QED  BY <1>1, <1>2, <1>4, <2>1, Wireless, OutcomeType, ReturnKeeps DEF Errors
<1>5. CASE /\ allow[v] \/ Mine(v).unknown = << >>
           /\ range' = [range EXCEPT ![v] = Mine(v).known]
           /\ asts' = [asts EXCEPT ![v] = {}]
           /\ pc' = [pc EXCEPT ![v] = "range"] /\ UNCHANGED outcome
  <2>1. /\ pc'[v] = "range" /\ OwnConserved(v)
        /\ declared' = declared /\ field'[v] = f /\ resolver' = resolver
        /\ kind' = kind /\ allow' = allow
        /\ messages' \in [Fields -> RuleMessage] /\ copy' \in [Validators -> RuleMessage]
    BY <1>1, <1>2, <1>5, Reads
  <2>2. /\ range' \in [Validators -> SUBSET Rules] /\ asts' \in [Validators -> SUBSET Rules]
        /\ range'[v] = Mine(v).known /\ asts'[v] = {}
        /\ \A u \in Validators \ {v} : range'[u] = range[u] /\ asts'[u] = asts[u]
    BY <1>2, <1>5 DEF TypeOK
  <2>3. ASSUME ~Contended(f) PROVE At(v)'
    <3>1. Accepted(v, f)
      BY <1>3, <1>5, <2>3 DEF Accepted
    <3>2. Resolved(v, f) \ range'[v] = {} /\ WithPrograms({}) = {}
      BY <1>3, <2>2, <2>3 DEF WithPrograms
    <3>3. /\ Accepted(v, f)' /\ Resolved(v, f)' = Resolved(v, f) /\ WithPrograms({})' = {}
      BY <2>1, <3>1 DEF Accepted, Resolved, Among, Wire, WithPrograms
    <3> QED  BY <1>3, <2>1, <2>2, <2>3, <3>2, <3>3 DEF At
  <2>4. /\ wire' \in [Validators -> Seq(Rules)] /\ compiled' \in [Validators -> SUBSET Rules]
        /\ \A q \in compiled'[v] : kind[q] # "bad"
    BY <1>1 DEF TypeOK, WorkInv
  <2> QED  BY <1>1, <1>2, <1>5, <2>1, <2>2, <2>3, <2>4, WorkKeeps
<1> QED  BY <1>1, <1>4, <1>5

LEMMA CompileRuleKeeps ==
    ASSUME IInv, NEW v \in Validators, CompileRule(v)
    PROVE  IInv'
<1> USE DEF IInv
<1> DEFINE f == field[v]
<1>1. pc[v] = "range" /\ UNCHANGED <<setup, messages, copy, field, wire>>
  BY DEF CompileRule
<1>2. PICK r \in range[v] :
        \/ /\ r \in compiled[v] \/ kind[r] # "bad"
           /\ asts' = [asts EXCEPT ![v] =
                          IF kind[r] \in {"plain", "rule"} THEN @ \cup {r} ELSE @]
           /\ compiled' = [compiled EXCEPT ![v] = @ \cup {r}]
           /\ range' = [range EXCEPT ![v] = @ \ {r}]
           /\ UNCHANGED <<pc, outcome>>
        \/ /\ r \notin compiled[v] /\ kind[r] = "bad"
           /\ Return(v, f, Failed("compile"))
           /\ UNCHANGED <<range, asts, compiled>>
  BY DEF CompileRule
<1>3. /\ v \in active /\ f \in Fields /\ declared[f].match = "match"
      /\ declared[f].options # "malformed" /\ wire[v] = << >>
      /\ r \in Rules /\ kind[r] \in Kind
      /\ \A q \in compiled[v] : kind[q] # "bad"
  BY <1>1 DEF WorkInv, TypeOK
<1>4. ASSUME ~Contended(f)
      PROVE  /\ Accepted(v, f) /\ range[v] \subseteq Resolved(v, f)
             /\ asts[v] = WithPrograms(Resolved(v, f) \ range[v])
             /\ \A q \in Resolved(v, f) \ range[v] : kind[q] # "bad"
  BY <1>1, <1>3, <1>4 DEF AtInv, At
<1>5. CASE /\ r \notin compiled[v] /\ kind[r] = "bad"
           /\ Return(v, f, Failed("compile"))
           /\ UNCHANGED <<range, asts, compiled>>
  <2>1. ~Contended(f) => Failed("compile") = Expected(v, f)
    BY <1>3, <1>4, <1>5, ExpectedCases
  <2> QED  BY <1>1, <1>3, <1>5, <2>1, Wireless, OutcomeType, ReturnKeeps DEF Errors
<1>6. CASE /\ r \in compiled[v] \/ kind[r] # "bad"
           /\ asts' = [asts EXCEPT ![v] =
                          IF kind[r] \in {"plain", "rule"} THEN @ \cup {r} ELSE @]
           /\ compiled' = [compiled EXCEPT ![v] = @ \cup {r}]
           /\ range' = [range EXCEPT ![v] = @ \ {r}]
           /\ UNCHANGED <<pc, outcome>>
  <2>1. kind[r] # "bad"
    BY <1>3, <1>6
  <2>2. pc' = [pc EXCEPT ![v] = "range"]
    BY <1>1, <1>6 DEF TypeOK
  <2>3. /\ pc'[v] = "range" /\ OwnConserved(v)
        /\ declared' = declared /\ field'[v] = f /\ resolver' = resolver
        /\ kind' = kind /\ allow' = allow
        /\ messages' \in [Fields -> RuleMessage] /\ copy' \in [Validators -> RuleMessage]
    BY <1>1, <1>3, <1>6, <2>2, Reads
  <2>4. /\ range' \in [Validators -> SUBSET Rules] /\ range'[v] = range[v] \ {r}
        /\ \A u \in Validators \ {v} : range'[u] = range[u]
    BY <1>3, <1>6 DEF TypeOK
  <2>5. /\ compiled' \in [Validators -> SUBSET Rules] /\ compiled'[v] = compiled[v] \cup {r}
        /\ \A u \in Validators \ {v} : compiled'[u] = compiled[u]
    BY <1>3, <1>6 DEF TypeOK
  <2>6. /\ asts' \in [Validators -> SUBSET Rules]
        /\ asts'[v] = asts[v] \cup (IF kind[r] \in {"plain", "rule"} THEN {r} ELSE {})
        /\ \A u \in Validators \ {v} : asts'[u] = asts[u]
    BY <1>3, <1>6 DEF TypeOK
  <2>7. ASSUME ~Contended(f) PROVE At(v)'
    <3>1. Resolved(v, f) \ range'[v] = (Resolved(v, f) \ range[v]) \cup {r}
      BY <1>4, <2>4, <2>7
    <3>2. asts'[v] = WithPrograms(Resolved(v, f) \ range'[v])
      BY <1>3, <1>4, <2>1, <2>6, <2>7, <3>1 DEF WithPrograms, Kind
    <3>3. \A q \in Resolved(v, f) \ range'[v] : kind[q] # "bad"
      BY <1>4, <2>1, <2>7, <3>1
    <3>4. /\ Accepted(v, f)' = Accepted(v, f) /\ Resolved(v, f)' = Resolved(v, f)
          /\ \A Q : WithPrograms(Q)' = WithPrograms(Q)
      BY <2>3 DEF Accepted, Resolved, Among, Wire, WithPrograms
    <3>5. WithPrograms(Resolved(v, f) \ range[v])' = WithPrograms(Resolved(v, f) \ range'[v])
      BY <2>3, <3>4 DEF WithPrograms
    <3> QED  BY <1>4, <2>3, <2>4, <2>7, <3>2, <3>3, <3>4, <3>5 DEF At
  <2>8. wire' \in [Validators -> Seq(Rules)] /\ \A q \in compiled'[v] : kind[q] # "bad"
    BY <1>1, <1>3, <2>1, <2>5 DEF TypeOK
  <2> QED  BY <1>1, <1>3, <1>6, <2>2, <2>3, <2>4, <2>5, <2>6, <2>7, <2>8, WorkKeeps
<1> QED  BY <1>2, <1>5, <1>6

LEMMA ReduceResidualsKeeps ==
    ASSUME IInv, NEW v \in Validators, ReduceResiduals(v)
    PROVE  IInv'
<1> USE DEF IInv
<1> DEFINE f == field[v]
<1>1. /\ pc[v] = "range" /\ range[v] = {} /\ Return(v, f, Built(asts[v]))
      /\ UNCHANGED <<setup, messages, copy, field, wire, range, asts, compiled>>
  BY DEF ReduceResiduals
<1>2. /\ v \in active /\ f \in Fields /\ declared[f].match = "match"
      /\ declared[f].options # "malformed" /\ asts[v] \in SUBSET Rules
  BY <1>1 DEF WorkInv, TypeOK
<1>3. ASSUME ~Contended(f) PROVE Built(asts[v]) = Expected(v, f)
  <2>1. /\ Accepted(v, f) /\ asts[v] = WithPrograms(Resolved(v, f) \ {})
        /\ \A q \in Resolved(v, f) \ {} : kind[q] # "bad"
    BY <1>1, <1>2, <1>3 DEF AtInv, At
  <2>2. Resolved(v, f) \ {} = Resolved(v, f)
    OBVIOUS
  <2> QED  BY <1>2, <2>1, <2>2, ExpectedCases
<1> QED  BY <1>1, <1>2, <1>3, Wireless, OutcomeType, ReturnKeeps

-----------------------------------------------------------------------------
(* The theorems.                                                           *)

LEMMA Declarations ==
    ASSUME declared \in Descriptors, NEW f \in Fields
    PROVE  /\ declared[f].rules \in RuleMessage
           /\ Conserved(f, declared[f].rules, << >>)
<1>1. declared \in [Fields -> Descriptor]
  BY RuleCacheAssumption
<1>2. declared[f].rules \in RuleMessage
  BY <1>1 DEF Descriptor
<1>3. ToSet(<< >>) = {} /\ IsInjective(<< >>)
  BY DEF ToSet, IsInjective
<1> QED  BY <1>2, <1>3, RuleCacheAssumption DEF Conserved, Declared

LEMMA Initially == Init => IInv
<1> SUFFICES ASSUME Init PROVE IInv
  OBVIOUS
<1> USE DEF Init
<1>1. /\ active \in SUBSET Validators /\ active # {} /\ declared \in Descriptors
      /\ kind \in [Rules -> Kind] /\ declared \in [Fields -> Descriptor]
      /\ resolver \in [active -> Resolver]
  BY RuleCacheAssumption
<1>2. messages \in [Fields -> RuleMessage] /\ \A f \in Fields : messages[f] = declared[f].rules
  BY <1>1, Declarations
<1>3. copy \in [Validators -> RuleMessage] /\ wire \in [Validators -> Seq(Rules)]
  BY DEF NoRules, RuleMessage
<1>4. field \in [Validators -> Fields]
  BY RuleCacheAssumption
<1>5. /\ outcome \in [Validators -> [Fields -> Outcome]]
      /\ \A v \in Validators, f \in Fields : outcome[v][f].err = "unbuilt"
  BY DEF Failed, Outcome
<1>6. /\ pc \in [Validators ->
                   {"idle", "resolve", "reparse", "clear", "merge", "check", "range"}]
      /\ range \in [Validators -> SUBSET Rules] /\ asts \in [Validators -> SUBSET Rules]
      /\ compiled \in [Validators -> SUBSET Rules]
      /\ \A v \in Validators : pc[v] = "idle" /\ wire[v] = << >> /\ compiled[v] = {}
  OBVIOUS
<1>7. TypeOK
  BY <1>1, <1>2, <1>3, <1>4, <1>5, <1>6 DEF TypeOK
<1>8. \A v \in active : v \in Validators
  BY <1>1
<1>9. SetupInv /\ WorkInv /\ WrittenInv /\ AtInv /\ OwnOutcome
  BY <1>1, <1>2, <1>5, <1>6, <1>8 DEF SetupInv, WorkInv, WrittenInv, AtInv, OwnOutcome
<1>10. ConservedInv
  <2>1. \A v \in active, f \in Fields : Taken(v, f) = << >>
    BY <1>6, <1>8 DEF Taken
  <2> QED  BY <1>1, <1>2, <2>1, Declarations DEF ConservedInv
<1> QED  BY <1>7, <1>9, <1>10 DEF IInv

LEMMA Stutters ==
    ASSUME IInv, UNCHANGED vars
    PROVE  IInv'
<1> USE DEF vars, IInv
<1>1. TypeOK' /\ SetupInv' /\ WorkInv'
  BY DEF TypeOK, SetupInv, WorkInv, Wire
<1>2. \A f : Contended(f)' = Contended(f) /\ Shared(f)' = Shared(f)
  BY DEF Contended, Shared
<1>3. WrittenInv'
  BY <1>2 DEF WrittenInv, Unwritten, Wire
<1>4. AtInv'
  <2>1. \A v \in active : At(v)' = At(v)
    BY <1>2 DEF At, Parsed, Accepted, WithPrograms, Resolved, Among, Wire, Mine
  <2> QED  BY <1>2, <2>1 DEF AtInv
<1>5. OwnOutcome'
  BY <1>2 DEF OwnOutcome, Expected
<1>6. ConservedInv'
  BY <1>2 DEF ConservedInv, Conserved, Declared, Taken
<1> QED  BY <1>1, <1>3, <1>4, <1>5, <1>6

LEMMA Invariant == Spec => []IInv
<1>1. ASSUME IInv, [Next]_vars PROVE IInv'
  <2>1. ASSUME NEW v \in Validators, Action(v) PROVE IInv'
    BY <1>1, <2>1, ResolveFieldRulesKeeps, ResolveRulesKeeps, GetUnknownKeeps,
       ClearUnknownKeeps, UnmarshalKeeps, UnmarshalledKeeps, CheckUnknownKeeps,
       CompileRuleKeeps, ReduceResidualsKeeps DEF Action
  <2> QED  BY <1>1, <2>1, Stutters DEF Next, Action
<1> QED  BY <1>1, Initially, PTL DEF Spec

(* TypeOK: every variable keeps its type, and bytes taken out of a rule    *)
(* message are held only by a validator that is reparsing it               *)
(* (cache.go:230-237).                                                     *)
THEOREM TypeCorrect == Spec => []TypeOK
<1>1. IInv => TypeOK
  BY DEF IInv
<1> QED  BY <1>1, Invariant, PTL

(* OwnOutcome: the cache of compiled rules (cache.go:43-105) and the       *)
(* messages that validators share are invisible.  What Build returns for a *)
(* field that only one validator can reparse is what the field's           *)
(* descriptor and the validator's own options call for, after any sequence *)
(* of Builds by any validators, failed ones among them.                    *)
THEOREM OutcomesOwn == Spec => []OwnOutcome
<1>1. IInv => OwnOutcome
  BY DEF IInv
<1> QED  BY <1>1, Invariant, PTL

(* RulesConserved: reparseUnrecognized takes bytes out of the options and  *)
(* merges them back one by one (cache.go:230-237); between Builds no rule  *)
(* is lost or doubled unless a parse failed, and options of another type   *)
(* are not written (resolve.go:55-81).                                     *)
THEOREM RulesAreConserved == Spec => []RulesConserved
<1>1. ASSUME IInv PROVE RulesConserved
  <2> USE <1>1 DEF IInv
  <2> SUFFICES ASSUME \A v \in Validators : pc[v] = "idle", NEW f \in Fields, ~Contended(f),
                      ~(Shared(f) /\ \E v \in Validators : outcome[v][f].err = "parse")
               PROVE  /\ messages[f].known \cup ToSet(messages[f].unknown) = Declared(f)
                      /\ messages[f].known \cap ToSet(messages[f].unknown) = {}
                      /\ IsInjective(messages[f].unknown)
                      /\ ~Shared(f) => messages[f] = declared[f].rules
    BY DEF RulesConserved
  <2>1. ToSet(<< >>) = {}
    BY DEF ToSet
  <2>2. ~Shared(f) => messages[f] = declared[f].rules
    BY DEF WrittenInv, Unwritten
  <2>3. Conserved(f, messages[f], << >>)
    <3>1. CASE Shared(f)
      <4>1. PICK v \in active : TRUE
        BY DEF SetupInv
      <4>2. Taken(v, f) = << >>
        BY DEF TypeOK, Taken
      <4> QED  BY <3>1, <4>2 DEF ConservedInv
    <3>2. CASE ~Shared(f)
      BY <2>2, <3>2, Declarations DEF SetupInv
    <3> QED  BY <3>1, <3>2
  <2> QED  BY <2>1, <2>2, <2>3 DEF Conserved
<1> QED  BY <1>1, Invariant, PTL

==============================================================================
