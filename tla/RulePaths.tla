------------------------------- MODULE RulePaths -------------------------------
(***************************************************************************)
(* The rule paths of violations (base.go, error_utils.go).  A rule path is *)
(* a message that violations point to.  Those of the rules that are not    *)
(* CEL expressions are global: a violation found outside a list and a map  *)
(* is given the global message itself, and the levels above it may set the *)
(* elements of what it points to.  Goroutines validate at the same time,   *)
(* and a caller keeps the violations it was given.                         *)
(***************************************************************************)
EXTENDS Integers, Sequences

CONSTANTS
    Validators,  \* goroutines that call Validate
    Elements,    \* what rule paths are made of
    CelPath,     \* the expressions and their rule paths
    Sites        \* where violations may be

(* The global rule paths.                                                  *)
Static ==
    [required |-> <<"required">>,
     definedOnly |-> <<"enum", "defined_only">>,
     anyIn |-> <<"any", "in">>,
     anyNotIn |-> <<"any", "not_in">>,
     items |-> <<"repeated", "items">>,
     keys |-> <<"map", "keys">>,
     values |-> <<"map", "values">>]

(* A value is that of a field, or a part of a field's list or map.         *)
Value == {"field", "items", "keys", "values"}

(* Where a violation is: the value it is of, and, innermost first, the     *)
(* values with the messages it lies in (a key is no message); the rule.    *)
Site == [value : Value, within : Seq({"field", "items", "values"}),
         rule : {"required", "definedOnly", "anyIn", "anyNotIn"} \cup DOMAIN CelPath]

(* The addresses of messages: a goroutine has two.                         *)
Global == {"global"} \X DOMAIN Static
Owned == Validators \X {1, 2}
Paths == Global \cup Owned

ASSUME RulePathsAssumption ==
    /\ Sites \subseteq {s \in Site : s.rule = "required" => s.value = "field"}
    /\ Static \in [DOMAIN Static -> Seq(Elements)]
    /\ CelPath \in [DOMAIN CelPath -> Seq(Elements)]
    /\ DOMAIN CelPath \cap DOMAIN Static = {}
    /\ "global" \notin Validators

VARIABLES
    heap,   \* the rule path messages
    pc,
    site,   \* what each goroutine has found
    rule,   \* the message its violation points to
    above,  \* the values its violation has still to come through
    held    \* violations its callers have: sites and messages, at most one

vars == <<heap, pc, site, rule, above, held>>

-----------------------------------------------------------------------------
(* The evaluators' prefixes.                                               *)

(* The NestedRule of a value, which its evaluators have as RulePrefix.     *)
NestedRule(v) == IF v = "field" THEN << >> ELSE Static[v]

(* The path of the value's own violation, before it has a prefix.          *)
Own(s) == IF s.rule \in DOMAIN CelPath THEN CelPath[s.rule] ELSE Static[s.rule]

(* The prefix that listItems and kvPairs give to what comes from a part of *)
(* the field: their own, which is that of the field's value.               *)
PartPrefixMutant(v) == IF v = "field" THEN << >> ELSE NestedRule(v)

PartPrefix(v) == NestedRule("field")

(* An embeddedMessage gives its own prefix as well.                        *)
EmbeddedPrefixMutant(v) == NestedRule(v)

(* An embeddedMessage gives none: the rules of its message are not those   *)
(* of the list or map it is in.                                            *)
EmbeddedPrefix(v) == << >>

(* A message of g's that no caller has.                                    *)
Fresh(g) == CHOOSE o \in {g} \X {1, 2} : \A h \in held[g] : h.rule # o

Init ==
    /\ heap = [p \in Paths |-> IF p \in Global THEN Static[p[2]] ELSE << >>]
    /\ pc = [g \in Validators |-> "idle"]
    /\ site = [g \in Validators |-> << >>]
    /\ rule = [g \in Validators |-> << >>]
    /\ above = [g \in Validators |-> << >>]
    /\ held = [g \in Validators |-> {}]

(* A violation is found.  prefixRulePath makes a message if there is a     *)
(* prefix and else gives the rule path as it is, which compiledProgram     *)
(* makes anew.                                                             *)
Report(g) ==
    /\ pc[g] = "idle"
    /\ \E s \in Sites :
          /\ site' = [site EXCEPT ![g] = s]
          /\ above' = [above EXCEPT ![g] = <<s.value>> \o s.within]
          /\ IF NestedRule(s.value) # << >> \/ s.rule \in DOMAIN CelPath
             THEN /\ rule' = [rule EXCEPT ![g] = Fresh(g)]
                  /\ heap' = [heap EXCEPT ![Fresh(g)] = NestedRule(s.value) \o Own(s)]
             ELSE /\ rule' = [rule EXCEPT ![g] = <<"global", s.rule>>]
                  /\ UNCHANGED heap
    /\ pc' = [pc EXCEPT ![g] = "part"]
    /\ UNCHANGED held

(* updateViolationPaths.                                                   *)
Update(p, prefix) ==
    heap' = IF prefix = << >> THEN heap ELSE [heap EXCEPT ![p] = prefix \o @]

(* The list or the map the innermost value is a part of, if it is of one.  *)
LeavePart(g) ==
    /\ pc[g] = "part"
    /\ IF above[g][1] = "field" THEN UNCHANGED heap
       ELSE Update(rule[g], PartPrefix(above[g][1]))
    /\ above' = [above EXCEPT ![g] = Tail(@)]
    /\ pc' = [pc EXCEPT ![g] = IF Len(above[g]) = 1 THEN "done" ELSE "message"]
    /\ UNCHANGED <<site, rule, held>>

(* The embedded message, a value of a field that is further up.            *)
LeaveMessage(g) ==
    /\ pc[g] = "message"
    /\ Update(rule[g], EmbeddedPrefix(above[g][1]))
    /\ pc' = [pc EXCEPT ![g] = "part"]
    /\ UNCHANGED <<site, rule, above, held>>

(* Validate returns the violation, and its caller keeps it until it calls  *)
(* again and has that call's violation.                                    *)
Return(g) ==
    /\ pc[g] = "done"
    /\ held' = [held EXCEPT ![g] = {[site |-> site[g], rule |-> rule[g]]}]
    /\ pc' = [pc EXCEPT ![g] = "idle"]
    /\ site' = [site EXCEPT ![g] = << >>]
    /\ rule' = [rule EXCEPT ![g] = << >>]
    /\ UNCHANGED <<heap, above>>

Next == \E g \in Validators :
            Report(g) \/ LeavePart(g) \/ LeaveMessage(g) \/ Return(g)

Spec == Init /\ [][Next]_vars

-----------------------------------------------------------------------------
(* Properties.                                                             *)

(* No validation changes a global rule path, to which the violations of    *)
(* other messages and other goroutines point (error_utils.go:113-117,      *)
(* base.go:63-70).                                                         *)
StaticIntact == \A p \in DOMAIN Static : heap[<<"global", p>>] = Static[p]

(* The rule path a caller reads, now or while other messages are           *)
(* validated, leads from the rules of the field to the rule that was       *)
(* violated: through those of the list or map its value is in, and not     *)
(* through those of the fields its message is in (error_utils.go:90-120,   *)
(* message.go:110-114).                                                    *)
Exact(s) == NestedRule(s.value) \o Own(s)

RuleExact == \A g \in Validators : \A h \in held[g] : heap[h.rule] = Exact(h.site)

==============================================================================
