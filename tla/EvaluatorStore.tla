---------------------------- MODULE EvaluatorStore ----------------------------
(***************************************************************************)
(* What the builder promises its callers: a memo of evaluators, filled     *)
(* behind their backs, in which every descriptor has at most one evaluator *)
(* and that evaluator means exactly what the descriptor's rules say - no   *)
(* matter which message was asked for first, by whom, or who else was      *)
(* building.  Builder implements this specification.                       *)
(***************************************************************************)
EXTENDS Schema

CONSTANTS Callers, Absent, Pending, Unknown

VARIABLES
    schema,   \* the descriptors
    lazy,     \* whether a missing evaluator is built on demand
    ready,    \* whether New has returned
    memo,     \* descriptor -> the meaning of its evaluator, or Absent
    request,  \* caller -> the descriptor it asked for last
    reply     \* caller -> what it was given, or Pending

vars == <<schema, lazy, ready, memo, request, reply>>

-----------------------------------------------------------------------------
(* The meaning of a descriptor's rules, by what they say and not by the    *)
(* order a builder comes across them.                                      *)

(* The values of a field that are validated at all.                        *)
LiveSlots(f) ==
    IF f.rules.ignore = "always" THEN {}
    ELSE {"value"}
         \cup {s \in {"items"} : f.shape # "singular"
                                   /\ f.items.ignore # "always"}
         \cup {s \in {"keys"} : f.shape = "map" /\ f.keys.ignore # "always"}

RulesAt(f, slot) ==
    CASE slot = "value" -> f.rules
      [] slot = "items" -> f.items
      [] slot = "keys" -> f.keys

Embeds(f) ==
    LET at == IF f.shape = "singular" THEN "value" ELSE "items"
    IN  f.target # NoMessage /\ at \in LiveSlots(f)

(* A message that cannot be used: its own rules do not compile.            *)
Broken(d) ==
    \/ schema[d].exprs = "error"
    \/ \E i \in DOMAIN schema[d].oneofs : ~schema[d].oneofs[i]

(* A field cannot be validated when one of its rules does not compile, or  *)
(* the message it embeds is broken.                                        *)
BrokenField(f) ==
    \/ \E s \in LiveSlots(f) : "error" \in {RulesAt(f, s).cel, RulesAt(f, s).std}
    \/ Embeds(f) /\ Broken(f.target)

RulesOf(f) ==
    [cel |-> {s \in LiveSlots(f) : RulesAt(f, s).cel = "some"},
     std |-> {s \in LiveSlots(f) : RulesAt(f, s).std = "some"}]

NoRules == [cel |-> {}, std |-> {}]

FieldMeaning(i, f) ==
    [index |-> i, required |-> f.required, ignore |-> FieldIgnore(f),
     err |-> BrokenField(f),
     rules |-> IF BrokenField(f) THEN NoRules ELSE RulesOf(f),
     embeds |-> IF Embeds(f) /\ ~BrokenField(f) THEN f.target ELSE NoMessage]

(* A field that can report nothing has no evaluator.                       *)
Checked(f) ==
    f.required \/ Embeds(f) \/ BrokenField(f) \/ RulesOf(f) # NoRules

(* The evaluators of the fields, one for each that is checked; inOrder:    *)
(* they run in the order in which the fields are declared.                 *)
Meaning(d) ==
    LET m == schema[d]
    IN  [err |-> Broken(d),
         rules |-> m.exprs = "some",
         oneofs |-> IF Broken(d) THEN {} ELSE DOMAIN m.oneofs,
         required |-> {i \in DOMAIN m.protoOneofs : m.protoOneofs[i]},
         fields |-> {FieldMeaning(i, m.fields[i]) :
                        i \in {j \in DOMAIN m.fields : Checked(m.fields[j])}},
         inOrder |-> TRUE]

Meanings ==
    [err : BOOLEAN, rules : BOOLEAN, oneofs : SUBSET Nat,
     required : SUBSET Nat,
     fields : SUBSET [index : Nat, required : BOOLEAN, ignore : Ignore,
                      err : BOOLEAN,
                      rules : [cel : SUBSET Slot, std : SUBSET Slot],
                      embeds : Messages \cup {NoMessage}],
     inOrder : BOOLEAN]

(* The messages a validation that starts at d goes on to.                  *)
Targets(d) == {g.embeds : g \in Meaning(d).fields} \ {NoMessage}

Known == {d \in Messages : memo[d] # Absent}

-----------------------------------------------------------------------------
Init ==
    /\ schema \in [Messages -> Message]
    /\ lazy \in BOOLEAN
    /\ ready = FALSE
    /\ memo = [d \in Messages |-> Absent]
    /\ request = [c \in Callers |-> NoMessage]
    /\ reply = [c \in Callers |-> Absent]

(* New evaluators appear all at once, with everything they embed.          *)
Fill(new) ==
    LET known == Known \cup new
    IN  /\ \A d \in known : Targets(d) \subseteq known
        /\ memo' = [d \in Messages |->
                       IF d \in known THEN Meaning(d) ELSE Absent]
        /\ UNCHANGED <<schema, lazy, request, reply>>

Construct ==
    /\ ~ready
    /\ ready' = TRUE
    /\ \E new \in SUBSET Messages : Fill(new)

Call(c) ==
    /\ ready
    /\ reply[c] # Pending
    /\ \E d \in Messages : request' = [request EXCEPT ![c] = d]
    /\ reply' = [reply EXCEPT ![c] = Pending]
    /\ UNCHANGED <<schema, lazy, ready, memo>>

BuildFor(c) ==
    /\ lazy
    /\ reply[c] = Pending
    /\ memo[request[c]] = Absent
    /\ \E new \in SUBSET Messages : request[c] \in new /\ Fill(new)
    /\ UNCHANGED ready

Answer(c) ==
    /\ reply[c] = Pending
    /\ memo[request[c]] # Absent
    /\ reply' = [reply EXCEPT ![c] = memo[request[c]]]
    /\ UNCHANGED <<schema, lazy, ready, memo, request>>

Refuse(c) ==
    /\ ~lazy
    /\ reply[c] = Pending
    /\ memo[request[c]] = Absent
    /\ reply' = [reply EXCEPT ![c] = Unknown]
    /\ UNCHANGED <<schema, lazy, ready, memo, request>>

Next ==
    \/ Construct
    \/ \E c \in Callers : Call(c) \/ BuildFor(c) \/ Answer(c) \/ Refuse(c)

Spec == Init /\ [][Next]_vars

==============================================================================
