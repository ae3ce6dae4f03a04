------------------------------- MODULE Schema --------------------------------
(***************************************************************************)
(* Message descriptors and the validation rules annotated on them, as the  *)
(* builder sees them.  A rule is reduced to what compiling it yields; a    *)
(* field to its shape, the message it embeds and the rules of the values   *)
(* it holds.  FieldPlan flattens the recursion of buildValue into the      *)
(* sequence of steps it performs on one field.                             *)
(***************************************************************************)
EXTENDS Naturals, Sequences

CONSTANTS
    Messages,    \* the message descriptors
    Wrappers,    \* those among them that are google.protobuf.*Value types
    NoMessage    \* the embedded message of a field that has none

ASSUME SchemaAssumption ==
    /\ Wrappers \subseteq Messages
    /\ NoMessage \notin Messages

(* noRules: the value has no rules at all; unset: its rules do not say.    *)
Ignore == {"noRules", "unset", "unspecified", "ifZero", "always"}
Shape == {"singular", "list", "map"}

(* What compiling a group of rules yields: nothing, programs, an error. *)
Outcome == {"none", "some", "error"}

(* The rules of one value: its custom CEL rules and its standard rules.    *)
(* For a wrapper field a standard rule of another type is an "error" too.  *)
ValueRules == [ignore : Ignore, cel : Outcome, std : Outcome]

(* `inOneof' tells whether a message oneof rule names the field; `items'   *)
(* are the rules of list elements or map values, `keys' of map keys.       *)
Field == [shape : Shape, target : Messages \cup {NoMessage},
          required : BOOLEAN, inOneof : BOOLEAN,
          rules : ValueRules, keys : ValueRules, items : ValueRules]

(* exprs: the message's CEL rules.  oneofs: one entry per message oneof    *)
(* rule, FALSE if it names no, a duplicate or an unknown field.            *)
(* protoOneofs: one entry per oneof declaration, TRUE if it is required.   *)
Message == [exprs : Outcome, oneofs : Seq(BOOLEAN),
            protoOneofs : Seq(BOOLEAN), fields : Seq(Field)]

-----------------------------------------------------------------------------
(* The steps of buildValue.  A part is the evaluator a step leaves behind. *)
Slot == {"value", "keys", "items"}
Op == {"cel", "embed", "unwrapped cel", "unwrapped std", "std"}
Part == [slot : Slot, op : Op]
Step == {s \in [part : Part, outcome : Outcome,
                target : Messages \cup {NoMessage}] :
            s.part.op = "embed" => s.target \in Messages}

Compile(slot, op, outcome) ==
    [part |-> [slot |-> slot, op |-> op], outcome |-> outcome,
     target |-> NoMessage]

Embed(slot, m) ==
    [part |-> [slot |-> slot, op |-> "embed"], outcome |-> "some",
     target |-> m]

If(condition, steps) == IF condition THEN steps ELSE << >>

(* The value at `slot' of a field: `holds' is the message the descriptor   *)
(* names, `embedded' whether the value is one such message, not a list of  *)
(* them.  Wrapped standard rules re-run the CEL rules on the inner value.  *)
ValuePlan(slot, rules, holds, embedded) ==
    LET wrapper == holds \in Wrappers
    IN  If(rules.ignore # "always",
             << Compile(slot, "cel", rules.cel) >>
          \o If(embedded /\ holds # NoMessage, << Embed(slot, holds) >>)
          \o If(embedded /\ wrapper /\ rules.std # "none",
                << Compile(slot, "unwrapped cel", rules.cel),
                   Compile(slot, "unwrapped std", rules.std) >>)
          \o If(~wrapper, << Compile(slot, "std", rules.std) >>))

(* A map field's own descriptor names its entry type, which is neither     *)
(* embedded nor a wrapper.                                                 *)
FieldPlan(f) ==
    LET holds == IF f.shape = "map" THEN NoMessage ELSE f.target
    IN  If(f.rules.ignore # "always",
             ValuePlan("value", f.rules, holds, f.shape = "singular")
          \o If(f.shape = "map", ValuePlan("keys", f.keys, NoMessage, FALSE))
          \o If(f.shape # "singular",
                ValuePlan("items", f.items, f.target, TRUE)))

(* A member of a message oneof whose rules do not set `ignore' is ignored  *)
(* while it is unset.                                                      *)
FieldIgnore(f) ==
    IF f.rules.ignore = "unset" /\ f.inOneof
    THEN "ifZero" ELSE f.rules.ignore

==============================================================================
