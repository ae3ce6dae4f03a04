------------------------------ MODULE RuleCache -------------------------------
(***************************************************************************)
(* How a builder resolves the rules of a field (resolve.go) and turns the  *)
(* standard rules into programs (cache.go).  Every validator has a builder *)
(* and a rule cache of its own, and builds one field at a time, under its  *)
(* own lock.  The rule messages may not be its own: where the options have *)
(* them in the library's own type, they are what all validators of a       *)
(* process share, and Build reparses what a rule message does not know in  *)
(* place.                                                                  *)
(***************************************************************************)
EXTENDS Naturals, Sequences, SequencesExt

CONSTANTS
    Validators,   \* the validators a process may have
    Fields,       \* field descriptors
    Rules,        \* fields of rule messages, predefined extensions included
    Kinds,        \* the kinds of rule a behaviour may have: [Rules -> Kind]
    Descriptors,  \* the rule messages it may have: [Fields -> Descriptor]
    Resolvers     \* the extension resolvers a validator may have

(* empty: no CEL expression; plain: compiles; rule: only with the variable *)
(* `rule' declared; bad: does not compile.  The type of `this' is the same *)
(* on every field that accepts the rule.  garbled: there are expressions,  *)
(* in bytes that cannot be parsed.                                         *)
Kind == {"empty", "plain", "rule", "bad", "garbled"}

(* How the options of a field have its rules: as a message of the type     *)
(* that is wanted, of a dynamic type, or as bytes, which may be malformed. *)
Options == {"concrete", "dynamic", "unknown", "malformed"}

(* absent: no rules; mismatch: rules for another type of field.  unknown   *)
(* holds the rules that are bytes the message's Go type knows nothing of.  *)
RuleMessage == [known : SUBSET Rules, unknown : Seq(Rules)]
Descriptor == [match : {"absent", "mismatch", "match"}, rules : RuleMessage,
               options : Options]

(* What a resolver makes of a rule it finds on the wire.                   *)
Resolver == [Rules -> {"known", "missing", "malformed"}]

(* A rule is in a rule message once, parsed or not.                        *)
ASSUME RuleCacheAssumption ==
    /\ Fields # {}
    /\ Kinds \subseteq [Rules -> Kind]
    /\ Descriptors \subseteq [Fields -> Descriptor]
    /\ \A d \in Descriptors, f \in Fields :
          /\ IsInjective(d[f].rules.unknown)
          /\ d[f].rules.known \cap ToSet(d[f].rules.unknown) = {}
    /\ Resolvers \subseteq Resolver

VARIABLES
    active,    \* the validators there are
    kind,      \* the rules' kinds
    declared,  \* what the descriptors were loaded with
    messages,  \* what has become of the rule messages in the options
    copy,      \* the rule message of its own that a validator has made
    resolver,  \* extensionTypeResolver of each validator
    allow,     \* its allowUnknownFields
    pc,        \* where its Build is
    field,     \* the field it builds
    wire,      \* the unknown bytes it has taken out of the rule message
    range,     \* the rules it has still to compile
    asts,      \* those it has compiled for this field
    compiled,  \* cache.cache: the rules whose ASTs it keeps
    outcome    \* what Build returned for each field

vars == <<active, kind, declared, messages, copy, resolver, allow, pc, field, wire, range,
          asts, compiled, outcome>>
setup == <<active, kind, declared, resolver, allow>>

(* What Build returns: an error, or the rules there are programs for.      *)
Errors == {"mismatch", "parse", "unknown", "compile"}
Built(rules) == [err |-> "none", programs |-> rules]
Failed(err) == [err |-> err, programs |-> {}]
Outcome == [err : {"unbuilt", "none"} \cup Errors, programs : SUBSET Rules]

NoRules == [known |-> {}, unknown |-> << >>]

Init ==
    /\ active \in (SUBSET Validators) \ {{}}
    /\ kind \in Kinds
    /\ declared \in Descriptors
    /\ messages = [f \in Fields |-> declared[f].rules]
    /\ copy = [v \in Validators |-> NoRules]
    /\ resolver \in [active -> Resolvers]
    /\ allow \in [active -> BOOLEAN]
    /\ pc = [v \in Validators |-> "idle"]
    /\ field = [v \in Validators |-> CHOOSE f \in Fields : TRUE]
    /\ wire = [v \in Validators |-> << >>]
    /\ range = [v \in Validators |-> {}]
    /\ asts = [v \in Validators |-> {}]
    /\ compiled = [v \in Validators |-> {}]
    /\ outcome = [v \in Validators |-> [f \in Fields |-> Failed("unbuilt")]]

-----------------------------------------------------------------------------
(* The rule message that Build is given.                                   *)
Shared(f) == declared[f].options = "concrete"
Mine(v) == IF Shared(field[v]) THEN messages[field[v]] ELSE copy[v]
SetMine(v, rules) ==
    IF Shared(field[v])
    THEN /\ messages' = [messages EXCEPT ![field[v]] = rules]
         /\ UNCHANGED copy
    ELSE /\ copy' = [copy EXCEPT ![v] = rules]
         /\ UNCHANGED messages

Return(v, f, result) ==
    /\ outcome' = [outcome EXCEPT ![v][f] = result]
    /\ pc' = [pc EXCEPT ![v] = "idle"]

(* ResolveFieldRules: what is not the wanted type is parsed anew, into a   *)
(* message of the builder's own.  An error leaves the field without rules. *)
ResolveFieldRules(v) ==
    /\ v \in active /\ pc[v] = "idle"
    /\ \E f \in Fields :
          /\ outcome[v][f].err = "unbuilt"
          /\ field' = [field EXCEPT ![v] = f]
          /\ copy' = [copy EXCEPT ![v] = IF Shared(f) THEN NoRules ELSE declared[f].rules]
          /\ IF declared[f].options = "malformed"
             THEN Return(v, f, Built({}))
             ELSE /\ pc' = [pc EXCEPT ![v] = "resolve"]
                  /\ UNCHANGED outcome
    /\ UNCHANGED <<setup, messages, wire, range, asts, compiled>>

(* Build: resolveRules ends it when there is nothing to compile.           *)
ResolveRules(v) ==
    /\ pc[v] = "resolve"
    /\ \/ /\ declared[field[v]].match = "absent"
          /\ Return(v, field[v], Built({}))
       \/ /\ declared[field[v]].match = "mismatch"
          /\ Return(v, field[v], Failed("mismatch"))
       \/ /\ declared[field[v]].match = "match"
          /\ pc' = [pc EXCEPT ![v] = "reparse"]
          /\ UNCHANGED outcome
    /\ UNCHANGED <<setup, messages, copy, field, wire, range, asts, compiled>>

(* The test for unknown bytes the wrong way round.                         *)
GetUnknownMutant(v) ==
    /\ pc[v] = "reparse"
    /\ wire' = [wire EXCEPT ![v] = Mine(v).unknown]
    /\ pc' = [pc EXCEPT ![v] =
                 IF Mine(v).unknown = << >> THEN "clear" ELSE "check"]
    /\ UNCHANGED <<setup, messages, copy, field, range, asts, compiled, outcome>>

(* reparseUnrecognized: takes the unknown bytes ...                        *)
GetUnknown(v) ==
    /\ pc[v] = "reparse"
    /\ wire' = [wire EXCEPT ![v] = Mine(v).unknown]
    /\ pc' = [pc EXCEPT ![v] =
                 IF Mine(v).unknown = << >> THEN "check" ELSE "clear"]
    /\ UNCHANGED <<setup, messages, copy, field, range, asts, compiled, outcome>>

(* The bytes stay in the message.                                          *)
ClearUnknownMutant(v) ==
    /\ pc[v] = "clear"
    /\ pc' = [pc EXCEPT ![v] = "merge"]
    /\ UNCHANGED <<setup, messages, copy, field, wire, range, asts, compiled,
                   outcome>>

(* ... out of the message ...                                              *)
ClearUnknown(v) ==
    /\ pc[v] = "clear"
    /\ SetMine(v, [Mine(v) EXCEPT !.unknown = << >>])
    /\ pc' = [pc EXCEPT ![v] = "merge"]
    /\ UNCHANGED <<setup, field, wire, range, asts, compiled, outcome>>

(* ... and merges them back field by field.  What the resolver does not    *)
(* know becomes unknown again; the first malformed field ends it.          *)
Unmarshal(v) ==
    /\ pc[v] = "merge"
    /\ wire[v] # << >>
    /\ LET r == Head(wire[v])
       IN  \/ /\ resolver[v][r] = "known"
              /\ SetMine(v, [Mine(v) EXCEPT !.known = @ \cup {r}])
              /\ wire' = [wire EXCEPT ![v] = Tail(@)]
              /\ UNCHANGED <<pc, outcome>>
           \/ /\ resolver[v][r] = "missing"
              /\ SetMine(v, [Mine(v) EXCEPT !.unknown = Append(@, r)])
              /\ wire' = [wire EXCEPT ![v] = Tail(@)]
              /\ UNCHANGED <<pc, outcome>>
           \/ /\ resolver[v][r] = "malformed"
              /\ Return(v, field[v], Failed("parse"))
              /\ wire' = [wire EXCEPT ![v] = << >>]
              /\ UNCHANGED <<messages, copy>>
    /\ UNCHANGED <<setup, field, range, asts, compiled>>

Unmarshalled(v) ==
    /\ pc[v] = "merge"
    /\ wire[v] = << >>
    /\ pc' = [pc EXCEPT ![v] = "check"]
    /\ UNCHANGED <<setup, messages, copy, field, wire, range, asts, compiled,
                   outcome>>

(* allowUnknownFields, and the start of rules.Range.                       *)
CheckUnknown(v) ==
    /\ pc[v] = "check"
    /\ \/ /\ ~allow[v] /\ Mine(v).unknown # << >>
          /\ Return(v, field[v], Failed("unknown"))
          /\ UNCHANGED <<range, asts>>
       \/ /\ allow[v] \/ Mine(v).unknown = << >>
          /\ range' = [range EXCEPT ![v] = Mine(v).known]
          /\ asts' = [asts EXCEPT ![v] = {}]
          /\ pc' = [pc EXCEPT ![v] = "range"]
          /\ UNCHANGED outcome
    /\ UNCHANGED <<setup, messages, copy, field, wire, compiled>>

(* A rule that does not compile is cached too, with the ASTs it has: none. *)
CompileRuleMutant(v) ==
    /\ pc[v] = "range"
    /\ \E r \in range[v] :
          /\ asts' = [asts EXCEPT ![v] =
                         IF kind[r] \in {"plain", "rule"}
                         THEN @ \cup {r} ELSE @]
          /\ compiled' = [compiled EXCEPT ![v] = @ \cup {r}]
          /\ range' = [range EXCEPT ![v] = @ \ {r}]
          /\ IF r \notin compiled[v] /\ kind[r] = "bad"
             THEN Return(v, field[v], Failed("compile"))
             ELSE UNCHANGED <<pc, outcome>>
    /\ UNCHANGED <<setup, messages, copy, field, wire>>

(* One rule, in no particular order: from the cache, or compiled, first    *)
(* without the variable `rule' and then with it.  A success is cached.     *)
CompileRule(v) ==
    /\ pc[v] = "range"
    /\ \E r \in range[v] :
          \/ /\ r \in compiled[v] \/ kind[r] # "bad"
             /\ asts' = [asts EXCEPT ![v] =
                            IF kind[r] \in {"plain", "rule"}
                            THEN @ \cup {r} ELSE @]
             /\ compiled' = [compiled EXCEPT ![v] = @ \cup {r}]
             /\ range' = [range EXCEPT ![v] = @ \ {r}]
             /\ UNCHANGED <<pc, outcome>>
          \/ /\ r \notin compiled[v] /\ kind[r] = "bad"
             /\ Return(v, field[v], Failed("compile"))
             /\ UNCHANGED <<range, asts, compiled>>
    /\ UNCHANGED <<setup, messages, copy, field, wire>>

(* ReduceResiduals makes the programs of what was compiled.                *)
ReduceResiduals(v) ==
    /\ pc[v] = "range"
    /\ range[v] = {}
    /\ Return(v, field[v], Built(asts[v]))
    /\ UNCHANGED <<setup, messages, copy, field, wire, range, asts, compiled>>

Next ==
    \E v \in Validators :
        \/ ResolveFieldRules(v) \/ ResolveRules(v)
        \/ GetUnknown(v) \/ ClearUnknown(v) \/ Unmarshal(v) \/ Unmarshalled(v)
        \/ CheckUnknown(v) \/ CompileRule(v) \/ ReduceResiduals(v)

Spec == Init /\ [][Next]_vars

-----------------------------------------------------------------------------
(* Properties.                                                             *)

(* Every variable has its type; bytes taken out of a rule message are in   *)
(* the hands of a validator that is reparsing them (cache.go:230-237).     *)
TypeOK ==
    /\ active \in SUBSET Validators
    /\ kind \in [Rules -> Kind]
    /\ declared \in [Fields -> Descriptor]
    /\ messages \in [Fields -> RuleMessage]
    /\ copy \in [Validators -> RuleMessage]
    /\ resolver \in [active -> Resolver]
    /\ allow \in [active -> BOOLEAN]
    /\ pc \in [Validators ->
                 {"idle", "resolve", "reparse", "clear", "merge", "check", "range"}]
    /\ field \in [Validators -> Fields]
    /\ wire \in [Validators -> Seq(Rules)]
    /\ range \in [Validators -> SUBSET Rules]
    /\ asts \in [Validators -> SUBSET Rules]
    /\ compiled \in [Validators -> SUBSET Rules]
    /\ outcome \in [Validators -> [Fields -> Outcome]]
    /\ \A v \in Validators : wire[v] # << >> => pc[v] \in {"clear", "merge"}

Declared(f) == declared[f].rules.known \cup ToSet(declared[f].rules.unknown)

(* Validators may reparse one message at the same time.                    *)
Contended(f) ==
    /\ Shared(f) /\ declared[f].rules.unknown # << >>
    /\ \E v, w \in active : v # w

(* What Build of a field ought to return to a validator, whatever it has   *)
(* built before: any error its rules deserve; without one, every rule it   *)
(* can resolve that has an expression it can read.                         *)
Expected(v, f) ==
    LET d == declared[f]
        at(what) == {r \in ToSet(d.rules.unknown) : resolver[v][r] = what}
        resolved == d.rules.known \cup at("known")
    IN  IF d.options = "malformed" \/ d.match = "absent" THEN Built({})
        ELSE IF d.match = "mismatch" THEN Failed("mismatch")
        ELSE IF at("malformed") # {} THEN Failed("parse")
        ELSE IF at("missing") # {} /\ ~allow[v] THEN Failed("unknown")
        ELSE IF \E r \in resolved : kind[r] = "bad" THEN Failed("compile")
        ELSE Built({r \in resolved : kind[r] \notin {"empty", "garbled"}})

(* The cache is invisible, and so are other validators: a field's rules,   *)
(* or its error, are those its own descriptor and the validator's options  *)
(* call for, whichever fields the validator built before and failed to     *)
(* build and in whatever form the options have the rules (cache.go:43-105, *)
(* resolve.go:57-81).                                                      *)
OwnOutcome ==
    \A v \in active, f \in Fields :
        (outcome[v][f].err # "unbuilt" /\ ~Contended(f))
            => outcome[v][f] = Expected(v, f)

(* Between two Builds the options still hold every rule they were loaded   *)
(* with, parsed or not, once each - unless reparsing it failed, which      *)
(* loses the rest of the bytes (cache.go:231-237).  Options that do not    *)
(* hold them in the wanted type are not written at all (resolve.go:55-56). *)
RulesConserved ==
    (\A v \in Validators : pc[v] = "idle") =>
        \A f \in Fields :
            \/ Contended(f)
            \/ Shared(f) /\ \E v \in Validators : outcome[v][f].err = "parse"
            \/ /\ messages[f].known \cup ToSet(messages[f].unknown)
                      = Declared(f)
               /\ messages[f].known \cap ToSet(messages[f].unknown) = {}
               /\ IsInjective(messages[f].unknown)
               /\ ~Shared(f) => messages[f] = declared[f].rules

(* option.go:76-77 says of allowUnknownFields: "The default value is       *)
(* false, to prevent silently-incorrect validation from occurring."  A     *)
(* validator left at the default that builds a field has programs for all  *)
(* the field's rules.                                                      *)
NoRuleSilentlyDropped ==
    \A v \in active, f \in Fields :
        (outcome[v][f].err = "none" /\ ~allow[v] /\ declared[f].match = "match")
            => {r \in Declared(f) : kind[r] # "empty"}
                   \subseteq outcome[v][f].programs

(* validator.go:46-50 says: "Validate checks that message satisfies its    *)
(* rules. [...] An error is returned if [...] the evaluation logic for the *)
(* message cannot be built".  The logic of a field whose rules cannot be   *)
(* read is not built without an error.                                     *)
UnreadableRefused ==
    \A v \in active, f \in Fields :
        declared[f].options = "malformed" => outcome[v][f].err # "none"

==============================================================================
