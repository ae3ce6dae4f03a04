-------------------------- MODULE BuilderRefinement ---------------------------
(***************************************************************************)
(* Builder implements EvaluatorStore.  The store is the published cache,   *)
(* every pointer in it read as what it means.                              *)
(***************************************************************************)
EXTENDS Builder

CONSTANTS Absent, Pending

Slots(parts, ops) == {p.slot : p \in {q \in parts : q.op \in ops}}

(* An embedded pointer stands for the message it was built for, as long as *)
(* it is the evaluator everybody else gets for that message.               *)
Target(e) ==
    IF e = None THEN NoMessage
    ELSE IF caches[published][evals[e].of] = e THEN evals[e].of
    ELSE Pending

FieldView(f) ==
    [index |-> f.index, required |-> f.required, ignore |-> f.ignore,
     err |-> f.err,
     rules |-> IF f.err THEN [cel |-> {}, std |-> {}]
               ELSE [cel |-> Slots(f.parts, {"cel", "unwrapped cel"}),
                     std |-> Slots(f.parts, {"std", "unwrapped std"})],
     embeds |-> IF f.err THEN NoMessage ELSE Target(f.embeds)]

View(id) ==
    LET e == evals[id]
    IN  [err |-> e.err, rules |-> e.rules,
         oneofs |-> IF e.err THEN {} ELSE e.oneofs,
         required |-> e.required,
         fields |-> {FieldView(e.fields[k]) : k \in DOMAIN e.fields},
         inOrder |-> \A k, l \in DOMAIN e.fields :
                        k < l => e.fields[k].index < e.fields[l].index]

(* The store that the builder's state stands for.                          *)
Ready == published # None

Memo ==
    [d \in Messages |-> IF Ready /\ caches[published][d] # None
                        THEN View(caches[published][d]) ELSE Absent]

Request == [t \in Loaders |-> desc[t]]

Reply ==
    [t \in Loaders |-> IF pc[t] # "idle" THEN Pending
                       ELSE IF result[t] = None THEN Absent
                       ELSE IF result[t] = Unknown THEN Unknown
                       ELSE View(result[t])]

Promise == INSTANCE EvaluatorStore WITH
    Callers <- Loaders, ready <- Ready, memo <- Memo, request <- Request,
    reply <- Reply

ASSUME RefinementAssumption ==
    /\ {Absent, Pending, Unknown} \cap Promise!Meanings = {}
    /\ Pending \notin {Absent, Unknown}

(* The standard rules of a list of wrapped values, as opposed to those of  *)
(* the values, are what the builder does not carry (see WrapperRulesKept); *)
(* a schema without such rules is carried whole.                           *)
Carried(f) ==
    (f.shape = "list" /\ f.target \in Wrappers) => f.rules.std = "none"

AllCarried ==
    \A s \in Schemas, d \in Messages :
        \A i \in DOMAIN s[d].fields : Carried(s[d].fields[i])

(* Whatever is asked for first, from however many goroutines, and whatever *)
(* recursion the messages have: a published evaluator has the rules, the   *)
(* errors and the embedded messages its descriptor declares, and every     *)
(* Load answers with it (evaluator.go, builder.go:29-39, 93-110).          *)
ImplementsStore == Promise!Spec

(* What builder.go:459-460 says of wrapper fields, "Wrapper fields are     *)
(* handled by processWrapperRules and their wrapped values are passed      *)
(* through the process gauntlet": no standard rule of such a field is lost *)
(* between processWrapperRules and processStandardRules.                   *)
WrapperRulesKept ==
    \A id \in PublishedEvals :
        \A i \in DOMAIN schema[evals[id].of].fields :
            LET f == schema[evals[id].of].fields[i]
            IN  (f.target \in Wrappers /\ f.rules.ignore # "always"
                    /\ f.rules.std = "some")
                 => \E k \in DOMAIN evals[id].fields :
                       LET e == evals[id].fields[k]
                       IN  e.index = i
                           /\ (e.err \/ "value" \in Slots(e.parts,
                                             {"std", "unwrapped std"}))

==============================================================================
