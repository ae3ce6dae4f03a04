---------------------------- MODULE Builder_proofs ----------------------------
(***************************************************************************)
(* The safety of the build-through cache, for any number of goroutines,    *)
(* messages, schemas and seeds; and that it implements EvaluatorStore:     *)
(* what is published means what the descriptors declare, and every step of *)
(* the builder is a step of the store or none.                             *)
(***************************************************************************)
EXTENDS BuilderRefinement, TLAPS

LEMMA ShortSeq ==
    ASSUME NEW S, NEW a \in S, NEW b \in S
    PROVE  << a >> \in Seq(S) /\ << a, b >> \in Seq(S)
  OBVIOUS

LEMMA IfType ==
    ASSUME NEW S, NEW condition, NEW s \in Seq(S)
    PROVE  If(condition, s) \in Seq(S)
  BY DEF If

LEMMA ConcatType ==
    ASSUME NEW S, NEW s \in Seq(S), NEW t \in Seq(S)
    PROVE  s \o t \in Seq(S)
  OBVIOUS

LEMMA StepType ==
    ASSUME NEW slot \in Slot
    PROVE  /\ \A op \in Op \ {"embed"}, outcome \in Outcome :
                 Compile(slot, op, outcome) \in Step
           /\ \A m \in Messages : Embed(slot, m) \in Step
<1>1. ASSUME NEW op \in Op \ {"embed"}, NEW outcome \in Outcome
      PROVE  Compile(slot, op, outcome) \in Step
  BY DEF Compile, Step, Part
<1>2. ASSUME NEW m \in Messages PROVE Embed(slot, m) \in Step
  BY DEF Embed, Step, Part, Op, Outcome
<1> QED
  BY <1>1, <1>2

(* The pieces of ValuePlan.                                                *)
LEMMA PieceTypes ==
    ASSUME NEW slot \in Slot, NEW rules \in ValueRules,
           NEW holds \in Messages \cup {NoMessage}, NEW embedded \in BOOLEAN
    PROVE  /\ << Compile(slot, "cel", rules.cel) >> \in Seq(Step)
           /\ If(embedded /\ holds # NoMessage, << Embed(slot, holds) >>)
                 \in Seq(Step)
           /\ If(embedded /\ holds \in Wrappers /\ rules.std # "none",
                 << Compile(slot, "unwrapped cel", rules.cel),
                    Compile(slot, "unwrapped std", rules.std) >>) \in Seq(Step)
           /\ If(~(holds \in Wrappers), << Compile(slot, "std", rules.std) >>)
                 \in Seq(Step)
<1>1. /\ rules.cel \in Outcome
      /\ rules.std \in Outcome
  BY DEF ValueRules
<1>2. /\ Compile(slot, "cel", rules.cel) \in Step
      /\ Compile(slot, "unwrapped cel", rules.cel) \in Step
      /\ Compile(slot, "unwrapped std", rules.std) \in Step
      /\ Compile(slot, "std", rules.std) \in Step
  BY <1>1, StepType DEF Op
<1>3. If(embedded /\ holds # NoMessage, << Embed(slot, holds) >>) \in Seq(Step)
  <2>1. CASE holds = NoMessage
    BY <2>1 DEF If
  <2>2. CASE holds \in Messages
    BY <2>2, StepType, ShortSeq, IfType
  <2> QED
    BY <2>1, <2>2
<1> QED
  BY <1>2, <1>3, ShortSeq, IfType

LEMMA ValuePlanType ==
    ASSUME NEW slot \in Slot, NEW rules \in ValueRules,
           NEW holds \in Messages \cup {NoMessage}, NEW embedded \in BOOLEAN
    PROVE  ValuePlan(slot, rules, holds, embedded) \in Seq(Step)
<1> DEFINE own == << Compile(slot, "cel", rules.cel) >>
           inner == If(embedded /\ holds # NoMessage, << Embed(slot, holds) >>)
           unwrapped == If(embedded /\ holds \in Wrappers /\ rules.std # "none",
                           << Compile(slot, "unwrapped cel", rules.cel),
                              Compile(slot, "unwrapped std", rules.std) >>)
           std == If(~(holds \in Wrappers),
                     << Compile(slot, "std", rules.std) >>)
<1>1. /\ own \in Seq(Step) /\ inner \in Seq(Step)
      /\ unwrapped \in Seq(Step) /\ std \in Seq(Step)
  BY PieceTypes
<1>2. ValuePlan(slot, rules, holds, embedded)
          = If(rules.ignore # "always", own \o inner \o unwrapped \o std)
  BY DEF ValuePlan
<1> HIDE DEF own, inner, unwrapped, std
<1>3. own \o inner \o unwrapped \o std \in Seq(Step)
  BY <1>1
<1> QED
  BY <1>2, <1>3, IfType

(* buildValue performs well-formed steps, whatever the field.              *)
LEMMA PlanType ==
    ASSUME NEW f \in Field
    PROVE  FieldPlan(f) \in Seq(Step)
<1> DEFINE holds == IF f.shape = "map" THEN NoMessage ELSE f.target
           value == ValuePlan("value", f.rules, holds, f.shape = "singular")
           keys == If(f.shape = "map",
                      ValuePlan("keys", f.keys, NoMessage, FALSE))
           items == If(f.shape # "singular",
                       ValuePlan("items", f.items, f.target, TRUE))
<1>4. /\ f.rules \in ValueRules /\ f.keys \in ValueRules
      /\ f.items \in ValueRules
      /\ f.target \in Messages \cup {NoMessage}
      /\ holds \in Messages \cup {NoMessage}
  BY DEF Field
<1>5. value \in Seq(Step)
  BY ValuePlanType, <1>4 DEF Slot
<1>6. keys \in Seq(Step)
  BY ValuePlanType, <1>4, IfType DEF Slot
<1>7. items \in Seq(Step)
  BY ValuePlanType, <1>4, IfType DEF Slot
<1>8. FieldPlan(f) = If(f.rules.ignore # "always", value \o keys \o items)
  BY DEF FieldPlan
<1> QED
  <2> HIDE DEF value, keys, items
  <2>1. value \o keys \in Seq(Step)
    BY <1>5, <1>6, ConcatType
  <2>2. (value \o keys) \o items \in Seq(Step)
    BY <1>7, <2>1, ConcatType
  <2> QED
    BY <1>8, <2>2, IfType

-----------------------------------------------------------------------------
(* Most steps of a build call only fill in the evaluator of that call and  *)
(* the frame it runs in.                                                   *)
LocalStep(t, e, frame) ==
    /\ pc[t] = "build"
    /\ stack[t] # << >>
    /\ e \in Evaluator
    /\ frame \in Frame
    /\ e.of = evals[Top(t).id].of
    /\ frame.id = Top(t).id
    /\ frame.next # 0
    /\ frame.at = "value" => frame.next \in DOMAIN schema[e.of].fields
    /\ evals' = [evals EXCEPT ![Top(t).id] = e]
    /\ stack' = Top1(t, frame)
    /\ UNCHANGED <<schema, lazy, seeds, mtx, published, caches, pc, desc,
                   cache, result>>

LEMMA TopType ==
    ASSUME TypeOK, StackInv, NEW t \in Threads, stack[t] # << >>
    PROVE  /\ Len(stack[t]) \in Nat \ {0}
           /\ Len(stack[t]) \in DOMAIN stack[t]
           /\ Top(t) \in Frame
           /\ Top(t).id \in DOMAIN evals
           /\ evals[Top(t).id] \in Evaluator
           /\ Described(t) \in Message
           /\ FieldInRange(Top(t))
<1>1. /\ stack[t] \in Seq(Frame)
      /\ evals \in Seq(Evaluator)
      /\ schema \in [Messages -> Message]
  BY DEF TypeOK
<1>2. Len(stack[t]) \in Nat \ {0} /\ Len(stack[t]) \in DOMAIN stack[t]
  BY <1>1
<1>3. Top(t) \in Frame
  BY <1>1, <1>2 DEF Top
<1>4. Top(t).id \in DOMAIN evals
  BY <1>2 DEF StackInv, Top
<1>5. evals[Top(t).id] \in Evaluator
  BY <1>1, <1>4
<1>6. Described(t) \in Message
  BY <1>1, <1>5 DEF Described, Evaluator
<1>7. FieldInRange(Top(t))
  BY <1>2 DEF StackInv, Top
<1> QED
  BY <1>2, <1>3, <1>4, <1>5, <1>6, <1>7

LEMMA NoWrite ==
    ASSUME TypeOK, StackInv, NEW t \in Threads, stack[t] # << >>
    PROVE  evals = [evals EXCEPT ![Top(t).id] = evals[Top(t).id]]
  BY TopType DEF TypeOK

LEMMA FrameType ==
    ASSUME NEW frame \in Frame, NEW at \in BuildStep, NEW todo \in Seq(Step),
           NEW next \in Nat, NEW parts \in SUBSET Part, NEW embeds \in Nat
    PROVE  /\ [frame EXCEPT !.at = at] \in Frame
           /\ [frame EXCEPT !.at = at, !.todo = todo, !.next = next] \in Frame
           /\ [frame EXCEPT !.at = at, !.parts = parts, !.embeds = embeds,
                            !.todo = todo] \in Frame
           /\ [frame EXCEPT !.todo = todo, !.parts = parts] \in Frame
           /\ [frame EXCEPT !.todo = todo, !.embeds = embeds,
                            !.parts = parts] \in Frame
  BY DEF Frame

LEMMA EvaluatorType ==
    ASSUME NEW e \in Evaluator, NEW g \in FieldEvaluator
    PROVE  /\ [e EXCEPT !.fields = Append(@, g)] \in Evaluator
           /\ [e EXCEPT !.fields = Append(@, g)].of = e.of
<1>1. Append(e.fields, g) \in Seq(FieldEvaluator)
  BY DEF Evaluator
<1> QED
  BY <1>1 DEF Evaluator

(* Appending a field's evaluator, or none.                                 *)
LEMMA AppendFieldIsLocal ==
    ASSUME TypeOK, StackInv, NEW t \in Threads,
           NEW err \in BOOLEAN, NEW parts \in SUBSET Part,
           Building(t, "value"), AppendField(t, err, parts),
           Top(t).next \in DOMAIN Described(t).fields
    PROVE  \E e, frame : LocalStep(t, e, frame)
<1>1. pc[t] = "build" /\ stack[t] # << >>
  BY DEF Building
<1> DEFINE old == evals[Top(t).id]
           f == Described(t).fields[Top(t).next]
           fieldEval == [index |-> Top(t).next, err |-> err,
                         required |-> f.required, ignore |-> FieldIgnore(f),
                         parts |-> parts,
                         embeds |-> IF \E p \in parts : p.op = "embed"
                                    THEN Top(t).embeds ELSE None]
           frame == [Top(t) EXCEPT !.at = "fields", !.todo = << >>,
                                   !.next = @ + 1]
           appended == [old EXCEPT !.fields = Append(@, fieldEval)]
<1>2. Top(t) \in Frame /\ old \in Evaluator /\ Top(t).id \in DOMAIN evals
  BY <1>1, TopType
<1>3. f \in Field
  BY <1>1, TopType DEF Message
<1>4. fieldEval \in FieldEvaluator
  <2>1. f.required \in BOOLEAN /\ f.rules.ignore \in Ignore
    BY <1>3 DEF Field, ValueRules
  <2>2. FieldIgnore(f) \in Ignore
    BY <2>1 DEF FieldIgnore, Ignore
  <2>3. Top(t).next \in Nat /\ Top(t).embeds \in Nat
    BY <1>2 DEF Frame
  <2> QED
    BY <2>1, <2>2, <2>3 DEF FieldEvaluator, None
<1>5. /\ frame \in Frame /\ frame.id = Top(t).id
      /\ frame.next # 0 /\ frame.at # "value"
  <2>1. Top(t).next + 1 \in Nat \ {0} /\ << >> \in Seq(Step)
    BY <1>2 DEF Frame
  <2>2. frame \in Frame
    BY <1>2, <2>1, FrameType DEF BuildStep
  <2> QED
    BY <1>2, <2>1, <2>2 DEF Frame
<1>6. appended \in Evaluator /\ appended.of = old.of
  <2> HIDE DEF fieldEval, old
  <2> QED
    BY <1>2, <1>4, EvaluatorType
<1>7. \/ evals' = evals
      \/ evals' = [evals EXCEPT ![Top(t).id] = appended]
  BY DEF AppendField
<1>8. stack' = Top1(t, frame)
  BY DEF AppendField
<1>9. UNCHANGED <<schema, lazy, seeds, mtx, published, caches, pc, desc,
                  cache, result>>
  BY DEF AppendField, BuildFrame
<1>10. CASE evals' = evals
  <2>1. LocalStep(t, old, frame)
    BY <1>1, <1>2, <1>5, <1>8, <1>9, <1>10, NoWrite DEF LocalStep
  <2> QED
    BY <2>1
<1>11. CASE evals' = [evals EXCEPT ![Top(t).id] = appended]
  <2>1. LocalStep(t, appended, frame)
    BY <1>1, <1>5, <1>6, <1>8, <1>9, <1>11 DEF LocalStep
  <2> QED
    BY <2>1
<1> QED
  BY <1>7, <1>10, <1>11

LEMMA FillInIsLocal ==
    ASSUME TypeOK, StackInv, NEW t \in Threads, NEW next \in BuildStep,
           next # "value", NEW step, Building(t, step),
           NEW e \in Evaluator, e.of = evals[Top(t).id].of,
           FillIn(t, e, next)
    PROVE  \E f, frame : LocalStep(t, f, frame)
<1>1. pc[t] = "build" /\ stack[t] # << >>
  BY DEF Building
<1> DEFINE frame == [Top(t) EXCEPT !.at = next]
<1>2. Top(t) \in Frame /\ FieldInRange(Top(t))
  BY <1>1, TopType
<1>3. frame \in Frame
  <2>1. Top(t).todo \in Seq(Step) /\ Top(t).next \in Nat
        /\ Top(t).parts \in SUBSET Part /\ Top(t).embeds \in Nat
    BY <1>2 DEF Frame
  <2> QED
    BY <1>2, <2>1, FrameType
<1>4. frame.id = Top(t).id /\ frame.next # 0 /\ frame.at # "value"
  BY <1>2 DEF Frame, FieldInRange
<1>5. LocalStep(t, e, frame)
  BY <1>1, <1>3, <1>4 DEF LocalStep, FillIn, BuildFrame
<1> QED
  BY <1>5

(* A step that only moves the frame.                                       *)
LEMMA MoveIsLocal ==
    ASSUME TypeOK, StackInv, NEW t \in Threads, NEW step, Building(t, step),
           NEW frame \in Frame, frame.id = Top(t).id, frame.next = Top(t).next,
           frame.next \in DOMAIN Described(t).fields,
           stack' = Top1(t, frame), UNCHANGED <<caches, evals, pc, result>>,
           BuildFrame
    PROVE  \E e, f : LocalStep(t, e, f)
<1>1. pc[t] = "build" /\ stack[t] # << >>
  BY DEF Building
<1>2. evals[Top(t).id] \in Evaluator /\ FieldInRange(Top(t))
  BY <1>1, TopType
<1>3. LocalStep(t, evals[Top(t).id], frame)
  BY <1>1, <1>2, NoWrite DEF LocalStep, BuildFrame, FieldInRange, Described
<1> QED
  BY <1>3

LEMMA ExpressionsIsLocal ==
    ASSUME TypeOK, StackInv, NEW t \in Threads, ProcessMessageExpressions(t)
    PROVE  \E e, frame : LocalStep(t, e, frame)
<1>1. Building(t, "expressions") /\ stack[t] # << >>
  BY DEF ProcessMessageExpressions, Building
<1> DEFINE exprs == Described(t).exprs
           e == [evals[Top(t).id] EXCEPT !.err = (exprs = "error"),
                                         !.rules = (exprs = "some")]
<1>2. e \in Evaluator /\ e.of = evals[Top(t).id].of
  BY <1>1, TopType DEF Evaluator
<1>3. FillIn(t, e, "messageOneofs")
  BY DEF ProcessMessageExpressions
<1> QED
  <2> HIDE DEF e
  <2> QED
    BY <1>1, <1>2, <1>3, FillInIsLocal DEF BuildStep

LEMMA MessageOneofsIsLocal ==
    ASSUME TypeOK, StackInv, NEW t \in Threads, ProcessMessageOneofRules(t)
    PROVE  \E e, frame : LocalStep(t, e, frame)
<1>1. Building(t, "messageOneofs") /\ stack[t] # << >>
  BY DEF ProcessMessageOneofRules, Building
<1> DEFINE oneofs == Described(t).oneofs
           bad == {i \in DOMAIN oneofs : ~oneofs[i]}
           good == {i \in DOMAIN oneofs : \A j \in bad : i < j}
           e == [evals[Top(t).id] EXCEPT !.err = @ \/ bad # {},
                                         !.oneofs = good]
<1>2. e \in Evaluator /\ e.of = evals[Top(t).id].of
  <2>1. evals[Top(t).id] \in Evaluator /\ Described(t) \in Message
    BY <1>1, TopType
  <2>2. good \in SUBSET Nat
    BY <2>1 DEF Message
  <2>3. (evals[Top(t).id].err \/ bad # {}) \in BOOLEAN
    OBVIOUS
  <2> HIDE DEF good, bad
  <2> QED
    BY <2>1, <2>2, <2>3 DEF Evaluator
<1>3. FillIn(t, e, "oneofs")
  BY DEF ProcessMessageOneofRules
<1> QED
  <2> HIDE DEF e
  <2> QED
    BY <1>1, <1>2, <1>3, FillInIsLocal DEF BuildStep

LEMMA OneofsIsLocal ==
    ASSUME TypeOK, StackInv, NEW t \in Threads, ProcessOneofRules(t)
    PROVE  \E e, frame : LocalStep(t, e, frame)
<1>1. Building(t, "oneofs") /\ stack[t] # << >>
  BY DEF ProcessOneofRules, Building
<1> DEFINE oneofs == Described(t).protoOneofs
           required == {i \in DOMAIN oneofs : oneofs[i]}
           e == [evals[Top(t).id] EXCEPT !.required = required]
<1>2. e \in Evaluator /\ e.of = evals[Top(t).id].of
  <2>1. evals[Top(t).id] \in Evaluator /\ Described(t) \in Message
    BY <1>1, TopType
  <2>2. required \in SUBSET Nat
    BY <2>1 DEF Message
  <2> HIDE DEF required
  <2> QED
    BY <2>1, <2>2 DEF Evaluator
<1>3. FillIn(t, e, "fields")
  BY DEF ProcessOneofRules
<1> QED
  <2> HIDE DEF e
  <2> QED
    BY <1>1, <1>2, <1>3, FillInIsLocal DEF BuildStep

LEMMA BuildFieldIsLocal ==
    ASSUME TypeOK, StackInv, NEW t \in Threads, BuildField(t)
    PROVE  \E e, frame : LocalStep(t, e, frame)
<1>1. Building(t, "fields") /\ stack[t] # << >>
  BY DEF BuildField, Building
<1> DEFINE field == Described(t).fields[Top(t).next]
           frame == [Top(t) EXCEPT !.at = "value", !.parts = {},
                                   !.embeds = None, !.todo = FieldPlan(field)]
<1>2. Top(t) \in Frame /\ Described(t) \in Message /\ FieldInRange(Top(t))
  BY <1>1, TopType
<1>3. Top(t).next \in DOMAIN Described(t).fields
  <2>1. Top(t).next \in Nat \ {0}
    BY <1>2 DEF Frame, FieldInRange
  <2>2. Described(t).fields \in Seq(Field)
    BY <1>2 DEF Message
  <2>3. Top(t).next <= Len(Described(t).fields)
    BY DEF BuildField
  <2> QED
    BY <2>1, <2>2, <2>3
<1>4. field \in Field
  BY <1>2, <1>3 DEF Message
<1>5. FieldPlan(field) \in Seq(Step)
  BY <1>4, PlanType
<1>6. frame \in Frame
  <2>1. {} \in SUBSET Part /\ None \in Nat /\ "value" \in BuildStep
    BY DEF None, BuildStep
  <2>2. Top(t).next \in Nat
    BY <1>2 DEF Frame
  <2> HIDE DEF field
  <2> QED
    BY <1>2, <1>5, <2>1, <2>2, FrameType
<1>7. frame.id = Top(t).id /\ frame.next = Top(t).next
  BY <1>2 DEF Frame
<1>8. /\ stack' = Top1(t, frame)
      /\ UNCHANGED <<caches, evals, pc, result>>
      /\ BuildFrame
  BY DEF BuildField
<1> QED
  <2> HIDE DEF frame
  <2> QED
    BY <1>1, <1>3, <1>6, <1>7, <1>8, MoveIsLocal

(* Where a value is being built, its field is one of the message's.        *)
LEMMA AtValue ==
    ASSUME TypeOK, StackInv, NEW t \in Threads, Building(t, "value")
    PROVE  /\ stack[t] # << >>
           /\ Top(t) \in Frame
           /\ Top(t).next \in DOMAIN Described(t).fields
           /\ Top(t).todo # << >> => /\ Head(Top(t).todo) \in Step
                                     /\ Tail(Top(t).todo) \in Seq(Step)
<1>1. stack[t] # << >> /\ Top(t).at = "value"
  BY DEF Building
<1>2. Top(t) \in Frame /\ FieldInRange(Top(t))
  BY <1>1, TopType
<1>3. Top(t).todo \in Seq(Step)
  BY <1>2 DEF Frame
<1> QED
  BY <1>1, <1>2, <1>3 DEF FieldInRange, Described

LEMMA FinishFieldIsLocal ==
    ASSUME TypeOK, StackInv, NEW t \in Threads, FinishField(t)
    PROVE  \E e, frame : LocalStep(t, e, frame)
<1>1. Building(t, "value") /\ AppendField(t, FALSE, Top(t).parts)
  BY DEF FinishField
<1>2. Top(t).parts \in SUBSET Part
  BY <1>1, AtValue DEF Frame
<1> QED
  BY <1>1, <1>2, AtValue, AppendFieldIsLocal

LEMMA FailRulesIsLocal ==
    ASSUME TypeOK, StackInv, NEW t \in Threads, FailRules(t)
    PROVE  \E e, frame : LocalStep(t, e, frame)
<1>1. Building(t, "value") /\ AppendField(t, TRUE, Kept(Top(t).parts))
  BY DEF FailRules
<1>2. Kept(Top(t).parts) \in SUBSET Part
  BY <1>1, AtValue DEF Frame, Kept
<1> QED
  BY <1>1, <1>2, AtValue, AppendFieldIsLocal

LEMMA CompileRulesIsLocal ==
    ASSUME TypeOK, StackInv, NEW t \in Threads, CompileRules(t)
    PROVE  \E e, frame : LocalStep(t, e, frame)
<1> DEFINE step == Head(Top(t).todo)
           parts == IF step.outcome = "some"
                    THEN Top(t).parts \cup {step.part} ELSE Top(t).parts
           frame == [Top(t) EXCEPT !.todo = Tail(@), !.parts = parts]
<1>1. Building(t, "value") /\ Top(t).todo # << >>
  BY DEF CompileRules
<1>2. /\ Top(t) \in Frame /\ step \in Step /\ Tail(Top(t).todo) \in Seq(Step)
      /\ Top(t).next \in DOMAIN Described(t).fields
  BY <1>1, AtValue
<1>3. parts \in SUBSET Part
  BY <1>2 DEF Frame, Step
<1>4. frame \in Frame
  <2>1. Top(t).embeds \in Nat /\ Top(t).next \in Nat /\ Top(t).at \in BuildStep
    BY <1>2 DEF Frame
  <2> HIDE DEF parts
  <2> QED
    BY <1>2, <1>3, <2>1, FrameType
<1>5. frame.id = Top(t).id /\ frame.next = Top(t).next
  BY <1>2 DEF Frame
<1>6. /\ stack' = Top1(t, frame)
      /\ UNCHANGED <<caches, evals, pc, result>>
      /\ BuildFrame
  BY DEF CompileRules
<1> QED
  <2> HIDE DEF frame
  <2> QED
    BY <1>1, <1>2, <1>4, <1>5, <1>6, MoveIsLocal

LEMMA EmbedMessageIsLocal ==
    ASSUME TypeOK, CloneInv, StackInv, NEW t \in Threads, EmbedMessage(t)
    PROVE  \E e, frame : LocalStep(t, e, frame)
<1> DEFINE step == Head(Top(t).todo)
           id == caches[cache[t]][step.target]
           parts == Top(t).parts \cup {step.part}
           frame == [Top(t) EXCEPT !.todo = Tail(@), !.embeds = id,
                                   !.parts = parts]
<1>1. Building(t, "value") /\ Top(t).todo # << >>
  BY DEF EmbedMessage
<1>2. /\ Top(t) \in Frame /\ step \in Step /\ Tail(Top(t).todo) \in Seq(Step)
      /\ Top(t).next \in DOMAIN Described(t).fields
  BY <1>1, AtValue
<1>3. step.part.op = "embed" => id \in Nat
  <2>1. step.part.op = "embed" => step.target \in Messages
    BY <1>2 DEF Step
  <2>2. cache[t] \in DOMAIN caches
    BY <1>1 DEF CloneInv, Owns, Building
  <2> QED
    BY <2>1, <2>2 DEF TypeOK, Cache
<1>4. CASE AppendField(t, TRUE, Kept(Top(t).parts))
  <2>1. Kept(Top(t).parts) \in SUBSET Part
    BY <1>2 DEF Frame, Kept
  <2> QED
    BY <1>1, <1>2, <1>4, <2>1, AppendFieldIsLocal
<1>5. CASE /\ id \in Nat
           /\ stack' = Top1(t, frame)
           /\ UNCHANGED <<caches, evals, pc, result>>
           /\ BuildFrame
  <2>1. parts \in SUBSET Part
    BY <1>2 DEF Frame, Step
  <2>2. frame \in Frame
    <3>1. Top(t).next \in Nat /\ Top(t).at \in BuildStep
      BY <1>2 DEF Frame
    <3> HIDE DEF parts, id
    <3> QED
      BY <1>2, <1>5, <2>1, <3>1, FrameType
  <2>3. frame.id = Top(t).id /\ frame.next = Top(t).next
    BY <1>2 DEF Frame
  <2> HIDE DEF frame
  <2> QED
    BY <1>1, <1>2, <1>5, <2>2, <2>3, MoveIsLocal
<1>6. step.part.op = "embed"
  BY DEF EmbedMessage
<1>7. \/ AppendField(t, TRUE, Kept(Top(t).parts))
      \/ /\ stack' = Top1(t, frame)
         /\ UNCHANGED <<caches, evals, pc, result>>
         /\ BuildFrame
  BY ZenonT(60) DEF EmbedMessage
<1> QED
  <2> HIDE DEF frame, id, step
  <2> QED
    BY <1>3, <1>4, <1>5, <1>6, <1>7

-----------------------------------------------------------------------------
(* Each step preserves the invariant.                                      *)

LEMMA LocalPreserves ==
    ASSUME IInv, NEW t \in Threads, NEW e, NEW frame, LocalStep(t, e, frame)
    PROVE  IInv'
<1> USE DEF IInv
<1>1. /\ Len(stack[t]) \in DOMAIN stack[t]
      /\ Top(t) \in Frame
      /\ Top(t).id \in DOMAIN evals
  BY TopType DEF LocalStep
<1>2. /\ evals' \in Seq(Evaluator)
      /\ DOMAIN evals' = DOMAIN evals
      /\ \A i \in DOMAIN evals : evals'[i].of = evals[i].of
      /\ \A i \in DOMAIN evals : i # Top(t).id => evals'[i] = evals[i]
      /\ evals'[Top(t).id] = e
  BY <1>1 DEF LocalStep, TypeOK
<1>3. /\ stack' \in [Threads -> Seq(Frame)]
      /\ \A u \in Threads : /\ DOMAIN stack'[u] = DOMAIN stack[u]
                            /\ stack[u] = << >> <=> stack'[u] = << >>
      /\ \A u \in Threads \ {t} : stack'[u] = stack[u]
      /\ \A k \in DOMAIN stack[t] :
            \/ k # Len(stack[t]) /\ stack'[t][k] = stack[t][k]
            \/ k = Len(stack[t]) /\ stack'[t][k] = frame
  BY <1>1 DEF LocalStep, TypeOK, Top1
<1>4. TypeOK'
  BY <1>2, <1>3 DEF LocalStep, TypeOK
<1>5. LockInv'
  BY DEF LocalStep, LockInv
<1>6. NewInv'
  BY DEF LocalStep, NewInv
<1>7. EntryInv'
  <2>1. ASSUME NEW b \in DOMAIN caches', NEW m \in Messages, caches'[b][m] # None
        PROVE  evals'[caches'[b][m]].of = m
    <3>1. caches' = caches
      BY DEF LocalStep
    <3>2. caches[b][m] \in DOMAIN evals
      BY <2>1, <3>1 DEF TypeOK
    <3>3. evals[caches[b][m]].of = m
      BY <2>1, <3>1 DEF EntryInv
    <3>4. evals'[caches[b][m]].of = evals[caches[b][m]].of
      BY <1>2, <3>2
    <3> QED  BY <3>1, <3>3, <3>4
  <2> QED  BY <2>1 DEF EntryInv
<1>8. CloneInv'
  BY DEF LocalStep, CloneInv, Owns
<1>9. StackInv'
  <2>1. PublishedEvals' = PublishedEvals
    BY DEF LocalStep, PublishedEvals
  <2>2. ASSUME NEW u \in Threads, NEW k \in DOMAIN stack[u]
        PROVE  /\ stack'[u][k].id = stack[u][k].id
               /\ stack[u][k].id \in DOMAIN evals
               /\ stack[u][k].id \notin PublishedEvals
               /\ FieldInRange(stack[u][k])'
    <3>1. /\ stack[u][k].id \in DOMAIN evals
          /\ stack[u][k].id \notin PublishedEvals
          /\ FieldInRange(stack[u][k])
      BY DEF StackInv
    <3>2. CASE u = t /\ k = Len(stack[t])
      <4>1. stack'[u][k] = frame
        BY <1>3, <3>2
      <4>2. evals'[frame.id] = e
        BY <1>2 DEF LocalStep
      <4> QED
        BY <3>1, <3>2, <4>1, <4>2 DEF LocalStep, FieldInRange, Top
    <3>3. CASE ~(u = t /\ k = Len(stack[t]))
      <4>1. stack'[u][k] = stack[u][k]
        BY <1>3, <3>3
      <4>2. evals'[stack[u][k].id].of = evals[stack[u][k].id].of
        BY <1>2, <3>1
      <4> QED
        BY <3>1, <4>1, <4>2 DEF LocalStep, FieldInRange
    <3> QED
      BY <3>2, <3>3
  <2>3. ASSUME NEW u \in Threads, pc[u] = "build", u # Constructor
        PROVE  stack'[u][1].id = caches[cache[u]][desc[u]]
    <3>1. stack[u] # << >> /\ stack[u][1].id = caches[cache[u]][desc[u]]
      BY <2>3 DEF StackInv
    <3>2. 1 \in DOMAIN stack[u]
      BY <3>1 DEF TypeOK
    <3> QED
      BY <2>2, <3>1, <3>2
  <2>4. pc' = pc /\ cache' = cache /\ desc' = desc /\ caches' = caches
    BY <1>2 DEF LocalStep
  <2>5. ASSUME NEW u \in Threads
        PROVE  /\ pc'[u] # "build" => stack'[u] = << >>
               /\ pc'[u] = "build" => stack'[u] # << >>
               /\ pc'[u] = "seed" => u = Constructor
    BY <1>3, <2>4 DEF StackInv
  <2>6. ASSUME NEW u \in Threads, NEW k \in DOMAIN stack'[u]
        PROVE  /\ stack'[u][k].id \in DOMAIN evals'
               /\ stack'[u][k].id \notin PublishedEvals'
               /\ FieldInRange(stack[u][k])'
    <3>1. k \in DOMAIN stack[u]
      BY <1>3, <2>6
    <3> QED
      BY <1>2, <2>1, <2>2, <3>1
  <2> QED
    BY <2>3, <2>4, <2>5, <2>6 DEF StackInv
<1>10. OwnedInv'
  BY <1>2 DEF LocalStep, OwnedInv, Owns
<1>11. ResultInv'
  BY DEF LocalStep, ResultInv
<1> QED
  BY <1>4, <1>5, <1>6, <1>7, <1>8, <1>9, <1>10, <1>11

(* What the start of a build call does to the heaps and the stack.         *)
LEMMA NewEvaluator ==
    ASSUME TypeOK, NEW d \in Messages, evals' = Append(evals, EmptyMessage(d))
    PROVE  /\ evals' \in Seq(Evaluator)
           /\ DOMAIN evals' = DOMAIN evals \cup {Len(evals) + 1}
           /\ Len(evals) + 1 \in Nat \ {0}
           /\ Len(evals) + 1 \notin DOMAIN evals
           /\ \A i \in DOMAIN evals : evals'[i] = evals[i]
           /\ evals'[Len(evals) + 1].of = d
           /\ NewFrame(Len(evals) + 1) \in Frame
<1>1. EmptyMessage(d) \in Evaluator /\ EmptyMessage(d).of = d
  <2>1. << >> \in Seq(FieldEvaluator)
    OBVIOUS
  <2> QED
    BY <2>1 DEF EmptyMessage, Evaluator
<1>2. evals \in Seq(Evaluator)
  BY DEF TypeOK
<1>3. NewFrame(Len(evals) + 1) \in Frame
  <2>1. << >> \in Seq(Step) /\ Len(evals) + 1 \in Nat
    BY <1>2
  <2> QED
    BY <2>1 DEF NewFrame, Frame, BuildStep, None
<1> HIDE DEF EmptyMessage
<1> QED
  BY <1>1, <1>2, <1>3

LEMMA StartBuildEffect ==
    ASSUME TypeOK, NEW t \in Threads, NEW c \in DOMAIN caches,
           NEW d \in Messages, StartBuild(t, c, d)
    PROVE  /\ caches' \in Seq(Cache)
           /\ DOMAIN caches' = DOMAIN caches /\ Len(caches') = Len(caches)
           /\ \A b \in DOMAIN caches \ {c} : caches'[b] = caches[b]
           /\ \A m \in Messages \ {d} : caches'[c][m] = caches[c][m]
           /\ caches'[c][d] = Len(evals) + 1
           /\ stack' \in [Threads -> Seq(Frame)]
           /\ \A u \in Threads \ {t} : stack'[u] = stack[u]
           /\ stack'[t] = Append(stack[t], NewFrame(Len(evals) + 1))
           /\ DOMAIN stack'[t] = DOMAIN stack[t] \cup {Len(stack[t]) + 1}
           /\ stack'[t] # << >>
           /\ \A k \in DOMAIN stack[t] : stack'[t][k] = stack[t][k]
           /\ stack'[t][Len(stack[t]) + 1] = NewFrame(Len(evals) + 1)
<1>1. /\ evals \in Seq(Evaluator) /\ caches \in Seq(Cache)
      /\ stack \in [Threads -> Seq(Frame)]
  BY DEF TypeOK
<1>2. NewFrame(Len(evals) + 1) \in Frame /\ Len(evals) + 1 \in Nat
  BY NewEvaluator DEF StartBuild
<1>3. /\ caches' \in Seq(Cache)
      /\ DOMAIN caches' = DOMAIN caches /\ Len(caches') = Len(caches)
      /\ \A b \in DOMAIN caches \ {c} : caches'[b] = caches[b]
      /\ caches'[c] = [caches[c] EXCEPT ![d] = Len(evals) + 1]
  <2>1. caches[c] \in Cache
    BY <1>1
  <2>2. [caches[c] EXCEPT ![d] = Len(evals) + 1] \in Cache
    BY <1>2, <2>1 DEF Cache
  <2>3. caches' = [caches EXCEPT ![c] = [caches[c] EXCEPT ![d] = Len(evals) + 1]]
    BY DEF StartBuild
  <2> QED
    BY <1>1, <2>2, <2>3
<1>4. caches[c] \in [Messages -> Nat]
  BY <1>1 DEF Cache
<1>5. stack'[t] = Append(stack[t], NewFrame(Len(evals) + 1))
  BY <1>1 DEF StartBuild
<1> HIDE DEF NewFrame
<1>6. /\ stack' \in [Threads -> Seq(Frame)]
      /\ \A u \in Threads \ {t} : stack'[u] = stack[u]
  BY <1>1, <1>2 DEF StartBuild
<1> QED
  BY <1>1, <1>2, <1>3, <1>4, <1>5, <1>6

LEMMA EnterEmbeddedPreserves ==
    ASSUME IInv, NEW t \in Threads, EnterEmbedded(t)
    PROVE  IInv'
<1> USE DEF IInv
<1> DEFINE d == Head(Top(t).todo).target
           c == cache[t]
           new == Len(evals) + 1
<1>1. pc[t] = "build" /\ stack[t] # << >> /\ Owns(t)
  BY DEF EnterEmbedded, Building, Owns
<1>2. d \in Messages
  BY AtValue DEF EnterEmbedded, Step
<1>3. /\ StartBuild(t, c, d) /\ caches[c][d] = None
      /\ UNCHANGED <<schema, lazy, seeds, mtx, published, desc, cache, pc,
                     result>>
  BY DEF EnterEmbedded, BuildFrame
<1>4. c \in DOMAIN caches /\ c # published
  BY <1>1 DEF CloneInv
<1>5. \A u \in Threads : Owns(u) => u = t
  BY <1>1 DEF LockInv, NewInv, Owns, Critical, Threads
<1>6. t # Constructor => published # None
  BY <1>1 DEF NewInv, Threads
<1> HIDE DEF d
<1>7. /\ evals' \in Seq(Evaluator)
      /\ DOMAIN evals' = DOMAIN evals \cup {new}
      /\ new \in Nat \ {0}
      /\ new \notin DOMAIN evals
      /\ \A i \in DOMAIN evals : evals'[i] = evals[i]
      /\ evals'[new].of = d
      /\ NewFrame(new) \in Frame
  BY <1>2, <1>3, NewEvaluator DEF StartBuild
<1>8. /\ caches' \in Seq(Cache)
      /\ DOMAIN caches' = DOMAIN caches /\ Len(caches') = Len(caches)
      /\ \A b \in DOMAIN caches \ {c} : caches'[b] = caches[b]
      /\ \A m \in Messages \ {d} : caches'[c][m] = caches[c][m]
      /\ caches'[c][d] = new
      /\ stack' \in [Threads -> Seq(Frame)]
      /\ \A u \in Threads \ {t} : stack'[u] = stack[u]
      /\ DOMAIN stack'[t] = DOMAIN stack[t] \cup {Len(stack[t]) + 1}
      /\ stack'[t] # << >>
      /\ \A k \in DOMAIN stack[t] : stack'[t][k] = stack[t][k]
      /\ stack'[t][Len(stack[t]) + 1] = NewFrame(new)
  BY <1>2, <1>3, <1>4, StartBuildEffect
<1> HIDE DEF new, c
<1>9. \A b \in DOMAIN caches, m \in Messages :
          caches[b][m] # None => caches[b][m] \in DOMAIN evals
  BY DEF TypeOK
<1>10. \A i \in DOMAIN evals : evals[i].of \in Messages /\ i # None
  <2>1. evals \in Seq(Evaluator)
    BY DEF TypeOK
  <2>2. \A i \in DOMAIN evals : evals[i] \in Evaluator /\ i # 0
    BY <2>1
  <2> QED
    BY <2>2 DEF Evaluator, None
<1>11. TypeOK'
  <2>1. \A b \in DOMAIN caches', m \in Messages :
           caches'[b][m] # None => caches'[b][m] \in DOMAIN evals'
    BY <1>7, <1>8, <1>9
  <2> QED
    BY <1>3, <1>7, <1>8, <2>1 DEF TypeOK
<1>12. LockInv'
  BY <1>3 DEF LockInv
<1>13. NewInv'
  BY <1>3, <1>8 DEF NewInv
<1>14. EntryInv'
  <2>1. ASSUME NEW b \in DOMAIN caches', NEW m \in Messages, caches'[b][m] # None
        PROVE  evals'[caches'[b][m]].of = m
    <3>1. b \in DOMAIN caches
      BY <1>8
    <3>2. CASE b = c /\ m = d
      BY <1>7, <1>8, <3>2
    <3>3. CASE ~(b = c /\ m = d)
      <4>1. caches'[b][m] = caches[b][m] /\ caches[b][m] # None
        BY <1>8, <2>1, <3>1, <3>3
      <4>2. caches[b][m] \in DOMAIN evals
        BY <1>9, <3>1, <4>1
      <4>3. evals[caches[b][m]].of = m
        BY <3>1, <4>1 DEF EntryInv
      <4> QED  BY <1>7, <4>1, <4>2, <4>3
    <3> QED  BY <3>2, <3>3
  <2> QED  BY <2>1 DEF EntryInv
<1>15. CloneInv'
  <2>1. published # None => caches'[published] = caches[published]
    BY <1>4, <1>8 DEF CloneInv
  <2>2. \A m \in Messages : caches[c][m] # None => caches'[c][m] = caches[c][m]
    BY <1>3, <1>8
  <2>3. \A u \in Threads : Owns(u)' => Owns(u)
    BY <1>3 DEF Owns
  <2>4. Owns(t) /\ cache[t] = c
    BY <1>1 DEF c
  <2>5. published # None => \A m \in Messages : caches[published][m] # None =>
            /\ caches[c][m] = caches[published][m]
            /\ caches'[c][m] = caches[c][m]
    BY <2>2, <2>4 DEF CloneInv
  <2>6. (published # None => published \in DOMAIN caches)'
    BY <1>3, <1>8 DEF CloneInv
  <2> QED
    BY <1>3, <1>4, <1>5, <1>8, <2>1, <2>3, <2>4, <2>5, <2>6 DEF CloneInv
<1>16. StackInv'
  <2>1. PublishedEvals' = PublishedEvals /\ PublishedEvals \subseteq DOMAIN evals
    <3>1. published # None => /\ published \in DOMAIN caches
                              /\ caches'[published] = caches[published]
      BY <1>4, <1>8 DEF CloneInv
    <3> QED
      BY <1>3, <1>9, <3>1 DEF PublishedEvals
  <2>2. ASSUME NEW u \in Threads, NEW k \in DOMAIN stack'[u]
        PROVE  /\ stack'[u][k].id \in DOMAIN evals'
               /\ stack'[u][k].id \notin PublishedEvals
               /\ FieldInRange(stack[u][k])'
    <3>1. CASE u = t /\ k = Len(stack[t]) + 1
      <4>1. stack'[u][k] = NewFrame(new)
        BY <1>8, <3>1
      <4> QED
        BY <1>7, <2>1, <4>1 DEF NewFrame, FieldInRange
    <3>2. CASE ~(u = t /\ k = Len(stack[t]) + 1)
      <4>1. k \in DOMAIN stack[u] /\ stack'[u][k] = stack[u][k]
        BY <1>8, <3>2
      <4>2. /\ stack[u][k].id \in DOMAIN evals
            /\ stack[u][k].id \notin PublishedEvals
            /\ FieldInRange(stack[u][k])
        BY <4>1 DEF StackInv
      <4> QED
        BY <1>3, <1>7, <4>1, <4>2 DEF FieldInRange
    <3> QED
      BY <3>1, <3>2
  <2>3. ASSUME NEW u \in Threads, pc[u] = "build", u # Constructor
        PROVE  stack'[u][1].id = caches'[cache[u]][desc[u]]
    <3>1. u = t
      BY <1>5, <2>3 DEF Owns
    <3>2. stack[t][1].id = caches[c][desc[t]]
      BY <1>1, <2>3, <3>1 DEF StackInv, c
    <3>3. 1 \in DOMAIN stack[t]
      BY <1>1 DEF TypeOK
    <3>4. stack[t][1].id \in DOMAIN evals
      BY <3>3 DEF StackInv
    <3>5. desc[t] # d
      BY <1>3, <3>2, <3>4 DEF TypeOK, None, c
    <3>6. desc[t] \in Messages
      BY <1>1, <2>3, <3>1 DEF NewInv, Threads
    <3> QED
      BY <1>8, <3>1, <3>2, <3>3, <3>5, <3>6 DEF c
  <2>4. ASSUME NEW u \in Threads
        PROVE  /\ pc[u] # "build" => stack'[u] = << >>
               /\ pc[u] = "build" => stack'[u] # << >>
               /\ pc[u] = "seed" => u = Constructor
    BY <1>1, <1>8 DEF StackInv
  <2> QED
    BY <1>3, <2>1, <2>2, <2>3, <2>4 DEF StackInv
<1>17. OwnedInv'
  <2>1. ASSUME NEW i \in DOMAIN evals'
        PROVE  \/ published # None /\ caches'[published][evals'[i].of] = i
               \/ pc[Constructor] # "idle" /\ caches'[1][evals'[i].of] = i
               \/ \E u \in Loaders : Owns(u) /\ caches'[cache[u]][evals'[i].of] = i
    <3>1. CASE i = new
      <4>1. caches'[c][evals'[i].of] = i
        BY <1>7, <1>8, <3>1
      <4>2. t = Constructor => pc[Constructor] # "idle" /\ c = 1
        BY <1>1 DEF NewInv, c
      <4> QED
        BY <1>1, <4>1, <4>2 DEF Threads, c
    <3>2. CASE i \in DOMAIN evals
      <4>1. evals'[i] = evals[i] /\ evals[i].of \in Messages /\ i # None
        BY <1>7, <1>10, <3>2
      <4>2. \A b \in DOMAIN caches : caches[b][evals[i].of] = i
                => caches'[b][evals[i].of] = i
        BY <1>3, <1>8, <4>1
      <4>3. 1 \in DOMAIN caches
        BY <1>4 DEF TypeOK
      <4>4. \/ published # None /\ caches[published][evals[i].of] = i
            \/ pc[Constructor] # "idle" /\ caches[1][evals[i].of] = i
            \/ \E u \in Loaders : Owns(u) /\ caches[cache[u]][evals[i].of] = i
        BY <3>2 DEF OwnedInv
      <4> QED
        BY <4>1, <4>2, <4>3, <4>4 DEF CloneInv, Threads
    <3> QED
      BY <1>7, <3>1, <3>2
  <2> QED
    BY <1>3, <2>1 DEF OwnedInv, Owns
<1>18. ResultInv'
  <2>1. published # None => caches'[published] = caches[published]
    BY <1>4, <1>8 DEF CloneInv
  <2>2. \A u \in Loaders : pc[u] # "store"
    BY <1>1, <1>5 DEF Owns, Threads
  <2> QED
    BY <1>3, <2>1, <2>2 DEF ResultInv
<1> QED
  BY <1>11, <1>12, <1>13, <1>14, <1>15, <1>16, <1>17, <1>18

(* A loader that is not building moves, and leaves the heaps as they are.  *)
QuietStep(t) ==
    /\ t \in Loaders
    /\ pc[t] \in PC \ {"build", "store", "seed"}
    /\ published # None
    /\ \E at \in PC \ {"build", "store", "seed"} : pc' = [pc EXCEPT ![t] = at]
    /\ UNCHANGED <<schema, lazy, seeds, published, caches, evals, stack>>
    /\ cache' \in [Threads -> Nat]
    /\ \A u \in Threads \ {t} : cache'[u] = cache[u]

LEMMA QuietPreserves ==
    ASSUME IInv, NEW t \in Loaders, QuietStep(t),
           desc' \in [Threads -> Messages \cup {NoMessage}],
           mtx' \in SUBSET Threads,
           result' \in [Threads -> Nat \cup {Unknown}]
    PROVE  /\ TypeOK' /\ EntryInv' /\ CloneInv' /\ OwnedInv'
           /\ (\A u \in Loaders : pc[u] = "build" => desc'[u] = desc[u])
                 => StackInv'
<1> USE DEF IInv
<1>1. t # Constructor /\ t \in Threads
  BY BuilderAssumption DEF Threads
<1>2. /\ pc' \in [Threads -> PC]
      /\ \A u \in Threads \ {t} : pc'[u] = pc[u] /\ cache'[u] = cache[u]
      /\ pc'[t] \notin {"build", "store", "seed"}
      /\ pc[t] \notin {"build", "store", "seed"}
      /\ cache' \in [Threads -> Nat]
  <2>1. PICK at \in PC \ {"build", "store", "seed"} : pc' = [pc EXCEPT ![t] = at]
    BY DEF QuietStep
  <2>2. pc \in [Threads -> PC]
    BY DEF TypeOK
  <2>3. /\ pc' \in [Threads -> PC] /\ pc'[t] = at
        /\ \A u \in Threads \ {t} : pc'[u] = pc[u]
    BY <1>1, <2>1, <2>2
  <2>4. /\ pc[t] \notin {"build", "store", "seed"}
        /\ cache' \in [Threads -> Nat]
        /\ \A u \in Threads \ {t} : cache'[u] = cache[u]
    BY DEF QuietStep
  <2> QED  BY <2>1, <2>3, <2>4
<1>3. UNCHANGED <<schema, lazy, seeds, published, caches, evals, stack>>
  BY DEF QuietStep
<1>4. TypeOK'
  BY <1>2, <1>3 DEF TypeOK
<1>5. EntryInv'
  BY <1>3 DEF EntryInv
<1>6. \A u \in Threads : /\ Owns(u)' <=> Owns(u)
                         /\ Owns(u) => cache'[u] = cache[u]
  BY <1>1, <1>2 DEF Owns
<1>7. CloneInv'
  BY <1>3, <1>6 DEF CloneInv
<1>8. OwnedInv'
  BY <1>1, <1>2, <1>3, <1>6 DEF OwnedInv, Threads
<1>9. ASSUME \A u \in Loaders : pc[u] = "build" => desc'[u] = desc[u]
      PROVE  StackInv'
  <2>1. PublishedEvals' = PublishedEvals
    BY <1>3 DEF PublishedEvals
  <2>2. \A u \in Threads : \A k \in DOMAIN stack[u] :
            FieldInRange(stack[u][k])' <=> FieldInRange(stack[u][k])
    BY <1>3 DEF FieldInRange
  <2>3. \A u \in Threads :
           pc'[u] = "build" => pc[u] = "build" /\ cache'[u] = cache[u]
    BY <1>2
  <2>4. \A u \in Threads : /\ pc[u] = "build" => pc'[u] = "build"
                           /\ pc'[u] = "seed" => pc[u] = "seed"
    BY <1>2
  <2> QED
    BY <1>3, <1>9, <2>1, <2>2, <2>3, <2>4 DEF StackInv, Threads
<1> QED
  BY <1>4, <1>5, <1>7, <1>8, <1>9

LEMMA LoaderFacts ==
    ASSUME IInv, NEW t \in Loaders
    PROVE  /\ t # Constructor /\ t \in Threads
           /\ pc[t] # "idle" => published # None /\ desc[t] \in Messages
           /\ pc[t] = "seed" => FALSE
  BY BuilderAssumption DEF IInv, NewInv, Threads, StackInv

LEMMA CallPreserves ==
    ASSUME IInv, NEW t \in Threads, Call(t)
    PROVE  IInv'
<1> USE DEF IInv
<1>1. t \in Loaders /\ t # Constructor /\ pc[t] = "idle" /\ published # None
  BY LoaderFacts DEF Call
<1>2. PICK d \in Messages : desc' = [desc EXCEPT ![t] = d]
  BY DEF Call
<1>3. /\ pc' = [pc EXCEPT ![t] = "fast"]
      /\ result' = [result EXCEPT ![t] = None]
      /\ UNCHANGED <<schema, lazy, seeds, mtx, published, caches, evals, cache,
                     stack>>
  BY DEF Call
<1>4. /\ desc' \in [Threads -> Messages \cup {NoMessage}]
      /\ result' \in [Threads -> Nat \cup {Unknown}]
      /\ mtx' \in SUBSET Threads
  BY <1>2, <1>3 DEF TypeOK, None
<1>5. QuietStep(t)
  <2>1. /\ cache' \in [Threads -> Nat]
        /\ \A u \in Threads \ {t} : cache'[u] = cache[u]
    BY <1>1, <1>3 DEF TypeOK, None
  <2> QED
    BY <1>1, <1>3, <2>1 DEF QuietStep, PC
<1>6. \A u \in Loaders : pc[u] = "build" => desc'[u] = desc[u]
  BY <1>1, <1>2 DEF TypeOK, Threads
<1>7. TypeOK' /\ EntryInv' /\ CloneInv' /\ OwnedInv' /\ StackInv'
  BY <1>1, <1>4, <1>5, <1>6, QuietPreserves
<1>8. LockInv'
  BY <1>1, <1>3 DEF LockInv, Critical, TypeOK, Threads
<1>9. NewInv'
  BY <1>1, <1>2, <1>3 DEF NewInv, TypeOK, Threads
<1>10. ResultInv'
  BY <1>1, <1>2, <1>3 DEF ResultInv, TypeOK, Threads
<1> QED
  BY <1>7, <1>8, <1>9, <1>10

LEMMA LoadHitPreserves ==
    ASSUME IInv, NEW t \in Loaders, LoadHit(t)
    PROVE  IInv'
<1> USE DEF IInv
<1>1. /\ t \in Threads /\ t # Constructor /\ published # None
      /\ desc[t] \in Messages /\ published \in DOMAIN caches
  BY LoaderFacts DEF LoadHit, CloneInv
<1>2. caches[published][desc[t]] \in Nat
  BY <1>1 DEF TypeOK, Cache
<1>3. /\ pc[t] = "fast" /\ pc' = [pc EXCEPT ![t] = "idle"]
      /\ result' = [result EXCEPT ![t] = caches[published][desc[t]]]
      /\ UNCHANGED <<schema, lazy, seeds, mtx, published, caches, evals, desc,
                     cache, stack>>
  BY DEF LoadHit
<1>4. /\ desc' \in [Threads -> Messages \cup {NoMessage}]
      /\ result' \in [Threads -> Nat \cup {Unknown}]
      /\ mtx' \in SUBSET Threads
  BY <1>1, <1>2, <1>3 DEF TypeOK
<1>5. QuietStep(t)
  <2>1. /\ cache' \in [Threads -> Nat]
        /\ \A u \in Threads \ {t} : cache'[u] = cache[u]
    BY <1>1, <1>3 DEF TypeOK, None
  <2> QED
    BY <1>1, <1>3, <2>1 DEF QuietStep, PC
<1>6. TypeOK' /\ EntryInv' /\ CloneInv' /\ OwnedInv' /\ StackInv'
  BY <1>3, <1>4, <1>5, QuietPreserves
<1>7. LockInv'
  BY <1>1, <1>3 DEF LockInv, Critical, TypeOK, Threads
<1>8. NewInv'
  BY <1>1, <1>3 DEF NewInv, TypeOK, Threads
<1>9. ResultInv'
  BY <1>1, <1>3 DEF ResultInv, TypeOK, Threads
<1> QED
  BY <1>6, <1>7, <1>8, <1>9

LEMMA LoadUnknownPreserves ==
    ASSUME IInv, NEW t \in Loaders, LoadUnknown(t)
    PROVE  IInv'
<1> USE DEF IInv
<1>1. /\ t \in Threads /\ t # Constructor /\ published # None
      /\ desc[t] \in Messages /\ published \in DOMAIN caches
  BY LoaderFacts DEF LoadUnknown, CloneInv
<1>2. caches[published][desc[t]] \in Nat
  BY <1>1 DEF TypeOK, Cache
<1>3. /\ pc[t] = "fast" /\ pc' = [pc EXCEPT ![t] = "idle"]
      /\ result' = [result EXCEPT ![t] = Unknown]
      /\ UNCHANGED <<schema, lazy, seeds, mtx, published, caches, evals, desc,
                     cache, stack>>
  BY DEF LoadUnknown
<1>4. /\ desc' \in [Threads -> Messages \cup {NoMessage}]
      /\ result' \in [Threads -> Nat \cup {Unknown}]
      /\ mtx' \in SUBSET Threads
  BY <1>1, <1>2, <1>3 DEF TypeOK
<1>5. QuietStep(t)
  <2>1. /\ cache' \in [Threads -> Nat]
        /\ \A u \in Threads \ {t} : cache'[u] = cache[u]
    BY <1>1, <1>3 DEF TypeOK, None
  <2> QED
    BY <1>1, <1>3, <2>1 DEF QuietStep, PC
<1>6. TypeOK' /\ EntryInv' /\ CloneInv' /\ OwnedInv' /\ StackInv'
  BY <1>3, <1>4, <1>5, QuietPreserves
<1>7. LockInv'
  BY <1>1, <1>3 DEF LockInv, Critical, TypeOK, Threads
<1>8. NewInv'
  BY <1>1, <1>3 DEF NewInv, TypeOK, Threads
<1>9. ResultInv'
  BY <1>1, <1>3 DEF ResultInv, TypeOK, Threads
<1> QED
  BY <1>6, <1>7, <1>8, <1>9

LEMMA LoadMissPreserves ==
    ASSUME IInv, NEW t \in Loaders, LoadMiss(t)
    PROVE  IInv'
<1> USE DEF IInv
<1>1. /\ t \in Threads /\ t # Constructor /\ published # None
      /\ desc[t] \in Messages /\ published \in DOMAIN caches
  BY LoaderFacts DEF LoadMiss, CloneInv
<1>2. caches[published][desc[t]] \in Nat
  BY <1>1 DEF TypeOK, Cache
<1>3. /\ pc[t] = "fast" /\ pc' = [pc EXCEPT ![t] = "lock"]
      /\ cache' = [cache EXCEPT ![t] = published]
      /\ UNCHANGED <<schema, lazy, seeds, mtx, published, caches, evals, desc,
                     stack, result>>
  BY DEF LoadMiss
<1>4. /\ desc' \in [Threads -> Messages \cup {NoMessage}]
      /\ result' \in [Threads -> Nat \cup {Unknown}]
      /\ mtx' \in SUBSET Threads
  BY <1>1, <1>2, <1>3 DEF TypeOK
<1>5. QuietStep(t)
  <2>1. /\ cache' \in [Threads -> Nat]
        /\ \A u \in Threads \ {t} : cache'[u] = cache[u]
    BY <1>1, <1>3 DEF TypeOK, None
  <2> QED
    BY <1>1, <1>3, <2>1 DEF QuietStep, PC
<1>6. TypeOK' /\ EntryInv' /\ CloneInv' /\ OwnedInv' /\ StackInv'
  BY <1>3, <1>4, <1>5, QuietPreserves
<1>7. LockInv'
  BY <1>1, <1>3 DEF LockInv, Critical, TypeOK, Threads
<1>8. NewInv'
  BY <1>1, <1>3 DEF NewInv, TypeOK, Threads
<1>9. ResultInv'
  BY <1>1, <1>3 DEF ResultInv, TypeOK, Threads
<1> QED
  BY <1>6, <1>7, <1>8, <1>9

LEMMA LockPreserves ==
    ASSUME IInv, NEW t \in Loaders, Lock(t)
    PROVE  IInv'
<1> USE DEF IInv
<1>1. /\ t \in Threads /\ t # Constructor /\ published # None
      /\ desc[t] \in Messages /\ published \in DOMAIN caches
  BY LoaderFacts DEF Lock, CloneInv
<1>2. caches[published][desc[t]] \in Nat
  BY <1>1 DEF TypeOK, Cache
<1>3. /\ pc[t] = "lock" /\ pc' = [pc EXCEPT ![t] = "check"]
      /\ mtx = {} /\ mtx' = {t}
      /\ UNCHANGED <<schema, lazy, seeds, published, caches, evals, desc, cache,
                     stack, result>>
  BY DEF Lock
<1>4. /\ desc' \in [Threads -> Messages \cup {NoMessage}]
      /\ result' \in [Threads -> Nat \cup {Unknown}]
      /\ mtx' \in SUBSET Threads
  BY <1>1, <1>2, <1>3 DEF TypeOK
<1>5. QuietStep(t)
  <2>1. /\ cache' \in [Threads -> Nat]
        /\ \A u \in Threads \ {t} : cache'[u] = cache[u]
    BY <1>1, <1>3 DEF TypeOK, None
  <2> QED
    BY <1>1, <1>3, <2>1 DEF QuietStep, PC
<1>6. TypeOK' /\ EntryInv' /\ CloneInv' /\ OwnedInv' /\ StackInv'
  BY <1>3, <1>4, <1>5, QuietPreserves
<1>7. LockInv'
  BY <1>1, <1>3 DEF LockInv, Critical, TypeOK, Threads
<1>8. NewInv'
  BY <1>1, <1>3 DEF NewInv, TypeOK, Threads
<1>9. ResultInv'
  BY <1>1, <1>3 DEF ResultInv, TypeOK, Threads
<1> QED
  BY <1>6, <1>7, <1>8, <1>9

LEMMA RecheckPreserves ==
    ASSUME IInv, NEW t \in Loaders, Recheck(t)
    PROVE  IInv'
<1> USE DEF IInv
<1>1. /\ t \in Threads /\ t # Constructor /\ published # None
      /\ desc[t] \in Messages /\ published \in DOMAIN caches
  BY LoaderFacts DEF Recheck, CloneInv
<1>2. caches[published][desc[t]] \in Nat
  BY <1>1 DEF TypeOK, Cache
<1>3. /\ pc[t] = "check" /\ pc' = [pc EXCEPT ![t] = "unlock"]
      /\ cache' = [cache EXCEPT ![t] = published]
      /\ result' = [result EXCEPT ![t] = caches[published][desc[t]]]
      /\ UNCHANGED <<schema, lazy, seeds, mtx, published, caches, evals, desc,
                     stack>>
  BY DEF Recheck
<1>4. /\ desc' \in [Threads -> Messages \cup {NoMessage}]
      /\ result' \in [Threads -> Nat \cup {Unknown}]
      /\ mtx' \in SUBSET Threads
  BY <1>1, <1>2, <1>3 DEF TypeOK
<1>5. QuietStep(t)
  <2>1. /\ cache' \in [Threads -> Nat]
        /\ \A u \in Threads \ {t} : cache'[u] = cache[u]
    BY <1>1, <1>3 DEF TypeOK, None
  <2> QED
    BY <1>1, <1>3, <2>1 DEF QuietStep, PC
<1>6. TypeOK' /\ EntryInv' /\ CloneInv' /\ OwnedInv' /\ StackInv'
  BY <1>3, <1>4, <1>5, QuietPreserves
<1>7. LockInv'
  BY <1>1, <1>3 DEF LockInv, Critical, TypeOK, Threads
<1>8. NewInv'
  BY <1>1, <1>3 DEF NewInv, TypeOK, Threads
<1>9. ResultInv'
  BY <1>1, <1>3 DEF ResultInv, TypeOK, Threads
<1> QED
  BY <1>6, <1>7, <1>8, <1>9

LEMMA UnlockPreserves ==
    ASSUME IInv, NEW t \in Loaders, Unlock(t)
    PROVE  IInv'
<1> USE DEF IInv
<1>1. /\ t \in Threads /\ t # Constructor /\ published # None
      /\ desc[t] \in Messages /\ published \in DOMAIN caches
  BY LoaderFacts DEF Unlock, CloneInv
<1>2. caches[published][desc[t]] \in Nat
  BY <1>1 DEF TypeOK, Cache
<1>3. /\ pc[t] = "unlock" /\ pc' = [pc EXCEPT ![t] = "idle"]
      /\ mtx' = {}
      /\ cache' = [cache EXCEPT ![t] = None]
      /\ UNCHANGED <<schema, lazy, seeds, published, caches, evals, desc, stack,
                     result>>
  BY DEF Unlock
<1>4. /\ desc' \in [Threads -> Messages \cup {NoMessage}]
      /\ result' \in [Threads -> Nat \cup {Unknown}]
      /\ mtx' \in SUBSET Threads
  BY <1>1, <1>2, <1>3 DEF TypeOK
<1>5. QuietStep(t)
  <2>1. /\ cache' \in [Threads -> Nat]
        /\ \A u \in Threads \ {t} : cache'[u] = cache[u]
    BY <1>1, <1>3 DEF TypeOK, None
  <2> QED
    BY <1>1, <1>3, <2>1 DEF QuietStep, PC
<1>6. TypeOK' /\ EntryInv' /\ CloneInv' /\ OwnedInv' /\ StackInv'
  BY <1>3, <1>4, <1>5, QuietPreserves
<1>7. LockInv'
  BY <1>1, <1>3 DEF LockInv, Critical, TypeOK, Threads
<1>8. NewInv'
  BY <1>1, <1>3 DEF NewInv, TypeOK, Threads
<1>9. ResultInv'
  BY <1>1, <1>3 DEF ResultInv, TypeOK, Threads
<1> QED
  BY <1>6, <1>7, <1>8, <1>9

LEMMA StorePreserves ==
    ASSUME IInv, NEW t \in Loaders, Store(t)
    PROVE  IInv'
<1> USE DEF IInv
<1>1. /\ t \in Threads /\ t # Constructor /\ published # None
      /\ pc[t] = "store" /\ Owns(t)
  BY LoaderFacts DEF Store, Owns
<1>2. /\ cache[t] \in DOMAIN caches /\ cache[t] # None
      /\ \A d \in Messages : caches[published][d] # None
            => caches[cache[t]][d] = caches[published][d]
  BY <1>1 DEF CloneInv, TypeOK, None
<1>3. /\ published' = cache[t]
      /\ pc' = [pc EXCEPT ![t] = "unlock"]
      /\ UNCHANGED <<schema, lazy, seeds, mtx, caches, evals, desc, cache,
                     stack, result>>
  BY DEF Store
<1>4. \A u \in Threads : u # t => pc[u] \notin {"build", "store"}
  BY <1>1 DEF LockInv, NewInv, Critical, Threads
<1>5. /\ pc' \in [Threads -> PC] /\ pc'[t] = "unlock"
      /\ \A u \in Threads \ {t} : pc'[u] = pc[u]
  BY <1>1, <1>3 DEF TypeOK, PC
<1>6. \A u \in Threads : stack[u] = << >> /\ ~Owns(u)'
  BY <1>1, <1>4, <1>5 DEF StackInv, Owns
<1>7. TypeOK'
  BY <1>1, <1>2, <1>3, <1>5 DEF TypeOK
<1>8. LockInv'
  BY <1>1, <1>3, <1>5 DEF LockInv, Critical, Threads
<1>9. NewInv'
  BY <1>1, <1>2, <1>3, <1>5 DEF NewInv, Threads
<1>10. EntryInv'
  BY <1>3 DEF EntryInv
<1>11. CloneInv'
  BY <1>2, <1>3, <1>6 DEF CloneInv
<1>12. StackInv'
  BY <1>1, <1>3, <1>5, <1>6, <1>4 DEF StackInv
<1>13. OwnedInv'
  <2>1. ASSUME NEW i \in DOMAIN evals
        PROVE  caches[cache[t]][evals[i].of] = i
    <3>1. evals \in Seq(Evaluator)
      BY DEF TypeOK
    <3>2. evals[i].of \in Messages /\ i # None
      <4>1. evals[i] \in Evaluator /\ i # 0
        BY <3>1
      <4> QED
        BY <4>1 DEF Evaluator, None
    <3>3. \/ caches[published][evals[i].of] = i
          \/ \E u \in Loaders : Owns(u) /\ caches[cache[u]][evals[i].of] = i
      BY <1>1 DEF OwnedInv, NewInv
    <3> QED
      BY <1>2, <1>4, <3>2, <3>3 DEF Owns, Threads
  <2> QED
    BY <1>2, <1>3, <2>1 DEF OwnedInv
<1>14. ResultInv'
  <2>1. result[t] = caches[cache[t]][desc[t]] /\ desc[t] \in Messages
    BY <1>1, LoaderFacts DEF ResultInv
  <2>2. ASSUME NEW u \in Loaders, u # t, pc[u] \in {"idle", "unlock"},
               result[u] \notin {None, Unknown}
        PROVE  desc[u] \in Messages /\ caches[cache[t]][desc[u]] = result[u]
    BY <1>2, <2>2 DEF ResultInv
  <2> QED
    BY <1>2, <1>3, <1>4, <1>5, <2>1, <2>2 DEF ResultInv, Threads
<1> QED
  BY <1>7, <1>8, <1>9, <1>10, <1>11, <1>12, <1>13, <1>14

LEMMA PublishPreserves ==
    ASSUME IInv, Publish
    PROVE  IInv'
<1> USE DEF IInv
<1>1. /\ pc[Constructor] = "seed" /\ Constructor \in Threads
      /\ published' = cache[Constructor]
      /\ cache' = [cache EXCEPT ![Constructor] = None]
      /\ pc' = [pc EXCEPT ![Constructor] = "idle"]
      /\ UNCHANGED <<schema, lazy, seeds, mtx, caches, evals, desc, stack,
                     result>>
  BY DEF Publish, Threads
<1>2. /\ published' = 1 /\ 1 \in DOMAIN caches /\ mtx = {} /\ published = None
      /\ \A u \in Loaders : pc[u] = "idle" /\ result[u] = None
  BY <1>1 DEF NewInv, TypeOK
<1>3. /\ pc' \in [Threads -> PC] /\ cache' \in [Threads -> Nat]
      /\ \A u \in Threads : pc'[u] = "idle"
  BY <1>1, <1>2 DEF TypeOK, PC, Threads, None
<1>4. \A u \in Threads : stack[u] = << >> /\ ~Owns(u)'
  BY <1>1, <1>2, <1>3 DEF StackInv, Owns, Threads
<1>5. TypeOK'
  BY <1>1, <1>2, <1>3 DEF TypeOK
<1>6. LockInv'
  BY <1>1, <1>2, <1>3 DEF LockInv, Critical, Threads
<1>7. NewInv'
  BY <1>1, <1>2, <1>3 DEF NewInv, Threads, None
<1>8. EntryInv'
  BY <1>1 DEF EntryInv
<1>9. CloneInv'
  BY <1>1, <1>2, <1>4 DEF CloneInv
<1>10. StackInv'
  BY <1>1, <1>3, <1>4 DEF StackInv
<1>11. OwnedInv'
  BY <1>1, <1>2 DEF OwnedInv, Owns, None
<1>12. ResultInv'
  BY <1>1, <1>2, <1>3 DEF ResultInv, Threads
<1> QED
  BY <1>5, <1>6, <1>7, <1>8, <1>9, <1>10, <1>11, <1>12

LEMMA ReturnBuildPreserves ==
    ASSUME IInv, NEW t \in Threads, ReturnBuild(t)
    PROVE  IInv'
<1> USE DEF IInv
<1>1. /\ pc[t] = "build" /\ stack[t] # << >> /\ Owns(t)
      /\ UNCHANGED <<schema, lazy, seeds, mtx, published, desc, cache, caches,
                     evals>>
      /\ stack' = [stack EXCEPT ![t] = SubSeq(@, 1, Len(@) - 1)]
  BY DEF ReturnBuild, Building, BuildFrame, Owns
<1>2. /\ stack[t] \in Seq(Frame) /\ Len(stack[t]) \in Nat \ {0}
      /\ 1 \in DOMAIN stack[t]
      /\ Top(t).id \in DOMAIN evals /\ Top(t).id # None
      /\ Top(t) = stack[t][Len(stack[t])]
  <2>1. stack[t] \in Seq(Frame)
    BY DEF TypeOK
  <2>2. Top(t).id \in DOMAIN evals
    BY <1>1, TopType
  <2> QED
    BY <1>1, <2>1, <2>2 DEF Top, TypeOK, None
<1>3. /\ stack' \in [Threads -> Seq(Frame)]
      /\ \A u \in Threads \ {t} : stack'[u] = stack[u]
      /\ Len(stack'[t]) = Len(stack[t]) - 1
      /\ DOMAIN stack'[t] \subseteq DOMAIN stack[t]
      /\ \A k \in DOMAIN stack'[t] : stack'[t][k] = stack[t][k]
  <2>1. /\ SubSeq(stack[t], 1, Len(stack[t]) - 1) \in Seq(Frame)
        /\ Len(SubSeq(stack[t], 1, Len(stack[t]) - 1)) = Len(stack[t]) - 1
        /\ \A k \in 1..(Len(stack[t]) - 1) :
              SubSeq(stack[t], 1, Len(stack[t]) - 1)[k] = stack[t][k]
    BY <1>2
  <2>2. stack'[t] = SubSeq(stack[t], 1, Len(stack[t]) - 1)
    BY <1>1 DEF TypeOK
  <2>3. DOMAIN stack'[t] = 1..(Len(stack[t]) - 1)
    BY <2>1, <2>2, <1>2
  <2>4. stack \in [Threads -> Seq(Frame)]
    BY DEF TypeOK
  <2> QED
    BY <1>1, <1>2, <2>1, <2>2, <2>3, <2>4
<1>4. \A u \in Threads : Owns(u) => u = t
  BY <1>1 DEF LockInv, NewInv, Owns, Critical, Threads
<1>5. \A u \in Threads : \A k \in DOMAIN stack'[u] :
          /\ stack'[u][k].id \in DOMAIN evals
          /\ stack'[u][k].id \notin PublishedEvals'
          /\ FieldInRange(stack[u][k])'
  <2>1. PublishedEvals' = PublishedEvals
    BY <1>1 DEF PublishedEvals
  <2>2. ASSUME NEW u \in Threads, NEW k \in DOMAIN stack'[u]
        PROVE  /\ stack'[u][k].id \in DOMAIN evals
               /\ stack'[u][k].id \notin PublishedEvals
               /\ FieldInRange(stack[u][k])'
    <3>1. k \in DOMAIN stack[u] /\ stack'[u][k] = stack[u][k]
      BY <1>3
    <3>2. /\ stack[u][k].id \in DOMAIN evals
          /\ stack[u][k].id \notin PublishedEvals
          /\ FieldInRange(stack[u][k])
      BY <3>1 DEF StackInv
    <3> QED
      BY <1>1, <3>1, <3>2 DEF FieldInRange
  <2> QED
    BY <2>1, <2>2
<1>6. EntryInv'
  BY <1>1 DEF EntryInv
<1>7. CASE Len(stack[t]) > 1
  <2>1. UNCHANGED <<pc, result>>
    BY <1>7 DEF ReturnBuild
  <2>2. stack'[t] # << >>
    BY <1>2, <1>3, <1>7
  <2>3. stack'[t][1] = stack[t][1]
    BY <1>2, <1>3, <1>7
  <2>4. TypeOK'
    BY <1>1, <1>3, <2>1 DEF TypeOK
  <2>5. LockInv' /\ NewInv' /\ CloneInv' /\ OwnedInv' /\ ResultInv'
    BY <1>1, <2>1 DEF LockInv, NewInv, CloneInv, OwnedInv, ResultInv, Owns
  <2>6. StackInv'
    BY <1>1, <1>3, <1>5, <2>1, <2>2, <2>3 DEF StackInv
  <2> QED
    BY <1>6, <2>4, <2>5, <2>6
<1>8. CASE Len(stack[t]) = 1 /\ t = Constructor
  <2>1. pc' = [pc EXCEPT ![t] = "seed"] /\ UNCHANGED result
    BY <1>8 DEF ReturnBuild
  <2>2. stack'[t] = << >>
    BY <1>2, <1>3, <1>8
  <2>3. /\ pc' \in [Threads -> PC] /\ pc'[t] = "seed"
        /\ \A u \in Threads \ {t} : pc'[u] = pc[u]
    BY <2>1 DEF TypeOK, PC
  <2>4. TypeOK'
    BY <1>1, <1>3, <2>1, <2>3 DEF TypeOK
  <2>5. \A u \in Loaders : u # t
    BY <1>8, BuilderAssumption
  <2>6. NewInv'
    BY <1>1, <1>8, <2>1, <2>3, <2>5 DEF NewInv, Threads
  <2>7. LockInv' /\ OwnedInv' /\ ResultInv'
    BY <1>1, <1>8, <2>1, <2>3, <2>5
       DEF LockInv, OwnedInv, ResultInv, Owns, Threads
  <2>8. CloneInv'
    BY <1>1, <1>4, <2>3 DEF CloneInv, Owns
  <2>9. StackInv'
    BY <1>1, <1>3, <1>5, <1>8, <2>2, <2>3 DEF StackInv
  <2> QED
    BY <1>6, <2>4, <2>6, <2>7, <2>8, <2>9
<1>9. CASE Len(stack[t]) = 1 /\ t # Constructor
  <2>1. /\ pc' = [pc EXCEPT ![t] = "store"]
        /\ result' = [result EXCEPT ![t] = Top(t).id]
    BY <1>9 DEF ReturnBuild
  <2>2. stack'[t] = << >>
    BY <1>2, <1>3, <1>9
  <2>3. /\ pc' \in [Threads -> PC] /\ pc'[t] = "store"
        /\ \A u \in Threads \ {t} : pc'[u] = pc[u]
        /\ result' \in [Threads -> Nat \cup {Unknown}]
        /\ result'[t] = Top(t).id
        /\ \A u \in Threads \ {t} : result'[u] = result[u]
    BY <1>2, <2>1 DEF TypeOK, PC
  <2>4. TypeOK'
    BY <1>1, <1>3, <2>3 DEF TypeOK
  <2>5. t \in Loaders /\ published # None /\ pc[Constructor] = "idle"
    BY <1>1, <1>9 DEF Threads, NewInv
  <2>6. NewInv'
    BY <1>1, <1>9, <2>3, <2>5 DEF NewInv, Threads
  <2>7. LockInv'
    BY <1>1, <2>3, <2>5 DEF LockInv, Critical, Threads
  <2>8. \A u \in Threads : Owns(u)' <=> Owns(u)
    BY <1>1, <2>3 DEF Owns
  <2>9. CloneInv'
    BY <1>1, <2>8 DEF CloneInv
  <2>10. OwnedInv'
    BY <1>1, <2>3, <2>5, <2>8 DEF OwnedInv, Threads
  <2>11. StackInv'
    BY <1>1, <1>3, <1>5, <1>9, <2>2, <2>3 DEF StackInv
  <2>12. ResultInv'
    <3>1. Top(t).id = caches[cache[t]][desc[t]]
      BY <1>1, <1>2, <1>9 DEF StackInv
    <3> QED
      BY <1>1, <1>2, <2>3, <2>5, <3>1 DEF ResultInv, Threads
  <2> QED
    BY <1>6, <2>4, <2>6, <2>7, <2>9, <2>10, <2>11, <2>12
<1>10. Len(stack[t]) > 1 \/ Len(stack[t]) = 1
  <2>1. \A n \in Nat \ {0} : n > 1 \/ n = 1
    OBVIOUS
  <2> QED
    BY <1>2, <2>1
<1> HIDE DEF IInv
<1> QED
  BY <1>7, <1>8, <1>9, <1>10

LEMMA HeapFacts ==
    ASSUME TypeOK
    PROVE  /\ evals \in Seq(Evaluator) /\ caches \in Seq(Cache)
           /\ \A b \in DOMAIN caches, m \in Messages :
                 caches[b][m] # None => caches[b][m] \in DOMAIN evals
           /\ \A i \in DOMAIN evals : evals[i].of \in Messages /\ i # None
<1>1. evals \in Seq(Evaluator) /\ caches \in Seq(Cache)
  BY DEF TypeOK
<1>2. \A i \in DOMAIN evals : evals[i] \in Evaluator /\ i # 0
  BY <1>1
<1> QED
  BY <1>1, <1>2 DEF TypeOK, Evaluator, None

LEMMA ClonePreserves ==
    ASSUME IInv, NEW t \in Loaders, Clone(t)
    PROVE  IInv'
<1> USE DEF IInv
<1> DEFINE d == desc[t]
           new == Len(evals) + 1
           c == Len(caches) + 1
           map == [caches[published] EXCEPT ![d] = new]
<1>1. /\ t \in Threads /\ t # Constructor /\ published # None
      /\ pc[t] = "check" /\ d \in Messages /\ published \in DOMAIN caches
      /\ caches[published][d] = None
  BY LoaderFacts DEF Clone, CloneInv
<1>2. /\ caches' = Append(caches, map)
      /\ cache' = [cache EXCEPT ![t] = c]
      /\ evals' = Append(evals, EmptyMessage(d))
      /\ stack' = [stack EXCEPT ![t] = << NewFrame(new) >>]
      /\ pc' = [pc EXCEPT ![t] = "build"]
      /\ UNCHANGED <<schema, lazy, seeds, mtx, published, desc, result>>
  BY DEF Clone, CloneAndBuild
<1>3. /\ evals' \in Seq(Evaluator)
      /\ DOMAIN evals' = DOMAIN evals \cup {new}
      /\ new \in Nat \ {0}
      /\ new \notin DOMAIN evals
      /\ \A i \in DOMAIN evals : evals'[i] = evals[i]
      /\ evals'[new].of = d
      /\ NewFrame(new) \in Frame
  BY <1>1, <1>2, NewEvaluator
<1>4. /\ caches[published] \in [Messages -> Nat]
      /\ map \in Cache /\ map[d] = new
      /\ \A m \in Messages \ {d} : map[m] = caches[published][m]
  BY <1>1, <1>3 DEF TypeOK, Cache
<1> HIDE DEF map, new, d
<1>5. /\ caches' \in Seq(Cache)
      /\ DOMAIN caches' = DOMAIN caches \cup {c}
      /\ c \in Nat \ {0} /\ c \notin DOMAIN caches /\ c # published
      /\ \A b \in DOMAIN caches : caches'[b] = caches[b]
      /\ caches'[c] = map
  BY <1>1, <1>2, <1>4, HeapFacts
<1> HIDE DEF c
<1>6. \A u \in Threads : u # t => pc[u] \notin {"build", "store"}
  BY <1>1 DEF LockInv, NewInv, Critical, Threads
<1>7. /\ pc' \in [Threads -> PC] /\ pc'[t] = "build"
      /\ \A u \in Threads \ {t} : pc'[u] = pc[u] /\ cache'[u] = cache[u]
      /\ cache' \in [Threads -> Nat] /\ cache'[t] = c
  BY <1>1, <1>2, <1>5 DEF TypeOK, PC
<1>8. /\ stack' \in [Threads -> Seq(Frame)]
      /\ stack'[t] = << NewFrame(new) >>
      /\ \A u \in Threads \ {t} : stack'[u] = << >>
  <2>1. << NewFrame(new) >> \in Seq(Frame)
    BY <1>3, ShortSeq
  <2>2. stack \in [Threads -> Seq(Frame)]
    BY DEF TypeOK
  <2> QED
    BY <1>1, <1>2, <1>6, <2>1, <2>2 DEF StackInv
<1>9. \A b \in DOMAIN caches, m \in Messages :
          caches[b][m] # None => caches[b][m] \in DOMAIN evals
  BY HeapFacts
<1>10. TypeOK'
  <2>1. \A b \in DOMAIN caches', m \in Messages :
           caches'[b][m] # None => caches'[b][m] \in DOMAIN evals'
    BY <1>1, <1>3, <1>4, <1>5, <1>9
  <2> QED
    BY <1>2, <1>3, <1>5, <1>7, <1>8, <2>1 DEF TypeOK
<1>11. LockInv'
  BY <1>1, <1>2, <1>7 DEF LockInv, Critical, Threads
<1>12. NewInv'
  BY <1>1, <1>2, <1>7 DEF NewInv, Threads
<1>13. EntryInv'
  BY <1>1, <1>3, <1>4, <1>5, <1>9 DEF EntryInv
<1>14. CloneInv'
  <2>1. \A u \in Threads : Owns(u)' => u = t
    BY <1>6, <1>7 DEF Owns
  <2> QED
    BY <1>1, <1>2, <1>4, <1>5, <1>7, <2>1 DEF CloneInv
<1>15. StackInv'
  <2>1. PublishedEvals' = PublishedEvals /\ PublishedEvals \subseteq DOMAIN evals
    BY <1>1, <1>2, <1>5, <1>9 DEF PublishedEvals
  <2>2. DOMAIN stack'[t] = {1} /\ stack'[t][1] = NewFrame(new)
        /\ stack'[t] # << >>
    BY <1>8
  <2>3. FieldInRange(stack[t][1])' /\ stack'[t][1].id = new
    BY <2>2 DEF FieldInRange, NewFrame
  <2>4. new \in DOMAIN evals' /\ new \notin PublishedEvals'
    BY <1>3, <2>1
  <2>5. stack'[t][1].id = caches'[cache'[t]][desc'[t]]
    BY <1>2, <1>4, <1>5, <1>7, <2>3 DEF d
  <2>6. \A u \in Threads \ {t} : stack'[u] = << >> /\ pc'[u] # "build"
                                  /\ (pc'[u] = "seed" => u = Constructor)
    BY <1>6, <1>7, <1>8 DEF StackInv
  <2> QED
    BY <1>7, <2>2, <2>3, <2>4, <2>5, <2>6 DEF StackInv
<1>16. OwnedInv'
  <2>1. \A i \in DOMAIN evals : caches[published][evals[i].of] = i
    BY <1>1, <1>6 DEF OwnedInv, NewInv, Owns, Threads
  <2>2. \A i \in DOMAIN evals' :
           \/ caches'[published][evals'[i].of] = i
           \/ caches'[c][evals'[i].of] = i
    BY <1>1, <1>3, <1>4, <1>5, <2>1
  <2> QED
    BY <1>1, <1>2, <1>7, <2>2 DEF OwnedInv, Owns
<1>17. ResultInv'
  <2>1. caches'[published] = caches[published]
    BY <1>1, <1>5
  <2> QED
    BY <1>1, <1>2, <1>6, <1>7, <2>1 DEF ResultInv, Threads
<1> HIDE DEF IInv
<1> QED
  BY <1>10, <1>11, <1>12, <1>13, <1>14, <1>15, <1>16, <1>17 DEF IInv

LEMMA SeedPreserves ==
    ASSUME IInv, Seed
    PROVE  IInv'
<1> USE DEF IInv
<1> DEFINE t == Constructor
           d == Head(seeds)
           new == Len(evals) + 1
<1>1. /\ pc[t] = "seed" /\ t \in Threads /\ d \in Messages
      /\ Tail(seeds) \in Seq(Messages)
      /\ stack[t] = << >>
  BY DEF Seed, Threads, TypeOK, StackInv
<1>2. /\ published = None /\ cache[t] = 1 /\ 1 \in DOMAIN caches
      /\ Len(caches) = 1 /\ mtx = {} /\ DOMAIN caches = {1}
      /\ \A u \in Loaders : pc[u] = "idle" /\ result[u] = None /\ u # t
  BY <1>1, BuilderAssumption DEF NewInv, TypeOK
<1>3. /\ seeds' = Tail(seeds)
      /\ desc' = [desc EXCEPT ![t] = d]
      /\ UNCHANGED <<schema, lazy, mtx, published, cache, result>>
  BY DEF Seed
<1>4. /\ desc' \in [Threads -> Messages \cup {NoMessage}]
      /\ seeds' \in Seq(Messages)
      /\ \A u \in Threads \ {t} : desc'[u] = desc[u]
  BY <1>1, <1>3 DEF TypeOK
<1>5. CASE UNCHANGED <<caches, evals, pc, stack>>
  <2>1. TypeOK'
    BY <1>3, <1>4, <1>5 DEF TypeOK
  <2>2. LockInv' /\ EntryInv' /\ CloneInv' /\ OwnedInv'
    BY <1>3, <1>5 DEF LockInv, EntryInv, CloneInv, OwnedInv, Owns
  <2>3. NewInv' /\ ResultInv'
    BY <1>2, <1>3, <1>5 DEF NewInv, ResultInv
  <2>4. StackInv'
    <3>1. PublishedEvals' = PublishedEvals
      BY <1>3, <1>5 DEF PublishedEvals
    <3>2. \A u \in Threads : \A k \in DOMAIN stack[u] :
              FieldInRange(stack[u][k])' <=> FieldInRange(stack[u][k])
      BY <1>3, <1>5 DEF FieldInRange
    <3> QED
      BY <1>3, <1>4, <1>5, <3>1, <3>2 DEF StackInv
  <2> QED
    BY <2>1, <2>2, <2>3, <2>4
<1>6. CASE /\ caches[1][d] = None
           /\ StartBuild(t, 1, d)
           /\ pc' = [pc EXCEPT ![t] = "build"]
  <2> HIDE DEF d
  <2>1. /\ evals' \in Seq(Evaluator)
        /\ DOMAIN evals' = DOMAIN evals \cup {new}
        /\ new \in Nat \ {0}
        /\ new \notin DOMAIN evals
        /\ \A i \in DOMAIN evals : evals'[i] = evals[i]
        /\ evals'[new].of = d
        /\ NewFrame(new) \in Frame
    BY <1>1, <1>6, NewEvaluator DEF StartBuild
  <2>2. /\ caches' \in Seq(Cache)
        /\ DOMAIN caches' = {1} /\ Len(caches') = 1
        /\ \A m \in Messages \ {d} : caches'[1][m] = caches[1][m]
        /\ caches'[1][d] = new
        /\ stack' \in [Threads -> Seq(Frame)]
        /\ \A u \in Threads \ {t} : stack'[u] = stack[u]
        /\ DOMAIN stack'[t] = DOMAIN stack[t] \cup {Len(stack[t]) + 1}
        /\ stack'[t] # << >>
        /\ stack'[t][Len(stack[t]) + 1] = NewFrame(new)
    BY <1>1, <1>2, <1>6, StartBuildEffect
  <2>3. DOMAIN stack'[t] = {1} /\ stack'[t][1] = NewFrame(new)
    BY <1>1, <2>2
  <2> HIDE DEF new
  <2>4. /\ pc' \in [Threads -> PC] /\ pc'[t] = "build"
        /\ \A u \in Threads \ {t} : pc'[u] = pc[u]
    BY <1>1, <1>6 DEF TypeOK, PC
  <2>5. TypeOK'
    <3>1. \A b \in DOMAIN caches', m \in Messages :
             caches'[b][m] # None => caches'[b][m] \in DOMAIN evals'
      BY <1>2, <2>1, <2>2, HeapFacts
    <3> QED
      BY <1>3, <1>4, <2>1, <2>2, <2>4, <3>1 DEF TypeOK
  <2>6. LockInv'
    BY <1>2, <1>3, <2>4 DEF LockInv, Threads
  <2>7. NewInv'
    BY <1>2, <1>3, <2>2, <2>4 DEF NewInv, Threads
  <2>8. EntryInv'
    <3>1. ASSUME NEW b \in DOMAIN caches', NEW m \in Messages, caches'[b][m] # None
          PROVE  evals'[caches'[b][m]].of = m
      <4>1. b = 1 /\ 1 \in DOMAIN caches
        BY <1>2, <2>2
      <4>2. CASE m = d
        BY <2>1, <2>2, <4>1, <4>2
      <4>3. CASE m # d
        <5>1. caches'[b][m] = caches[1][m] /\ caches[1][m] # None
          BY <2>2, <3>1, <4>1, <4>3
        <5>2. caches[1][m] \in DOMAIN evals
          BY <1>2, <4>1, <5>1, HeapFacts
        <5>3. evals[caches[1][m]].of = m
          BY <1>2, <4>1, <5>1 DEF EntryInv
        <5> QED  BY <2>1, <5>1, <5>2, <5>3
      <4> QED  BY <4>2, <4>3
    <3> QED  BY <3>1 DEF EntryInv
  <2>9. CloneInv'
    BY <1>2, <1>3, <2>2, <2>4 DEF CloneInv, Owns, Threads, None
  <2>10. StackInv'
    <3>1. PublishedEvals' = {}
      BY <1>2, <1>3 DEF PublishedEvals
    <3>2. FieldInRange(stack[t][1])' /\ stack'[t][1].id = new
      BY <2>3 DEF FieldInRange, NewFrame
    <3>3. \A u \in Threads \ {t} : stack'[u] = << >> /\ pc'[u] = "idle"
      BY <1>2, <2>2, <2>4 DEF StackInv, Threads
    <3> QED
      BY <2>1, <2>2, <2>3, <2>4, <3>1, <3>2, <3>3 DEF StackInv
  <2>11. OwnedInv'
    <3>1. \A i \in DOMAIN evals : caches[1][evals[i].of] = i
      BY <1>2 DEF OwnedInv, Owns
    <3>2. \A i \in DOMAIN evals' : caches'[1][evals'[i].of] = i
      BY <1>6, <2>1, <2>2, <3>1, HeapFacts
    <3> QED
      BY <2>4, <3>2 DEF OwnedInv
  <2>12. ResultInv'
    BY <1>2, <1>3, <2>4 DEF ResultInv, Threads
  <2> HIDE DEF IInv
  <2> QED
    BY <2>5, <2>6, <2>7, <2>8, <2>9, <2>10, <2>11, <2>12 DEF IInv
<1> HIDE DEF IInv
<1> QED
  BY <1>2, <1>5, <1>6 DEF Seed

LEMMA InitEstablishes == Init => IInv
<1> SUFFICES ASSUME Init PROVE IInv
  OBVIOUS
<1>1. /\ schema \in [Messages -> Message] /\ lazy \in BOOLEAN
      /\ seeds \in Seq(Messages) /\ mtx = {} /\ published = None
      /\ caches = << EmptyCache >> /\ evals = << >>
      /\ pc = [t \in Threads |-> IF t = Constructor THEN "seed" ELSE "idle"]
      /\ desc = [t \in Threads |-> NoMessage]
      /\ cache = [t \in Threads |-> IF t = Constructor THEN 1 ELSE None]
      /\ stack = [t \in Threads |-> << >>]
      /\ result = [t \in Threads |-> None]
  BY BuilderAssumption DEF Init
<1>2. EmptyCache \in Cache /\ \A d \in Messages : EmptyCache[d] = None
  BY DEF EmptyCache, Cache, None
<1>3. /\ caches \in Seq(Cache) /\ DOMAIN caches = {1} /\ Len(caches) = 1
      /\ caches[1] = EmptyCache
  BY <1>1, <1>2, ShortSeq
<1>4. evals \in Seq(Evaluator) /\ DOMAIN evals = {}
  BY <1>1
<1>5. stack \in [Threads -> Seq(Frame)] /\ \A t \in Threads : DOMAIN stack[t] = {}
  BY <1>1
<1>6. TypeOK
  BY <1>1, <1>2, <1>3, <1>4, <1>5 DEF TypeOK, PC, None
<1>7. LockInv /\ NewInv /\ ResultInv
  BY <1>1, <1>3, BuilderAssumption
     DEF LockInv, NewInv, ResultInv, Critical, Threads
<1>8. EntryInv /\ CloneInv /\ OwnedInv
  BY <1>1, <1>2, <1>3, <1>4 DEF EntryInv, CloneInv, OwnedInv, Owns
<1>9. StackInv
  BY <1>1, <1>5 DEF StackInv
<1> QED
  BY <1>6, <1>7, <1>8, <1>9 DEF IInv

LEMMA NextPreserves == IInv /\ [Next]_vars => IInv'
<1> SUFFICES ASSUME IInv, [Next]_vars PROVE IInv'
  OBVIOUS
<1>1. TypeOK /\ CloneInv /\ StackInv
  BY DEF IInv
<1>2. ASSUME NEW t \in Threads, Build(t)
      PROVE  IInv'
  <2>1. CASE ProcessMessageExpressions(t)
    BY <1>1, <2>1, ExpressionsIsLocal, LocalPreserves
  <2>2. CASE ProcessMessageOneofRules(t)
    BY <1>1, <2>2, MessageOneofsIsLocal, LocalPreserves
  <2>3. CASE ProcessOneofRules(t)
    BY <1>1, <2>3, OneofsIsLocal, LocalPreserves
  <2>4. CASE BuildField(t)
    BY <1>1, <2>4, BuildFieldIsLocal, LocalPreserves
  <2>5. CASE FinishField(t)
    BY <1>1, <2>5, FinishFieldIsLocal, LocalPreserves
  <2>6. CASE CompileRules(t)
    BY <1>1, <2>6, CompileRulesIsLocal, LocalPreserves
  <2>7. CASE FailRules(t)
    BY <1>1, <2>7, FailRulesIsLocal, LocalPreserves
  <2>8. CASE EnterEmbedded(t)
    BY <2>8, EnterEmbeddedPreserves
  <2>9. CASE EmbedMessage(t)
    BY <1>1, <2>9, EmbedMessageIsLocal, LocalPreserves
  <2>10. CASE ReturnBuild(t)
    BY <2>10, ReturnBuildPreserves
  <2> QED
    BY <1>2, <2>1, <2>2, <2>3, <2>4, <2>5, <2>6, <2>7, <2>8, <2>9, <2>10
       DEF Build
<1>3. ASSUME NEW t \in Loaders, Run(t), ~Build(t)
      PROVE  IInv'
  BY <1>3, LoadHitPreserves, LoadUnknownPreserves, LoadMissPreserves,
     LockPreserves, RecheckPreserves, ClonePreserves, StorePreserves,
     UnlockPreserves DEF Run
<1>4. ASSUME Run(Constructor)
      PROVE  Build(Constructor)
  <2>1. pc[Constructor] \in {"seed", "build", "idle"}
    BY DEF IInv, NewInv
  <2> QED
    BY <1>4, <2>1 DEF Run, LoadHit, LoadUnknown, LoadMiss, Lock, Recheck,
                      Clone, Store, Unlock
<1>5. CASE UNCHANGED vars
  <2>1. /\ schema' = schema /\ lazy' = lazy /\ seeds' = seeds /\ mtx' = mtx
        /\ published' = published /\ caches' = caches /\ evals' = evals
        /\ pc' = pc /\ desc' = desc /\ cache' = cache /\ stack' = stack
        /\ result' = result
    BY <1>5 DEF vars
  <2>2. TypeOK' /\ LockInv' /\ NewInv'
    BY <2>1 DEF IInv, TypeOK, LockInv, NewInv
  <2>3. EntryInv' /\ CloneInv' /\ OwnedInv' /\ ResultInv'
    BY <2>1 DEF IInv, EntryInv, CloneInv, OwnedInv, ResultInv, Owns
  <2>4. PublishedEvals' = PublishedEvals
    BY <2>1 DEF PublishedEvals
  <2>5. StackInv'
    BY <1>1, <2>1, <2>4 DEF StackInv, FieldInRange
  <2> QED
    BY <2>2, <2>3, <2>5 DEF IInv
<1>6. CASE Seed
  BY <1>6, SeedPreserves
<1>7. CASE Publish
  BY <1>7, PublishPreserves
<1>8. ASSUME NEW t \in Threads, Call(t)
      PROVE  IInv'
  BY <1>8, CallPreserves
<1>9. ASSUME NEW t \in Threads, Run(t)
      PROVE  IInv'
  BY <1>2, <1>3, <1>4, <1>9 DEF Threads
<1> QED
  BY <1>5, <1>6, <1>7, <1>8, <1>9 DEF Next

-----------------------------------------------------------------------------
(* The theorems.                                                           *)

(* The invariant of the build-through cache (builder.go:93-123): one owner *)
(* of the mutex, a private clone that has all that is published, and no    *)
(* evaluator reachable by a reader that a build call is still filling in.  *)
THEOREM Invariance == Spec => []IInv
  BY InitEstablishes, NextPreserves, PTL DEF Spec

(* Every variable keeps its type, and no cache entry dangles.              *)
THEOREM TypeCorrect == Spec => []TypeOK
<1>1. IInv => TypeOK
  BY DEF IInv
<1> QED
  BY <1>1, Invariance, PTL

(* At most one goroutine is between Lock and Unlock of loadOrBuild, and    *)
(* none while newBuilder runs.                                             *)
MutualExclusion ==
    \A t, u \in Loaders :
        pc[t] \in Critical /\ pc[u] \in Critical => t = u

THEOREM OneBuilder == Spec => []MutualExclusion
<1>1. IInv => MutualExclusion
  BY DEF IInv, LockInv, MutualExclusion
<1> QED
  BY <1>1, Invariance, PTL

(* Whoever asked for a descriptor, whenever, holds the one published       *)
(* evaluator of it.                                                        *)
THEOREM OneEvaluator == Spec => []SameEvaluator
<1>1. IInv => SameEvaluator
  BY DEF IInv, ResultInv, SameEvaluator
<1> QED
  BY <1>1, Invariance, PTL

(* No descriptor is ever built twice.                                      *)
THEOREM NoDoubleBuild == Spec => []BuiltOnce
<1>1. ASSUME IInv PROVE BuiltOnce
  <2> SUFFICES ASSUME NEW i \in DOMAIN evals, NEW j \in DOMAIN evals,
                      evals[i].of = evals[j].of
               PROVE  i = j
    BY DEF BuiltOnce
  <2> DEFINE d == evals[i].of
  <2>1. d \in Messages /\ i # None /\ j # None
    BY <1>1, HeapFacts DEF IInv
  <2>2. CASE pc[Constructor] # "idle"
    <3>1. published = None /\ \A u \in Loaders : pc[u] = "idle"
      BY <1>1, <2>2 DEF IInv, NewInv
    <3>2. caches[1][d] = i /\ caches[1][d] = j
      BY <1>1, <3>1 DEF IInv, OwnedInv, Owns
    <3> QED
      BY <3>2
  <2>3. CASE pc[Constructor] = "idle"
    <3>1. published # None
      BY <1>1, <2>3 DEF IInv, NewInv
    <3>2. ASSUME NEW k \in DOMAIN evals, evals[k].of = d
          PROVE  \/ caches[published][d] = k
                 \/ \E u \in Loaders : Owns(u) /\ caches[cache[u]][d] = k
      BY <1>1, <2>3, <3>2 DEF IInv, OwnedInv
    <3>3. \A u, w \in Loaders : Owns(u) /\ Owns(w) => u = w
      BY <1>1 DEF IInv, LockInv, Owns, Critical
    <3>4. \A u \in Loaders : Owns(u) /\ caches[published][d] # None
              => caches[cache[u]][d] = caches[published][d]
      BY <1>1, <2>1, <3>1 DEF IInv, CloneInv, Threads
    <3> QED
      BY <2>1, <3>2, <3>3, <3>4
  <2> QED
    BY <2>2, <2>3
<1> QED
  BY <1>1, Invariance, PTL

(* What a step may change of the published cache.                          *)
LEMMA PublishedStep ==
    ASSUME IInv, [Next]_vars, published # None
    PROVE  /\ published \in DOMAIN caches
           /\ caches'[published] = caches[published]
           /\ \A id \in PublishedEvals : evals'[id] = evals[id]
           /\ published' # published =>
                 \E t \in Threads : Owns(t) /\ published' = cache[t]
                                    /\ caches' = caches
<1>1. TypeOK /\ CloneInv /\ StackInv /\ EntryInv /\ NewInv
  BY DEF IInv
<1>2. published \in DOMAIN caches /\ published \in Nat
  BY <1>1 DEF CloneInv, TypeOK
<1>3. PublishedEvals \subseteq DOMAIN evals
  BY <1>1, <1>2, HeapFacts DEF PublishedEvals
<1>4. ASSUME NEW t \in Threads, \E e, frame : LocalStep(t, e, frame)
      PROVE  /\ caches'[published] = caches[published]
             /\ \A id \in PublishedEvals : evals'[id] = evals[id]
             /\ published' = published
  <2>1. PICK e, frame : LocalStep(t, e, frame)
    BY <1>4
  <2>2. Top(t).id \notin PublishedEvals
    BY <1>1, <2>1, TopType DEF StackInv, Top, LocalStep
  <2> QED
    BY <1>3, <2>1, <2>2, HeapFacts, <1>1 DEF LocalStep
<1>5. ASSUME NEW t \in Threads, EnterEmbedded(t)
      PROVE  /\ caches'[published] = caches[published]
             /\ \A id \in PublishedEvals : evals'[id] = evals[id]
             /\ published' = published
  <2> DEFINE d == Head(Top(t).todo).target
  <2>1. /\ Building(t, "value") /\ Top(t).todo # << >>
        /\ StartBuild(t, cache[t], d) /\ published' = published
        /\ Head(Top(t).todo).part.op = "embed"
    BY <1>5 DEF EnterEmbedded, BuildFrame
  <2>2. cache[t] \in DOMAIN caches /\ cache[t] # published
    BY <1>1, <2>1 DEF CloneInv, Owns, Building
  <2>3. d \in Messages
    BY <1>1, <2>1, AtValue DEF Step
  <2> HIDE DEF d
  <2>4. \A i \in DOMAIN evals : evals'[i] = evals[i]
    BY <1>1, <2>1, <2>3, NewEvaluator DEF StartBuild
  <2>5. caches'[published] = caches[published]
    BY <1>1, <1>2, <2>1, <2>2, <2>3, StartBuildEffect
  <2> QED
    BY <1>3, <2>1, <2>4, <2>5
<1>6. ASSUME NEW t \in Threads, Clone(t)
      PROVE  /\ caches'[published] = caches[published]
             /\ \A id \in PublishedEvals : evals'[id] = evals[id]
             /\ published' = published
  <2>1. /\ evals' = Append(evals, EmptyMessage(desc[t]))
        /\ \E map : caches' = Append(caches, map)
        /\ published' = published
    BY <1>6 DEF Clone, CloneAndBuild
  <2>2. evals \in Seq(Evaluator) /\ caches \in Seq(Cache)
    BY <1>1, HeapFacts
  <2>3. \A i \in DOMAIN evals : evals'[i] = evals[i]
    BY <2>1, <2>2
  <2>4. caches'[published] = caches[published]
    BY <1>2, <2>1, <2>2
  <2> QED
    BY <1>3, <2>1, <2>3, <2>4
<1>7. ASSUME NEW t \in Threads, Store(t)
      PROVE  /\ Owns(t) /\ published' = cache[t]
             /\ UNCHANGED <<caches, evals>>
  BY <1>7 DEF Store, Owns
<1>8. ASSUME NEW t \in Threads,
             ReturnBuild(t) \/ Call(t) \/ LoadHit(t) \/ LoadUnknown(t)
                \/ LoadMiss(t) \/ Lock(t) \/ Recheck(t) \/ Unlock(t)
      PROVE  UNCHANGED <<caches, evals, published>>
  BY <1>8 DEF ReturnBuild, BuildFrame, Call, LoadHit, LoadUnknown, LoadMiss,
              Lock, Recheck, Unlock
<1>9. ~Seed /\ ~Publish
  BY <1>1 DEF NewInv, Seed, Publish
<1>10. ASSUME NEW t \in Threads, Build(t)
       PROVE  /\ caches'[published] = caches[published]
              /\ \A id \in PublishedEvals : evals'[id] = evals[id]
              /\ published' = published
  <2>1. CASE \/ ProcessMessageExpressions(t) \/ ProcessMessageOneofRules(t)
             \/ ProcessOneofRules(t) \/ BuildField(t) \/ FinishField(t)
             \/ CompileRules(t) \/ FailRules(t) \/ EmbedMessage(t)
    <3>1. \E e, frame : LocalStep(t, e, frame)
      BY <1>1, <2>1, ExpressionsIsLocal, MessageOneofsIsLocal, OneofsIsLocal,
         BuildFieldIsLocal, FinishFieldIsLocal, CompileRulesIsLocal,
         FailRulesIsLocal, EmbedMessageIsLocal
    <3> QED
      BY <1>4, <3>1
  <2> QED
    BY <1>5, <1>8, <1>10, <2>1 DEF Build
<1>11. CASE UNCHANGED vars
  BY <1>2, <1>11 DEF vars
<1>12. CASE \E t \in Threads : Store(t)
  BY <1>2, <1>7, <1>12
<1> QED
  BY <1>2, <1>6, <1>8, <1>9, <1>10, <1>11, <1>12 DEF Next, Run

(* Whatever has been published stays published, with the same evaluator.   *)
THEOREM NoEntryLost == Spec => CacheGrows
<1>1. ASSUME IInv, [Next]_vars, published # None,
             NEW d \in Messages, caches[published][d] # None
      PROVE  caches'[published'][d] = caches[published][d]
  BY <1>1, PublishedStep DEF IInv, CloneInv
<1>2. IInv /\ [Next]_vars =>
         [published # None =>
            \A d \in Messages : caches[published][d] # None
                => caches'[published'][d] = caches[published][d]]_vars
  BY <1>1
<1> QED
  BY <1>2, Invariance, PTL DEF Spec, CacheGrows

(* A published map, and an evaluator in it, is never written again: the    *)
(* lock-free readers cannot observe a write.                               *)
THEOREM NeverWrittenAgain == Spec => PublishedImmutable
<1>1. IInv /\ [Next]_vars =>
         [published # None =>
            /\ caches'[published] = caches[published]
            /\ \A id \in PublishedEvals : evals'[id] = evals[id]]_vars
  BY PublishedStep
<1> QED
  BY <1>1, Invariance, PTL DEF Spec, PublishedImmutable


-----------------------------------------------------------------------------
(* What a reader of the published cache can reach is published: a map that *)
(* is published, or that is being filled to be published, contains every   *)
(* evaluator that those in it embed, and those that the build calls hold.  *)

(* The evaluator that e points to is the map's for its own descriptor.     *)
PointedIn(map, es, e) ==
    e # None => e \in DOMAIN es /\ map[es[e].of] = e

ClosedMap(map, es) ==
    \A d \in Messages : map[d] # None =>
        \A i \in DOMAIN es[map[d]].fields :
            PointedIn(map, es, es[map[d]].fields[i].embeds)

Filling(t) == Owns(t) \/ pc[t] = "seed"

ClosedInv ==
    /\ published # None => ClosedMap(caches[published], evals)
    /\ \A t \in Threads : Filling(t) => ClosedMap(caches[cache[t]], evals)
    /\ \A t \in Threads : \A k \in DOMAIN stack[t] :
          PointedIn(caches[cache[t]], evals, stack[t][k].embeds)

-----------------------------------------------------------------------------
(* Maps and heaps that grow.                                               *)

Grown(map, es, map2, es2) ==
    /\ \A i \in DOMAIN es : /\ i \in DOMAIN es2
                            /\ es2[i].of = es[i].of
                            /\ es[i].of \in Messages
    /\ \A m \in Messages : map[m] # None => map2[m] = map[m]

LEMMA PointedKept ==
    ASSUME NEW map, NEW es, NEW map2, NEW es2, Grown(map, es, map2, es2),
           NEW e, PointedIn(map, es, e)
    PROVE  PointedIn(map2, es2, e)
BY DEF PointedIn, Grown

(* A map stays closed if what is new in it is.                             *)
LEMMA ClosedKept ==
    ASSUME NEW map, NEW es, NEW map2, NEW es2, Grown(map, es, map2, es2),
           ClosedMap(map, es),
           \A d \in Messages : map2[d] # None =>
              \/ map[d] # None /\ es2[map[d]].fields = es[map[d]].fields
              \/ \A i \in DOMAIN es2[map2[d]].fields :
                    PointedIn(map2, es2, es2[map2[d]].fields[i].embeds)
    PROVE  ClosedMap(map2, es2)
<1> SUFFICES ASSUME NEW d \in Messages, map2[d] # None,
                    NEW i \in DOMAIN es2[map2[d]].fields
             PROVE  PointedIn(map2, es2, es2[map2[d]].fields[i].embeds)
  BY DEF ClosedMap
<1>1. CASE map[d] # None /\ es2[map[d]].fields = es[map[d]].fields
  <2>1. map2[d] = map[d]
    BY <1>1 DEF Grown
  <2>2. PointedIn(map, es, es[map[d]].fields[i].embeds)
    BY <1>1, <2>1 DEF ClosedMap
  <2> QED  BY <1>1, <2>1, <2>2, PointedKept
<1> QED  BY <1>1

(* Nobody else fills a map while a thread does.                            *)
LEMMA FillsAlone ==
    ASSUME IInv, NEW t \in Threads, Filling(t), NEW u \in Threads, u # t
    PROVE  ~Filling(u) /\ stack[u] = << >>
<1>1. /\ t \in Loaders => published # None /\ pc[t] \in Critical
      /\ \A v \in Loaders : v # Constructor /\ pc[v] # "seed"
  BY LoaderFacts DEF IInv, NewInv, Filling, Owns, Critical
<1>2. CASE t \in Loaders
  <2>1. \A v \in Loaders : v # t => pc[v] \notin Critical
    BY <1>1, <1>2 DEF IInv, LockInv
  <2>2. pc[Constructor] = "idle"
    BY <1>1, <1>2 DEF IInv, NewInv
  <2> QED  BY <1>1, <2>1, <2>2 DEF Filling, Owns, Critical, IInv, StackInv, Threads
<1>3. CASE t = Constructor
  <2>1. pc[t] # "idle" /\ \A v \in Loaders : pc[v] = "idle"
    BY <1>3 DEF Filling, Owns, IInv, NewInv
  <2> QED  BY <1>3, <2>1 DEF Filling, Owns, IInv, StackInv, Threads
<1> QED  BY <1>2, <1>3 DEF Threads

(* The map being filled is there, and is not the published one.            *)
LEMMA FilledMap ==
    ASSUME IInv, NEW t \in Threads, Filling(t)
    PROVE  cache[t] \in DOMAIN caches /\ (published # None => cache[t] # published)
<1>1. CASE Owns(t)
  BY <1>1 DEF IInv, CloneInv
<1>2. CASE pc[t] = "seed"
  <2>1. t = Constructor /\ cache[t] = 1 /\ Len(caches) = 1 /\ published = None
    BY <1>2 DEF IInv, StackInv, NewInv
  <2>2. caches \in Seq(Cache)
    BY DEF IInv, TypeOK
  <2> QED  BY <2>1, <2>2
<1> QED  BY <1>1, <1>2 DEF Filling

-----------------------------------------------------------------------------
(* Steps that only fill in the evaluator and the frame of a build call.    *)

Fills(t, e, frame) ==
    LET old == evals[Top(t).id]
    IN  /\ pc[t] = "build" /\ stack[t] # << >>
        /\ e.of = old.of
        /\ \A i \in DOMAIN e.fields :
              \/ e.fields[i].embeds \in {None, Top(t).embeds}
              \/ i \in DOMAIN old.fields /\ e.fields[i].embeds = old.fields[i].embeds
        /\ \/ frame.embeds \in {None, Top(t).embeds}
           \/ \E d \in Messages : frame.embeds = caches[cache[t]][d]
        /\ evals' = [evals EXCEPT ![Top(t).id] = e]
        /\ stack' = Top1(t, frame)
        /\ UNCHANGED <<caches, published, cache, pc>>

(* One that leaves the fields as they are.                                 *)
LEMMA FillInFills ==
    ASSUME TypeOK, StackInv, NEW t \in Threads, NEW step, Building(t, step),
           NEW e, e.of = evals[Top(t).id].of, e.fields = evals[Top(t).id].fields,
           NEW next, FillIn(t, e, next)
    PROVE  \E f, frame : Fills(t, f, frame)
<1>1. pc[t] = "build" /\ stack[t] # << >>
  BY DEF Building
<1>2. PICK frame : frame = [Top(t) EXCEPT !.at = next]
  OBVIOUS
<1>3. frame.embeds = Top(t).embeds
  BY <1>1, <1>2, TopType DEF Frame
<1>4. Fills(t, e, frame)
  BY <1>1, <1>2, <1>3 DEF Fills, FillIn, BuildFrame
<1> QED  BY <1>4

(* One that only moves the frame.                                          *)
LEMMA MoveFills ==
    ASSUME TypeOK, StackInv, NEW t \in Threads, NEW step, Building(t, step),
           NEW frame,
           \/ frame.embeds \in {None, Top(t).embeds}
           \/ \E d \in Messages : frame.embeds = caches[cache[t]][d],
           stack' = Top1(t, frame), UNCHANGED <<caches, evals, pc, result>>,
           BuildFrame
    PROVE  \E f, g : Fills(t, f, g)
<1>1. pc[t] = "build" /\ stack[t] # << >>
  BY DEF Building
<1>2. evals' = [evals EXCEPT ![Top(t).id] = evals[Top(t).id]]
  BY <1>1, NoWrite
<1>3. Fills(t, evals[Top(t).id], frame)
  BY <1>1, <1>2 DEF Fills, BuildFrame
<1> QED  BY <1>3

LEMMA AppendFieldFills ==
    ASSUME TypeOK, StackInv, NEW t \in Threads, NEW err, NEW parts,
           Building(t, "value"), AppendField(t, err, parts)
    PROVE  \E e, frame : Fills(t, e, frame)
<1> DEFINE old == evals[Top(t).id]
           f == Described(t).fields[Top(t).next]
           fieldEval == [index |-> Top(t).next, err |-> err,
                         required |-> f.required, ignore |-> FieldIgnore(f),
                         parts |-> parts,
                         embeds |-> IF \E p \in parts : p.op = "embed"
                                    THEN Top(t).embeds ELSE None]
<1>1. pc[t] = "build" /\ stack[t] # << >>
  BY DEF Building
<1>2. PICK frame : frame = [Top(t) EXCEPT !.at = "fields", !.todo = << >>,
                                          !.next = @ + 1]
  OBVIOUS
<1>3. PICK appended : appended = [old EXCEPT !.fields = Append(@, fieldEval)]
  OBVIOUS
<1>4. Top(t) \in Frame /\ old \in Evaluator
  BY <1>1, TopType
<1>5. frame.embeds = Top(t).embeds
  BY <1>2, <1>4 DEF Frame
<1>6. fieldEval.embeds \in {None, Top(t).embeds}
  OBVIOUS
<1>7. /\ stack' = Top1(t, frame)
      /\ \/ evals' = evals
         \/ evals' = [evals EXCEPT ![Top(t).id] = appended]
      /\ UNCHANGED <<caches, pc, result>> /\ BuildFrame
  BY <1>2, <1>3 DEF AppendField
<1> HIDE DEF fieldEval, old
<1>8. CASE evals' = evals
  BY <1>5, <1>7, <1>8, MoveFills
<1>9. CASE evals' = [evals EXCEPT ![Top(t).id] = appended]
  <2>1. old.fields \in Seq(FieldEvaluator)
    BY <1>4 DEF Evaluator
  <2>2. appended.of = old.of /\ appended.fields = Append(old.fields, fieldEval)
    BY <1>3, <1>4 DEF Evaluator
  <2>3. \A i \in DOMAIN appended.fields :
          \/ appended.fields[i] = fieldEval
          \/ i \in DOMAIN old.fields /\ appended.fields[i] = old.fields[i]
    BY <2>1, <2>2
  <2>4. Fills(t, appended, frame)
    BY <1>1, <1>5, <1>6, <1>7, <1>9, <2>2, <2>3 DEF Fills, BuildFrame, old
  <2> QED  BY <2>4
<1> QED  BY <1>7, <1>8, <1>9

LEMMA StepsFill ==
    ASSUME IInv, NEW t \in Threads,
           \/ ProcessMessageExpressions(t) \/ ProcessMessageOneofRules(t)
           \/ ProcessOneofRules(t) \/ BuildField(t) \/ FinishField(t)
           \/ CompileRules(t) \/ FailRules(t) \/ EmbedMessage(t)
    PROVE  \E e, frame : Fills(t, e, frame)
<1>1. TypeOK /\ StackInv
  BY DEF IInv
<1>2. stack[t] # << >> => Top(t) \in Frame /\ evals[Top(t).id] \in Evaluator
  BY <1>1, TopType
<1>3. CASE ProcessMessageExpressions(t)
  <2>1. PICK e : e = [evals[Top(t).id] EXCEPT !.err = (Described(t).exprs = "error"),
                                              !.rules = (Described(t).exprs = "some")]
    OBVIOUS
  <2>2. Building(t, "expressions") /\ FillIn(t, e, "messageOneofs")
    BY <1>3, <2>1 DEF ProcessMessageExpressions
  <2>3. e.of = evals[Top(t).id].of /\ e.fields = evals[Top(t).id].fields
    BY <1>2, <2>1, <2>2 DEF Building, Evaluator
  <2> QED  BY <1>1, <2>2, <2>3, FillInFills
<1>4. CASE ProcessMessageOneofRules(t)
  <2>1. PICK err, oneofs :
          /\ Building(t, "messageOneofs")
          /\ FillIn(t, [evals[Top(t).id] EXCEPT !.err = err, !.oneofs = oneofs], "oneofs")
    BY <1>4 DEF ProcessMessageOneofRules
  <2>2. PICK e : e = [evals[Top(t).id] EXCEPT !.err = err, !.oneofs = oneofs]
    OBVIOUS
  <2>3. e.of = evals[Top(t).id].of /\ e.fields = evals[Top(t).id].fields
    BY <1>2, <2>1, <2>2 DEF Building, Evaluator
  <2> QED  BY <1>1, <2>1, <2>2, <2>3, FillInFills
<1>5. CASE ProcessOneofRules(t)
  <2>1. PICK required :
          /\ Building(t, "oneofs")
          /\ FillIn(t, [evals[Top(t).id] EXCEPT !.required = required], "fields")
    BY <1>5 DEF ProcessOneofRules
  <2>2. PICK e : e = [evals[Top(t).id] EXCEPT !.required = required]
    OBVIOUS
  <2>3. e.of = evals[Top(t).id].of /\ e.fields = evals[Top(t).id].fields
    BY <1>2, <2>1, <2>2 DEF Building, Evaluator
  <2> QED  BY <1>1, <2>1, <2>2, <2>3, FillInFills
<1>6. CASE BuildField(t)
  <2>1. PICK frame :
          frame = [Top(t) EXCEPT !.at = "value", !.parts = {}, !.embeds = None,
                     !.todo = FieldPlan(Described(t).fields[Top(t).next])]
    OBVIOUS
  <2>2. /\ Building(t, "fields") /\ stack' = Top1(t, frame)
        /\ UNCHANGED <<caches, evals, pc, result>> /\ BuildFrame
    BY <1>6, <2>1 DEF BuildField
  <2>3. frame.embeds = None
    BY <1>2, <2>1, <2>2 DEF Building, Frame
  <2> QED  BY <1>1, <2>2, <2>3, MoveFills
<1>7. CASE FinishField(t) \/ FailRules(t)
  BY <1>1, <1>7, AppendFieldFills DEF FinishField, FailRules
<1>8. CASE CompileRules(t)
  <2>1. PICK todo, parts :
          stack' = Top1(t, [Top(t) EXCEPT !.todo = todo, !.parts = parts])
    BY <1>8 DEF CompileRules
  <2>2. PICK frame : frame = [Top(t) EXCEPT !.todo = todo, !.parts = parts]
    OBVIOUS
  <2>3. /\ Building(t, "value")
        /\ UNCHANGED <<caches, evals, pc, result>> /\ BuildFrame
    BY <1>8 DEF CompileRules
  <2>4. frame.embeds = Top(t).embeds
    BY <1>2, <2>2, <2>3 DEF Building, Frame
  <2> QED  BY <1>1, <2>1, <2>2, <2>3, <2>4, MoveFills
<1>9. CASE EmbedMessage(t)
  <2> DEFINE step == Head(Top(t).todo)
             id == caches[cache[t]][step.target]
  <2>1. PICK frame : frame = [Top(t) EXCEPT !.todo = Tail(Top(t).todo), !.embeds = id,
                                            !.parts = Top(t).parts \cup {step.part}]
    OBVIOUS
  <2>2. /\ Building(t, "value") /\ Top(t).todo # << >> /\ step.part.op = "embed"
        /\ \/ AppendField(t, TRUE, Kept(Top(t).parts))
           \/ /\ stack' = Top1(t, frame)
              /\ UNCHANGED <<caches, evals, pc, result>> /\ BuildFrame
    BY <1>9, <2>1 DEF EmbedMessage
  <2>3. step.target \in Messages
    <3>1. step \in Step
      BY <1>1, <2>2, AtValue
    <3> QED  BY <2>2, <3>1 DEF Step
  <2>4. frame.embeds = id
    BY <1>2, <2>1, <2>2 DEF Building, Frame
  <2> HIDE DEF step
  <2>5. \E d \in Messages : frame.embeds = caches[cache[t]][d]
    BY <2>3, <2>4
  <2> QED  BY <1>1, <2>2, <2>5, AppendFieldFills, MoveFills
<1> QED  BY <1>3, <1>4, <1>5, <1>6, <1>7, <1>8, <1>9

LEMMA FillsPreserves ==
    ASSUME IInv, ClosedInv, NEW t \in Threads, NEW e, NEW frame, Fills(t, e, frame)
    PROVE  ClosedInv'
<1> DEFINE id == Top(t).id
           map == caches[cache[t]]
<1>1. /\ TypeOK /\ StackInv /\ EntryInv
      /\ evals \in Seq(Evaluator)
      /\ stack \in [Threads -> Seq(Frame)]
  BY DEF IInv, TypeOK
<1>2. /\ pc[t] = "build" /\ stack[t] # << >> /\ Filling(t)
      /\ Len(stack[t]) \in DOMAIN stack[t] /\ Top(t) = stack[t][Len(stack[t])]
      /\ id \in DOMAIN evals /\ id \notin PublishedEvals
      /\ cache[t] \in DOMAIN caches
  <2>1. pc[t] = "build" /\ stack[t] # << >> /\ Filling(t)
    BY DEF Fills, Filling, Owns
  <2>2. Len(stack[t]) \in DOMAIN stack[t] /\ Top(t) = stack[t][Len(stack[t])]
    BY <1>1, <2>1, TopType DEF Top
  <2> QED  BY <1>1, <2>1, <2>2, FilledMap DEF StackInv
<1>3. /\ DOMAIN evals' = DOMAIN evals /\ evals'[id] = e
      /\ \A i \in DOMAIN evals : i # id => evals'[i] = evals[i]
      /\ \A i \in DOMAIN evals : evals'[i].of = evals[i].of /\ evals[i].of \in Messages
      /\ UNCHANGED <<caches, published, cache, pc>>
  BY <1>1, <1>2, HeapFacts DEF Fills
<1>4. \A c : Grown(caches[c], evals, caches[c], evals')
  BY <1>3 DEF Grown
<1>5. PointedIn(map, evals, Top(t).embeds) /\ ClosedMap(map, evals)
  BY <1>2 DEF ClosedInv
<1>6. ASSUME NEW d \in Messages PROVE PointedIn(map, evals, map[d])
  BY <1>1, <1>2, HeapFacts DEF PointedIn, EntryInv
<1>7. PointedIn(map, evals', frame.embeds)
  <2>1. PointedIn(map, evals, frame.embeds)
    <3>1. PointedIn(map, evals, None)
      BY DEF PointedIn
    <3> QED  BY <1>5, <1>6, <3>1 DEF Fills
  <2> QED  BY <1>4, <2>1, PointedKept
<1>8. published # None => ClosedMap(caches[published], evals')
  <2> SUFFICES ASSUME published # None PROVE ClosedMap(caches[published], evals')
    OBVIOUS
  <2>1. ClosedMap(caches[published], evals)
    BY DEF ClosedInv
  <2>2. ASSUME NEW d \in Messages, caches[published][d] # None
        PROVE  evals'[caches[published][d]].fields = evals[caches[published][d]].fields
    <3>1. caches[published][d] \in PublishedEvals
      BY <2>2 DEF PublishedEvals
    <3>2. caches[published][d] \in DOMAIN evals
      BY <1>1, <2>2, HeapFacts DEF IInv, CloneInv
    <3> QED  BY <1>2, <1>3, <3>1, <3>2
  <2> QED  BY <1>4, <2>1, <2>2, ClosedKept
<1>9. ClosedMap(map, evals')
  <2>1. ASSUME NEW d \in Messages, map[d] = id, NEW i \in DOMAIN e.fields
        PROVE  PointedIn(map, evals', e.fields[i].embeds)
    <3>1. PointedIn(map, evals, e.fields[i].embeds)
      <4>1. CASE e.fields[i].embeds \in {None, Top(t).embeds}
        BY <1>5, <4>1 DEF PointedIn
      <4>2. CASE /\ i \in DOMAIN evals[id].fields
                 /\ e.fields[i].embeds = evals[id].fields[i].embeds
        <5>1. id # None
          BY <1>1, <1>2, HeapFacts
        <5> QED  BY <1>5, <2>1, <4>2, <5>1 DEF ClosedMap
      <4> QED  BY <4>1, <4>2 DEF Fills
    <3> QED  BY <1>4, <3>1, PointedKept
  <2>2. ASSUME NEW d \in Messages, map[d] # None, map[d] # id
        PROVE  evals'[map[d]].fields = evals[map[d]].fields
    BY <1>1, <1>2, <1>3, <2>2, HeapFacts
  <2> HIDE DEF map, id
  <2> QED
    <3>1. ASSUME NEW d \in Messages, map[d] # None
          PROVE  \/ map[d] # None /\ evals'[map[d]].fields = evals[map[d]].fields
                 \/ \A i \in DOMAIN evals'[map[d]].fields :
                       PointedIn(map, evals', evals'[map[d]].fields[i].embeds)
      BY <1>3, <2>1, <2>2, <3>1
    <3>2. Grown(map, evals, map, evals')
      BY <1>4 DEF map
    <3> QED  BY <1>5, <3>1, <3>2, ClosedKept
<1>10. ASSUME NEW u \in Threads, NEW k \in DOMAIN stack'[u]
       PROVE  PointedIn(caches'[cache'[u]], evals', stack'[u][k].embeds)
  <2>1. u = t
    <3>1. u # t => stack[u] = << >> /\ stack'[u] = stack[u]
      BY <1>1, <1>2, FillsAlone DEF Fills, Top1
    <3> QED  BY <1>10, <3>1
  <2>2. DOMAIN stack'[t] = DOMAIN stack[t]
    BY <1>1, <1>2 DEF Fills, Top1
  <2>3. CASE k = Len(stack[t])
    <3>1. stack'[t][k] = frame
      BY <1>1, <1>2, <2>3 DEF Fills, Top1
    <3> QED  BY <1>3, <1>7, <2>1, <3>1
  <2>4. CASE k # Len(stack[t])
    <3>1. stack'[t][k] = stack[t][k]
      BY <1>1, <1>2, <2>1, <2>2, <2>4 DEF Fills, Top1
    <3>2. PointedIn(map, evals, stack[t][k].embeds)
      BY <1>2, <2>1, <2>2 DEF ClosedInv
    <3>3. PointedIn(map, evals', stack[t][k].embeds)
      BY <1>4, <3>2, PointedKept
    <3> QED  BY <1>3, <2>1, <3>1, <3>3
  <2> QED  BY <2>3, <2>4
<1>11. ASSUME NEW u \in Threads, Filling(u)'
       PROVE  ClosedMap(caches'[cache'[u]], evals')
  <2>1. Filling(u)
    BY <1>3, <1>11 DEF Filling, Owns
  <2>2. u = t
    BY <1>2, <2>1, FillsAlone
  <2> QED  BY <1>3, <1>9, <2>2
<1> HIDE DEF map, id
<1> QED  BY <1>3, <1>8, <1>10, <1>11 DEF ClosedInv

-----------------------------------------------------------------------------
(* Steps that begin a build call: the new evaluator has no fields, and the *)
(* map it is put into had no entry for the message.                        *)

LEMMA GrowPreserves ==
    ASSUME IInv, ClosedInv, NEW t \in Threads, NEW d \in Messages, NEW map,
           ClosedMap(map, evals), map[d] = None,
           \A m \in Messages : map[m] # None => map[m] \in DOMAIN evals,
           evals' = Append(evals, EmptyMessage(d)), published' = published,
           \A m \in Messages \ {d} : caches'[cache'[t]][m] = map[m],
           caches'[cache'[t]][d] = Len(evals) + 1,
           published # None => caches'[published] = caches[published],
           \A u \in Threads \ {t} : stack'[u] = << >> /\ ~Filling(u)',
           \A k \in DOMAIN stack'[t] : PointedIn(map, evals, stack'[t][k].embeds)
    PROVE  ClosedInv'
<1> DEFINE map2 == caches'[cache'[t]]
           new == Len(evals) + 1
<1>1. /\ DOMAIN evals' = DOMAIN evals \cup {new} /\ new \notin DOMAIN evals
      /\ \A i \in DOMAIN evals : evals'[i] = evals[i] /\ evals[i].of \in Messages
      /\ evals'[new].fields = << >>
  <2>1. TypeOK
    BY DEF IInv
  <2>2. evals \in Seq(Evaluator)
    BY <2>1 DEF TypeOK
  <2>3. evals'[new] = EmptyMessage(d)
    BY <2>2
  <2>4. EmptyMessage(d).fields = << >>
    BY DEF EmptyMessage
  <2>5. \A i \in DOMAIN evals : evals[i].of \in Messages
    BY <2>1, HeapFacts
  <2> QED  BY <2>1, <2>3, <2>4, <2>5, NewEvaluator
<1> HIDE DEF new
<1>2. Grown(map, evals, map2, evals')
  BY <1>1 DEF Grown
<1>3. \A c : Grown(caches[c], evals, caches[c], evals')
  BY <1>1 DEF Grown
<1>4. ClosedMap(map2, evals')
  <2>1. ASSUME NEW m \in Messages, map2[m] # None
        PROVE  \/ map[m] # None /\ evals'[map[m]].fields = evals[map[m]].fields
               \/ \A i \in DOMAIN evals'[map2[m]].fields :
                     PointedIn(map2, evals', evals'[map2[m]].fields[i].embeds)
    <3>1. CASE m = d
      <4>1. map2[m] = new
        BY <3>1 DEF new
      <4> QED  BY <1>1, <4>1
    <3>2. CASE m # d
      <4>1. map[m] # None /\ map[m] \in DOMAIN evals
        BY <2>1, <3>2
      <4> QED  BY <1>1, <4>1
    <3> QED  BY <3>1, <3>2
  <2> HIDE DEF map2
  <2>2. ASSUME NEW es2, es2 = evals' PROVE ClosedMap(map2, es2)
    <3>1. /\ Grown(map, evals, map2, es2)
          /\ \A m \in Messages : map2[m] # None =>
                \/ map[m] # None /\ es2[map[m]].fields = evals[map[m]].fields
                \/ \A i \in DOMAIN es2[map2[m]].fields :
                      PointedIn(map2, es2, es2[map2[m]].fields[i].embeds)
      BY <1>2, <2>1, <2>2
    
    <3> QED  BY <3>1, ClosedKept
  <2> QED  BY <2>2
<1>5. published # None => ClosedMap(caches[published], evals')
  <2> SUFFICES ASSUME published # None PROVE ClosedMap(caches[published], evals')
    OBVIOUS
  <2>1. ClosedMap(caches[published], evals)
    BY DEF ClosedInv
  <2>2. ASSUME NEW m \in Messages, caches[published][m] # None
        PROVE  evals'[caches[published][m]].fields = evals[caches[published][m]].fields
    <3>1. caches[published][m] \in DOMAIN evals
      BY <2>2, HeapFacts DEF IInv, CloneInv
    <3> QED  BY <1>1, <3>1
  <2>3. Grown(caches[published], evals, caches[published], evals')
    BY <1>3
  <2> QED
    <3>1. ASSUME NEW es2, NEW old, es2 = evals', old = caches[published]
          PROVE  ClosedMap(old, es2)
      <4>1. /\ Grown(old, evals, old, es2) /\ ClosedMap(old, evals)
            /\ \A m \in Messages : old[m] # None => es2[old[m]].fields = evals[old[m]].fields
        BY <2>1, <2>2, <2>3, <3>1
      <4> QED  BY <4>1, ClosedKept
    <3> QED  BY <3>1
<1>6. ASSUME NEW u \in Threads, NEW k \in DOMAIN stack'[u]
      PROVE  PointedIn(caches'[cache'[u]], evals', stack'[u][k].embeds)
  <2>1. u = t
    BY <1>6
  <2>2. PointedIn(map, evals, stack'[t][k].embeds)
    BY <1>6, <2>1
  <2> QED  BY <1>2, <2>1, <2>2, PointedKept
<1>7. ASSUME NEW u \in Threads, Filling(u)'
      PROVE  ClosedMap(caches'[cache'[u]], evals')
  BY <1>4, <1>7
<1> HIDE DEF map2
<1> QED  BY <1>5, <1>6, <1>7 DEF ClosedInv

LEMMA StartBuildGrows ==
    ASSUME IInv, ClosedInv, NEW t \in Threads, Filling(t), NEW d \in Messages,
           caches[cache[t]][d] = None, StartBuild(t, cache[t], d),
           UNCHANGED <<published, cache>>,
           \A u \in Threads \ {t} : pc'[u] = pc[u]
    PROVE  ClosedInv'
<1> DEFINE map == caches[cache[t]]
<1>1. TypeOK /\ cache[t] \in DOMAIN caches
      /\ (published # None => cache[t] # published /\ published \in DOMAIN caches)
  BY FilledMap DEF IInv, CloneInv
<1>2. /\ \A b \in DOMAIN caches \ {cache[t]} : caches'[b] = caches[b]
      /\ \A m \in Messages \ {d} : caches'[cache[t]][m] = caches[cache[t]][m]
      /\ caches'[cache[t]][d] = Len(evals) + 1
      /\ \A u \in Threads \ {t} : stack'[u] = stack[u]
      /\ DOMAIN stack'[t] = DOMAIN stack[t] \cup {Len(stack[t]) + 1}
      /\ \A k \in DOMAIN stack[t] : stack'[t][k] = stack[t][k]
      /\ stack'[t][Len(stack[t]) + 1] = NewFrame(Len(evals) + 1)
  BY <1>1, StartBuildEffect
<1>3. ClosedMap(map, evals) /\ map[d] = None
  BY DEF ClosedInv
<1>4. \A m \in Messages : map[m] # None => map[m] \in DOMAIN evals
  BY <1>1, HeapFacts
<1>5. evals' = Append(evals, EmptyMessage(d))
  BY DEF StartBuild
<1>6. /\ \A m \in Messages \ {d} : caches'[cache'[t]][m] = map[m]
      /\ caches'[cache'[t]][d] = Len(evals) + 1
      /\ published # None => caches'[published] = caches[published]
  BY <1>1, <1>2
<1>7. \A u \in Threads \ {t} : stack'[u] = << >> /\ ~Filling(u)'
  BY <1>2, FillsAlone DEF Filling, Owns
<1>8. ASSUME NEW k \in DOMAIN stack'[t]
      PROVE  PointedIn(map, evals, stack'[t][k].embeds)
  <2>1. CASE k \in DOMAIN stack[t]
    BY <1>2, <2>1 DEF ClosedInv
  <2>2. CASE k = Len(stack[t]) + 1
    <3>1. stack'[t][k].embeds = None
      BY <1>2, <2>2 DEF NewFrame
    <3> QED  BY <3>1 DEF PointedIn
  <2> QED  BY <1>2, <1>8, <2>1, <2>2
<1> HIDE DEF map
<1> QED  BY <1>3, <1>4, <1>5, <1>6, <1>7, <1>8, GrowPreserves

LEMMA EnterEmbeddedGrows ==
    ASSUME IInv, ClosedInv, NEW t \in Threads, EnterEmbedded(t)
    PROVE  ClosedInv'
<1> DEFINE d == Head(Top(t).todo).target
<1>1. TypeOK /\ StackInv
  BY DEF IInv
<1>2. /\ Building(t, "value") /\ Top(t).todo # << >>
      /\ Head(Top(t).todo).part.op = "embed" /\ caches[cache[t]][d] = None
      /\ StartBuild(t, cache[t], d) /\ UNCHANGED <<published, cache, pc>>
  BY DEF EnterEmbedded, BuildFrame
<1>3. d \in Messages
  BY <1>1, <1>2, AtValue DEF Step
<1>4. Filling(t)
  BY <1>2 DEF Building, Filling, Owns
<1> HIDE DEF d
<1> QED  BY <1>2, <1>3, <1>4, StartBuildGrows

LEMMA CloneGrows ==
    ASSUME IInv, ClosedInv, NEW t \in Loaders, Clone(t)
    PROVE  ClosedInv'
<1> DEFINE map == caches[published]
           new == Len(evals) + 1
           map2 == [map EXCEPT ![desc[t]] = new]
<1>1. /\ t \in Threads /\ pc[t] = "check" /\ published # None
      /\ desc[t] \in Messages /\ map[desc[t]] = None
      /\ caches' = Append(caches, map2)
      /\ cache' = [cache EXCEPT ![t] = Len(caches) + 1]
      /\ evals' = Append(evals, EmptyMessage(desc[t]))
      /\ stack' = [stack EXCEPT ![t] = << NewFrame(new) >>]
      /\ pc' = [pc EXCEPT ![t] = "build"]
      /\ published' = published
  BY LoaderFacts DEF Clone, CloneAndBuild
<1>2. /\ TypeOK /\ caches \in Seq(Cache) /\ published \in DOMAIN caches
      /\ cache \in [Threads -> Nat] /\ stack \in [Threads -> Seq(Frame)]
      /\ pc \in [Threads -> PC]
  BY <1>1 DEF IInv, TypeOK, CloneInv
<1>3. map \in [Messages -> Nat]
  BY <1>2 DEF Cache
<1>4. /\ \A m \in Messages \ {desc[t]} : map2[m] = map[m]
      /\ map2[desc[t]] = new
  BY <1>1, <1>3
<1>5. ClosedMap(map, evals)
  BY <1>1 DEF ClosedInv
<1>6. \A m \in Messages : map[m] # None => map[m] \in DOMAIN evals
  BY <1>2, HeapFacts
<1> HIDE DEF map2, map
<1>7. /\ caches'[cache'[t]] = map2
      /\ caches'[published] = caches[published]
  BY <1>1, <1>2
<1>8. \A u \in Threads \ {t} : stack'[u] = << >> /\ ~Filling(u)'
  <2>1. ASSUME NEW u \in Threads, u # t PROVE pc[u] \notin {"build", "store", "seed"}
    <3>1. CASE u \in Loaders
      BY <1>1, <2>1, <3>1 DEF IInv, LockInv, Critical, NewInv
    <3>2. CASE u = Constructor
      BY <1>1, <3>2 DEF IInv, NewInv
    <3> QED  BY <3>1, <3>2 DEF Threads
  <2> QED  BY <1>1, <1>2, <2>1 DEF Filling, Owns, IInv, StackInv
<1>9. ASSUME NEW k \in DOMAIN stack'[t]
      PROVE  PointedIn(map, evals, stack'[t][k].embeds)
  <2>1. stack'[t] = << NewFrame(new) >>
    BY <1>1, <1>2
  <2>2. stack'[t][k] = NewFrame(new)
    BY <1>9, <2>1
  <2> QED  BY <2>2 DEF NewFrame, PointedIn
<1>10. /\ \A m \in Messages \ {desc[t]} : caches'[cache'[t]][m] = map[m]
       /\ caches'[cache'[t]][desc[t]] = Len(evals) + 1
  BY <1>4, <1>7 DEF new
<1> QED  BY <1>1, <1>5, <1>6, <1>7, <1>8, <1>9, <1>10, GrowPreserves

-----------------------------------------------------------------------------
(* Steps that write no evaluator and no map.                               *)

(* Every frame that is left was there, on the same map, and every map that *)
(* is still being filled, or is now published, was being filled.           *)
LEMMA QuietKeeps ==
    ASSUME ClosedInv, UNCHANGED <<caches, evals>>,
           \/ published' = published
           \/ \E v \in Threads : Filling(v) /\ published' = cache[v],
           \A u \in Threads : Filling(u)' => Filling(u) /\ cache'[u] = cache[u],
           \A u \in Threads : \A k \in DOMAIN stack'[u] :
              /\ k \in DOMAIN stack[u] /\ stack'[u][k] = stack[u][k]
              /\ cache'[u] = cache[u]
    PROVE  ClosedInv'
<1>1. (published # None => ClosedMap(caches[published], evals))'
  BY DEF ClosedInv
<1>2. ASSUME NEW u \in Threads, Filling(u)'
      PROVE  ClosedMap(caches'[cache'[u]], evals')
  BY <1>2 DEF ClosedInv
<1>3. ASSUME NEW u \in Threads, NEW k \in DOMAIN stack'[u]
      PROVE  PointedIn(caches'[cache'[u]], evals', stack'[u][k].embeds)
  BY <1>3 DEF ClosedInv
<1> QED  BY <1>1, <1>2, <1>3 DEF ClosedInv

LEMMA ReturnBuildKeeps ==
    ASSUME IInv, ClosedInv, NEW t \in Threads, ReturnBuild(t)
    PROVE  ClosedInv'
<1>1. /\ pc[t] = "build" /\ stack[t] # << >> /\ Filling(t)
      /\ UNCHANGED <<published, cache, caches, evals>>
      /\ stack' = [stack EXCEPT ![t] = SubSeq(@, 1, Len(@) - 1)]
      /\ \A u \in Threads \ {t} : pc'[u] = pc[u]
  BY DEF ReturnBuild, Building, BuildFrame, Owns, Filling, IInv, TypeOK
<1>2. stack \in [Threads -> Seq(Frame)]
  BY DEF IInv, TypeOK
<1>3. stack'[t] = SubSeq(stack[t], 1, Len(stack[t]) - 1)
  BY <1>1, <1>2
<1>4. Len(stack[t]) \in Nat \ {0}
  BY <1>1, <1>2
<1>5. ASSUME NEW u \in Threads, NEW k \in DOMAIN stack'[u]
      PROVE  k \in DOMAIN stack[u] /\ stack'[u][k] = stack[u][k]
  <2>1. CASE u = t
    <3>1. stack[t] \in Seq(Frame)
      BY <1>2
    <3>2. /\ DOMAIN stack'[t] = 1..(Len(stack[t]) - 1)
          /\ \A j \in 1..(Len(stack[t]) - 1) : stack'[t][j] = stack[t][j]
      BY <1>3, <1>4, <3>1
    <3>3. k \in DOMAIN stack[t]
      BY <1>4, <1>5, <2>1, <3>1, <3>2
    <3> QED  BY <1>5, <2>1, <3>2, <3>3
  <2>2. CASE u # t
    BY <1>1, <1>2, <1>5, <2>2
  <2> QED  BY <2>1, <2>2
<1>6. ASSUME NEW u \in Threads, Filling(u)'
      PROVE  Filling(u) /\ cache'[u] = cache[u]
  BY <1>1, <1>6 DEF Filling, Owns
<1> QED  BY <1>1, <1>5, <1>6, QuietKeeps

LEMMA LoaderKeeps ==
    ASSUME IInv, ClosedInv, NEW t \in Loaders,
           \/ Call(t) \/ LoadHit(t) \/ LoadUnknown(t) \/ LoadMiss(t) \/ Lock(t)
           \/ Recheck(t) \/ Store(t) \/ Unlock(t)
    PROVE  ClosedInv'
<1>1. /\ t \in Threads /\ pc \in [Threads -> PC] /\ cache \in [Threads -> Nat]
      /\ UNCHANGED <<caches, evals, stack>>
  BY LoaderFacts DEF IInv, TypeOK, Call, LoadHit, LoadUnknown, LoadMiss, Lock,
                     Recheck, Store, Unlock
<1>2. /\ pc[t] \in {"idle", "fast", "lock", "check", "store", "unlock"}
      /\ \E at \in {"idle", "fast", "lock", "check", "unlock"} : pc' = [pc EXCEPT ![t] = at]
  BY DEF Call, LoadHit, LoadUnknown, LoadMiss, Lock, Recheck, Store, Unlock
<1>3. \A u \in Threads \ {t} : cache'[u] = cache[u]
  BY <1>1 DEF Call, LoadHit, LoadUnknown, LoadMiss, Lock, Recheck, Store, Unlock
<1>4. \/ published' = published
      \/ Filling(t) /\ published' = cache[t]
  BY DEF Call, LoadHit, LoadUnknown, LoadMiss, Lock, Recheck, Store, Unlock,
         Filling, Owns
<1>5. ASSUME NEW u \in Threads, Filling(u)'
      PROVE  Filling(u) /\ cache'[u] = cache[u]
  BY <1>1, <1>2, <1>3, <1>5 DEF Filling, Owns
<1>6. stack[t] = << >>
  BY <1>1, <1>2 DEF IInv, StackInv
<1>7. ASSUME NEW u \in Threads, NEW k \in DOMAIN stack'[u]
      PROVE  /\ k \in DOMAIN stack[u] /\ stack'[u][k] = stack[u][k]
             /\ cache'[u] = cache[u]
  BY <1>1, <1>3, <1>6, <1>7
<1> QED  BY <1>1, <1>4, <1>5, <1>7, QuietKeeps

LEMMA PublishKeeps ==
    ASSUME IInv, ClosedInv, Publish
    PROVE  ClosedInv'
<1>1. /\ Constructor \in Threads /\ pc \in [Threads -> PC]
      /\ cache \in [Threads -> Nat]
      /\ pc[Constructor] = "seed" /\ published' = cache[Constructor]
      /\ cache' = [cache EXCEPT ![Constructor] = None]
      /\ pc' = [pc EXCEPT ![Constructor] = "idle"]
      /\ UNCHANGED <<caches, evals, stack>>
  BY DEF IInv, TypeOK, Publish, Threads
<1>2. Filling(Constructor) /\ stack[Constructor] = << >>
  BY <1>1 DEF Filling, IInv, StackInv
<1>3. ASSUME NEW u \in Threads, Filling(u)'
      PROVE  Filling(u) /\ cache'[u] = cache[u]
  BY <1>1, <1>3 DEF Filling, Owns
<1>4. ASSUME NEW u \in Threads, NEW k \in DOMAIN stack'[u]
      PROVE  /\ k \in DOMAIN stack[u] /\ stack'[u][k] = stack[u][k]
             /\ cache'[u] = cache[u]
  BY <1>1, <1>2, <1>4
<1> QED  BY <1>1, <1>2, <1>3, <1>4, QuietKeeps

LEMMA SeedKeeps ==
    ASSUME IInv, ClosedInv, Seed
    PROVE  ClosedInv'
<1> DEFINE d == Head(seeds)
<1>1. /\ Constructor \in Threads /\ d \in Messages /\ pc \in [Threads -> PC]
      /\ pc[Constructor] = "seed" /\ UNCHANGED <<published, cache>>
  BY DEF IInv, TypeOK, Seed, Threads
<1>2. CASE UNCHANGED <<caches, evals, pc, stack>>
  <2>1. \A u \in Threads : Filling(u)' => Filling(u) /\ cache'[u] = cache[u]
    BY <1>1, <1>2 DEF Filling, Owns
  <2> QED  BY <1>1, <1>2, <2>1, QuietKeeps
<1>3. CASE /\ caches[cache[Constructor]][d] = None
           /\ StartBuild(Constructor, cache[Constructor], d)
           /\ pc' = [pc EXCEPT ![Constructor] = "build"]
  <2>1. Filling(Constructor) /\ \A u \in Threads \ {Constructor} : pc'[u] = pc[u]
    BY <1>1, <1>3 DEF Filling
  <2> HIDE DEF d
  <2> QED  BY <1>1, <1>3, <2>1, StartBuildGrows
<1> QED  BY <1>2, <1>3 DEF Seed

-----------------------------------------------------------------------------

LEMMA ClosedInit == Init => ClosedInv
<1> SUFFICES ASSUME Init PROVE ClosedInv
  OBVIOUS
<1>1. /\ published = None /\ caches = << EmptyCache >>
      /\ \A t \in Threads : stack[t] = << >>
      /\ \A t \in Threads : Filling(t) => cache[t] = 1
  BY DEF Init, Filling, Owns
<1>2. \A d \in Messages : caches[1][d] = None
  BY <1>1 DEF EmptyCache
<1>3. ClosedMap(caches[1], evals)
  BY <1>2 DEF ClosedMap
<1> QED  BY <1>1, <1>3 DEF ClosedInv

LEMMA ClosedNext == IInv /\ ClosedInv /\ [Next]_vars => ClosedInv'
<1> SUFFICES ASSUME IInv, ClosedInv, [Next]_vars PROVE ClosedInv'
  OBVIOUS
<1>1. ASSUME NEW t \in Threads, Build(t) PROVE ClosedInv'
  <2>1. CASE \/ ProcessMessageExpressions(t) \/ ProcessMessageOneofRules(t)
             \/ ProcessOneofRules(t) \/ BuildField(t) \/ FinishField(t)
             \/ CompileRules(t) \/ FailRules(t) \/ EmbedMessage(t)
    BY <2>1, StepsFill, FillsPreserves
  <2> QED  BY <1>1, <2>1, EnterEmbeddedGrows, ReturnBuildKeeps DEF Build
<1>2. ASSUME Run(Constructor) PROVE Build(Constructor)
  <2>1. pc[Constructor] \in {"seed", "build", "idle"}
    BY DEF IInv, NewInv
  <2> QED
    BY <1>2, <2>1 DEF Run, LoadHit, LoadUnknown, LoadMiss, Lock, Recheck,
                      Clone, Store, Unlock
<1>3. ASSUME NEW t \in Threads, Run(t) PROVE ClosedInv'
  <2>1. CASE t \in Loaders
    <3>1. CASE Build(t)
      BY <1>1, <3>1
    <3>2. CASE ~Build(t)
      BY <1>3, <2>1, <3>2, LoaderKeeps, CloneGrows DEF Run
    <3> QED  BY <3>1, <3>2
  <2>2. CASE t = Constructor
    BY <1>1, <1>2, <1>3, <2>2
  <2> QED  BY <2>1, <2>2 DEF Threads
<1>4. ASSUME NEW t \in Threads, Call(t) PROVE ClosedInv'
  <2>1. t \in Loaders
    BY <1>4 DEF Call
  <2> QED  BY <1>4, <2>1, LoaderKeeps
<1>5. CASE UNCHANGED vars
  <2>1. UNCHANGED <<caches, evals, published, cache, stack, pc>>
    BY <1>5 DEF vars
  <2>2. \A u \in Threads : Filling(u)' => Filling(u)
    BY <2>1 DEF Filling, Owns
  <2> QED  BY <2>1, <2>2, QuietKeeps
<1> QED  BY <1>3, <1>4, <1>5, SeedKeeps, PublishKeeps DEF Next

(* A lock-free reader of the cache (builder.go:83-91) gets an evaluator no *)
(* build call is still filling in, and whatever it reaches from there is   *)
(* the published evaluator of its message: the clone that is stored        *)
(* (builder.go:106-108), like the map of New (builder.go:75-79), holds all *)
(* that the evaluators in it embed.                                        *)
THEOREM ReachableIsPublished == Spec => []PublishedClosed
<1>1. Spec => []ClosedInv
  BY ClosedInit, ClosedNext, Invariance, PTL DEF Spec
<1>2. IInv /\ ClosedInv => PublishedClosed
  <2> SUFFICES ASSUME IInv, ClosedInv, NEW id \in PublishedEvals
               PROVE  /\ \A t \in Threads :
                            \A k \in DOMAIN stack[t] : stack[t][k].id # id
                      /\ \A i \in DOMAIN evals[id].fields :
                            LET e == evals[id].fields[i].embeds
                            IN  e # None => caches[published][evals[e].of] = e
    BY DEF PublishedClosed
  <2>1. \A t \in Threads : \A k \in DOMAIN stack[t] : stack[t][k].id # id
    BY DEF IInv, StackInv
  <2>2. PICK d \in Messages : published # None /\ id = caches[published][d] /\ id # None
    BY DEF PublishedEvals
  <2>3. ClosedMap(caches[published], evals)
    BY <2>2 DEF ClosedInv
  <2>4. \A i \in DOMAIN evals[id].fields :
            PointedIn(caches[published], evals, evals[id].fields[i].embeds)
    BY <2>2, <2>3 DEF ClosedMap
  <2> QED  BY <2>1, <2>4 DEF PointedIn
<1> QED  BY <1>1, <1>2, Invariance, PTL

-----------------------------------------------------------------------------
(* The steps of buildValue, as a set.                                      *)

(* What a step of buildValue leaves to be found.                           *)
Steps(s) == {s[i] : i \in DOMAIN s}
LEMMA StepsConcat ==
    ASSUME NEW S, NEW s \in Seq(S), NEW t \in Seq(S)
    PROVE  Steps(s \o t) = Steps(s) \cup Steps(t)
<1>1. /\ DOMAIN (s \o t) = 1..(Len(s) + Len(t))
      /\ \A i \in 1..(Len(s) + Len(t)) :
            (s \o t)[i] = IF i <= Len(s) THEN s[i] ELSE t[i - Len(s)]
      /\ DOMAIN s = 1..Len(s) /\ DOMAIN t = 1..Len(t)
      /\ Len(s) \in Nat /\ Len(t) \in Nat
  OBVIOUS
<1>2. ASSUME NEW i \in DOMAIN (s \o t)
      PROVE  (s \o t)[i] \in Steps(s) \cup Steps(t)
  <2>1. i <= Len(s) => i \in DOMAIN s
    BY <1>1, <1>2
  <2>2. ~(i <= Len(s)) => i - Len(s) \in DOMAIN t
    BY <1>1, <1>2
  <2> QED  BY <1>1, <1>2, <2>1, <2>2 DEF Steps
<1>3. ASSUME NEW i \in DOMAIN s PROVE s[i] \in Steps(s \o t)
  <2>1. i \in DOMAIN (s \o t) /\ (s \o t)[i] = s[i]
    BY <1>1, <1>3
  <2> QED  BY <2>1 DEF Steps
<1>4. ASSUME NEW i \in DOMAIN t PROVE t[i] \in Steps(s \o t)
  <2>1. Len(s) + i \in DOMAIN (s \o t) /\ (s \o t)[Len(s) + i] = t[i]
    BY <1>1, <1>4
  <2> QED  BY <2>1 DEF Steps
<1> QED  BY <1>2, <1>3, <1>4 DEF Steps

LEMMA StepsOfThree ==
    ASSUME NEW S, NEW s \in Seq(S), NEW t \in Seq(S), NEW u \in Seq(S)
    PROVE  /\ (s \o t) \o u \in Seq(S)
           /\ Steps((s \o t) \o u) = Steps(s) \cup Steps(t) \cup Steps(u)
<1>1. PICK st \in Seq(S) : st = s \o t
  BY ConcatType
<1>2. Steps(st) = Steps(s) \cup Steps(t)
  BY <1>1, StepsConcat
<1>3. Steps(st \o u) = Steps(st) \cup Steps(u)
  BY StepsConcat
<1>4. st \o u \in Seq(S)
  BY ConcatType
<1> QED  BY <1>1, <1>2, <1>3, <1>4

LEMMA StepsOfFour ==
    ASSUME NEW S, NEW s \in Seq(S), NEW t \in Seq(S), NEW u \in Seq(S),
           NEW v \in Seq(S)
    PROVE  Steps(((s \o t) \o u) \o v)
              = Steps(s) \cup Steps(t) \cup Steps(u) \cup Steps(v)
<1>1. PICK stu \in Seq(S) : stu = (s \o t) \o u
  BY StepsOfThree
<1>2. Steps(stu) = Steps(s) \cup Steps(t) \cup Steps(u)
  BY <1>1, StepsOfThree
<1>3. Steps(stu \o v) = Steps(stu) \cup Steps(v)
  BY StepsConcat
<1> QED  BY <1>1, <1>2, <1>3

LEMMA StepsTail ==
    ASSUME NEW S, NEW s \in Seq(S), s # << >>
    PROVE  Steps(s) = {Head(s)} \cup Steps(Tail(s))
<1>1. /\ Tail(s) \in Seq(S) /\ Len(s) \in Nat \ {0}
      /\ DOMAIN s = 1..Len(s) /\ DOMAIN Tail(s) = 1..(Len(s) - 1)
      /\ Head(s) = s[1]
      /\ \A i \in 1..(Len(s) - 1) : Tail(s)[i] = s[i + 1]
  OBVIOUS
<1>2. ASSUME NEW i \in DOMAIN s PROVE s[i] \in {Head(s)} \cup Steps(Tail(s))
  <2>1. CASE i = 1
    BY <1>1, <2>1
  <2>2. CASE i # 1
    <3>1. i - 1 \in DOMAIN Tail(s) /\ Tail(s)[i - 1] = s[i]
      BY <1>1, <2>2
    <3> QED  BY <3>1 DEF Steps
  <2> QED  BY <2>1, <2>2
<1>3. Head(s) \in Steps(s)
  BY <1>1 DEF Steps
<1>4. ASSUME NEW i \in DOMAIN Tail(s) PROVE Tail(s)[i] \in Steps(s)
  <2>1. i + 1 \in DOMAIN s /\ Tail(s)[i] = s[i + 1]
    BY <1>1
  <2> QED  BY <2>1 DEF Steps
<1> QED  BY <1>2, <1>3, <1>4 DEF Steps

LEMMA StepsShort ==
    /\ Steps(<< >>) = {}
    /\ \A a : Steps(<< a >>) = {a}
    /\ \A a, b : Steps(<< a, b >>) = {a, b}
<1>1. Steps(<< >>) = {}
  BY DEF Steps
<1>2. ASSUME NEW a PROVE Steps(<< a >>) = {a}
  <2>1. DOMAIN << a >> = {1} /\ << a >>[1] = a
    OBVIOUS
  <2> QED  BY <2>1 DEF Steps
<1>3. ASSUME NEW a, NEW b PROVE Steps(<< a, b >>) = {a, b}
  <2>1. DOMAIN << a, b >> = {1, 2} /\ << a, b >>[1] = a /\ << a, b >>[2] = b
    OBVIOUS
  <2> QED  BY <2>1 DEF Steps
<1> QED  BY <1>1, <1>2, <1>3

LEMMA StepsIf ==
    ASSUME NEW condition, NEW s
    PROVE  Steps(If(condition, s)) = IF condition THEN Steps(s) ELSE {}
BY StepsShort DEF If

(* The steps of ValuePlan.                                                 *)
ValueSteps(slot, rules, holds, embedded) ==
    LET own == {Compile(slot, "cel", rules.cel)}
        inner == IF embedded /\ holds # NoMessage
                 THEN {Embed(slot, holds)} ELSE {}
        unwrapped == IF embedded /\ holds \in Wrappers /\ rules.std # "none"
                     THEN {Compile(slot, "unwrapped cel", rules.cel),
                           Compile(slot, "unwrapped std", rules.std)} ELSE {}
        std == IF holds \notin Wrappers
               THEN {Compile(slot, "std", rules.std)} ELSE {}
    IN  own \cup inner \cup unwrapped \cup std

LEMMA ValuePlanSteps ==
    ASSUME NEW slot \in Slot, NEW rules \in ValueRules,
           NEW holds \in Messages \cup {NoMessage}, NEW embedded \in BOOLEAN
    PROVE  Steps(ValuePlan(slot, rules, holds, embedded))
                = IF rules.ignore = "always" THEN {}
                  ELSE ValueSteps(slot, rules, holds, embedded)
<1> DEFINE own == << Compile(slot, "cel", rules.cel) >>
           inner == If(embedded /\ holds # NoMessage, << Embed(slot, holds) >>)
           unwrapped == If(embedded /\ holds \in Wrappers /\ rules.std # "none",
                           << Compile(slot, "unwrapped cel", rules.cel),
                              Compile(slot, "unwrapped std", rules.std) >>)
           std == If(~(holds \in Wrappers), << Compile(slot, "std", rules.std) >>)
<1>1. own \in Seq(Step) /\ inner \in Seq(Step) /\ unwrapped \in Seq(Step)
      /\ std \in Seq(Step)
  BY PieceTypes
<1>2. ValuePlan(slot, rules, holds, embedded)
          = If(rules.ignore # "always", own \o inner \o unwrapped \o std)
  BY DEF ValuePlan
<1>3. /\ Steps(own) = {Compile(slot, "cel", rules.cel)}
      /\ Steps(inner) = IF embedded /\ holds # NoMessage
                        THEN {Embed(slot, holds)} ELSE {}
      /\ Steps(unwrapped) =
            IF embedded /\ holds \in Wrappers /\ rules.std # "none"
            THEN {Compile(slot, "unwrapped cel", rules.cel),
                  Compile(slot, "unwrapped std", rules.std)} ELSE {}
      /\ Steps(std) = IF holds \notin Wrappers
                      THEN {Compile(slot, "std", rules.std)} ELSE {}
  BY StepsShort, StepsIf
<1>4. ValueSteps(slot, rules, holds, embedded)
          = Steps(own) \cup Steps(inner) \cup Steps(unwrapped) \cup Steps(std)
  BY <1>3 DEF ValueSteps
<1> HIDE DEF own, inner, unwrapped, std
<1>5. Steps(own \o inner \o unwrapped \o std)
          = Steps(own) \cup Steps(inner) \cup Steps(unwrapped) \cup Steps(std)
  <2>1. PICK a \in Seq(Step), b \in Seq(Step), c \in Seq(Step), d \in Seq(Step) :
           a = own /\ b = inner /\ c = unwrapped /\ d = std
    BY <1>1
  <2>2. Steps(((a \o b) \o c) \o d)
            = Steps(a) \cup Steps(b) \cup Steps(c) \cup Steps(d)
    BY StepsOfFour
  <2> QED  BY <2>1, <2>2
<1> QED  BY <1>2, <1>4, <1>5, StepsShort DEF If

(* What buildValue is told of the values of a field.                       *)
HoldsAt(f, slot) ==
    IF slot = "keys" \/ (slot = "value" /\ f.shape = "map")
    THEN NoMessage ELSE f.target

EmbeddedAt(f, slot) ==
    slot = IF f.shape = "singular" THEN "value" ELSE "items"

LEMMA FieldTypes ==
    ASSUME NEW f \in Field
    PROVE  /\ f.rules \in ValueRules /\ f.keys \in ValueRules
           /\ f.items \in ValueRules
           /\ f.shape \in Shape /\ f.target \in Messages \cup {NoMessage}
           /\ f.required \in BOOLEAN /\ FieldIgnore(f) \in Ignore
BY DEF Field, FieldIgnore, ValueRules, Ignore

LEMMA SlotTypes ==
    ASSUME NEW f \in Field, NEW slot \in Slot
    PROVE  /\ Promise!RulesAt(f, slot) \in ValueRules
           /\ HoldsAt(f, slot) \in Messages \cup {NoMessage}
           /\ EmbeddedAt(f, slot) \in BOOLEAN
           /\ Promise!RulesAt(f, slot) =
                IF slot = "value" THEN f.rules
                ELSE IF slot = "items" THEN f.items ELSE f.keys
BY FieldTypes DEF Promise!RulesAt, HoldsAt, EmbeddedAt, Slot

(* The plan of a field has the steps of its live slots.                    *)
LEMMA FieldPlanSteps ==
    ASSUME NEW f \in Field
    PROVE  /\ Promise!LiveSlots(f) \subseteq Slot
           /\ \A s : s \in Steps(FieldPlan(f)) <=>
                 \E slot \in Promise!LiveSlots(f) :
                    s \in ValueSteps(slot, Promise!RulesAt(f, slot),
                                     HoldsAt(f, slot), EmbeddedAt(f, slot))
<1> DEFINE holds == IF f.shape = "map" THEN NoMessage ELSE f.target
           value == ValuePlan("value", f.rules, holds, f.shape = "singular")
           keys == ValuePlan("keys", f.keys, NoMessage, FALSE)
           items == ValuePlan("items", f.items, f.target, TRUE)
           mapKeys == If(f.shape = "map", keys)
           elements == If(f.shape # "singular", items)
           at(slot) == ValueSteps(slot, Promise!RulesAt(f, slot),
                                  HoldsAt(f, slot), EmbeddedAt(f, slot))
<1>1. /\ f.rules \in ValueRules /\ f.keys \in ValueRules
      /\ f.items \in ValueRules /\ f.shape \in Shape
      /\ f.target \in Messages \cup {NoMessage}
      /\ holds \in Messages \cup {NoMessage}
      /\ NoMessage \in Messages \cup {NoMessage}
      /\ (f.shape = "singular") \in BOOLEAN
  BY FieldTypes
<1>2. /\ Promise!RulesAt(f, "value") = f.rules
      /\ Promise!RulesAt(f, "items") = f.items
      /\ Promise!RulesAt(f, "keys") = f.keys
      /\ HoldsAt(f, "value") = holds /\ HoldsAt(f, "items") = f.target
      /\ HoldsAt(f, "keys") = NoMessage
      /\ EmbeddedAt(f, "value") = (f.shape = "singular")
      /\ f.shape # "singular" => EmbeddedAt(f, "items") = TRUE
      /\ EmbeddedAt(f, "keys") = FALSE
  BY <1>1, SlotTypes DEF Slot, HoldsAt, EmbeddedAt
<1>3. /\ value \in Seq(Step) /\ keys \in Seq(Step) /\ items \in Seq(Step)
      /\ Steps(value) = IF f.rules.ignore = "always" THEN {} ELSE at("value")
      /\ Steps(keys) = IF f.keys.ignore = "always" THEN {} ELSE at("keys")
      /\ f.shape # "singular" =>
            Steps(items) = IF f.items.ignore = "always" THEN {} ELSE at("items")
  <2>1. value \in Seq(Step) /\ keys \in Seq(Step) /\ items \in Seq(Step)
    BY <1>1, ValuePlanType DEF Slot
  <2>2. Steps(value) = IF f.rules.ignore = "always" THEN {} ELSE at("value")
    <3>1. Steps(value) = IF f.rules.ignore = "always" THEN {}
                         ELSE ValueSteps("value", f.rules, holds, f.shape = "singular")
      BY <1>1, ValuePlanSteps DEF Slot
    <3> QED  BY <1>2, <3>1
  <2>3. Steps(keys) = IF f.keys.ignore = "always" THEN {} ELSE at("keys")
    <3>1. Steps(keys) = IF f.keys.ignore = "always" THEN {}
                        ELSE ValueSteps("keys", f.keys, NoMessage, FALSE)
      BY <1>1, ValuePlanSteps DEF Slot
    <3> QED  BY <1>2, <3>1
  <2>4. f.shape # "singular" =>
            Steps(items) = IF f.items.ignore = "always" THEN {} ELSE at("items")
    <3>1. Steps(items) = IF f.items.ignore = "always" THEN {}
                         ELSE ValueSteps("items", f.items, f.target, TRUE)
      BY <1>1, ValuePlanSteps DEF Slot
    <3> QED  BY <1>2, <3>1
  <2> QED  BY <2>1, <2>2, <2>3, <2>4
<1>4. FieldPlan(f) = If(f.rules.ignore # "always", value \o mapKeys \o elements)
  BY DEF FieldPlan
<1>5. /\ Promise!LiveSlots(f) =
            IF f.rules.ignore = "always" THEN {}
            ELSE {"value"}
                 \cup (IF f.shape # "singular" /\ f.items.ignore # "always"
                       THEN {"items"} ELSE {})
                 \cup (IF f.shape = "map" /\ f.keys.ignore # "always"
                       THEN {"keys"} ELSE {})
  BY DEF Promise!LiveSlots
<1> HIDE DEF value, keys, items, at
<1>6. /\ mapKeys \in Seq(Step) /\ elements \in Seq(Step)
      /\ Steps(mapKeys) = IF f.shape = "map" THEN Steps(keys) ELSE {}
      /\ Steps(elements) = IF f.shape # "singular" THEN Steps(items) ELSE {}
  BY <1>3, IfType, StepsIf
<1> HIDE DEF mapKeys, elements
<1>7. Steps(FieldPlan(f)) =
         IF f.rules.ignore = "always" THEN {}
         ELSE Steps(value) \cup Steps(mapKeys) \cup Steps(elements)
  <2>1. PICK a \in Seq(Step), b \in Seq(Step), c \in Seq(Step) :
           a = value /\ b = mapKeys /\ c = elements
    BY <1>3, <1>6
  <2>2. Steps((a \o b) \o c) = Steps(a) \cup Steps(b) \cup Steps(c)
    BY StepsOfThree
  <2> QED  BY <1>4, <2>1, <2>2, StepsShort DEF If
<1>8. Promise!LiveSlots(f) \subseteq Slot
  BY <1>5 DEF Slot
<1>9. \A s : s \in Steps(FieldPlan(f)) <=>
               \E slot \in Promise!LiveSlots(f) : s \in at(slot)
  BY <1>3, <1>5, <1>6, <1>7
<1> QED  BY <1>8, <1>9 DEF at

(* What the steps of a field are, and what there is a step for.            *)
LEMMA PlanFacts ==
    ASSUME NEW f \in Field, NEW s \in Steps(FieldPlan(f))
    PROVE  /\ s \in Step
           /\ s.part.op = "embed" =>
                 /\ Promise!Embeds(f)
                 /\ s.target = f.target /\ s.outcome = "some"
           /\ s.part.op # "embed" =>
                 /\ s.part.slot \in Promise!LiveSlots(f)
                 /\ s.part.op \in {"cel", "unwrapped cel"} =>
                       s.outcome = Promise!RulesAt(f, s.part.slot).cel
                 /\ s.part.op \in {"std", "unwrapped std"} =>
                       s.outcome = Promise!RulesAt(f, s.part.slot).std
<1>1. PICK slot \in Promise!LiveSlots(f) :
         s \in ValueSteps(slot, Promise!RulesAt(f, slot),
                          HoldsAt(f, slot), EmbeddedAt(f, slot))
  BY FieldPlanSteps
<1> DEFINE rules == Promise!RulesAt(f, slot)
<1>2. slot \in Slot /\ rules \in ValueRules
      /\ HoldsAt(f, slot) \in Messages \cup {NoMessage}
  BY FieldPlanSteps, SlotTypes
<1>3. \/ s = Compile(slot, "cel", rules.cel)
      \/ s = Compile(slot, "unwrapped cel", rules.cel)
      \/ s = Compile(slot, "unwrapped std", rules.std)
      \/ s = Compile(slot, "std", rules.std)
      \/ /\ s = Embed(slot, HoldsAt(f, slot))
         /\ EmbeddedAt(f, slot) /\ HoldsAt(f, slot) # NoMessage
  BY <1>1 DEF ValueSteps
<1>4. CASE \/ s = Compile(slot, "cel", rules.cel)
           \/ s = Compile(slot, "unwrapped cel", rules.cel)
           \/ s = Compile(slot, "unwrapped std", rules.std)
           \/ s = Compile(slot, "std", rules.std)
  <2>1. rules.cel \in Outcome /\ rules.std \in Outcome
    BY <1>2 DEF ValueRules
  <2>2. s \in Step
    BY <1>2, <1>4, <2>1, StepType DEF Op
  <2> HIDE DEF rules
  <2>3. /\ s.part.slot = slot /\ s.part.op # "embed"
        /\ s.part.op \in {"cel", "unwrapped cel"} => s.outcome = rules.cel
        /\ s.part.op \in {"std", "unwrapped std"} => s.outcome = rules.std
    <3>1. \A op, outcome :
            /\ Compile(slot, op, outcome).part.slot = slot
            /\ Compile(slot, op, outcome).part.op = op
            /\ Compile(slot, op, outcome).outcome = outcome
      BY DEF Compile
    <3>2. PICK op, outcome :
            /\ s = Compile(slot, op, outcome)
            /\ \/ op \in {"cel", "unwrapped cel"} /\ outcome = rules.cel
               \/ op \in {"std", "unwrapped std"} /\ outcome = rules.std
      BY <1>4
    <3> QED  BY <3>1, <3>2
  <2> QED  BY <1>1, <2>2, <2>3 DEF rules
<1>5. CASE /\ s = Embed(slot, HoldsAt(f, slot))
           /\ EmbeddedAt(f, slot) /\ HoldsAt(f, slot) # NoMessage
  <2>1. s \in Step
    BY <1>2, <1>5, StepType
  <2>2. HoldsAt(f, slot) = f.target
    BY <1>5 DEF HoldsAt
  <2>3. Promise!Embeds(f)
    BY <1>1, <1>5, <2>2 DEF Promise!Embeds, EmbeddedAt
  <2> QED  BY <1>5, <2>1, <2>2, <2>3 DEF Embed
<1> QED  BY <1>3, <1>4, <1>5

LEMMA PlanHas ==
    ASSUME NEW f \in Field
    PROVE  /\ Promise!Embeds(f) =>
                 \E s \in Steps(FieldPlan(f)) : s.part.op = "embed"
           /\ \A slot \in Promise!LiveSlots(f) :
                 /\ \E s \in Steps(FieldPlan(f)) :
                       s.part = [slot |-> slot, op |-> "cel"]
                 /\ (Carried(f) /\ Promise!RulesAt(f, slot).std # "none") =>
                       \E s \in Steps(FieldPlan(f)) :
                          /\ s.part.slot = slot
                          /\ s.part.op \in {"std", "unwrapped std"}
<1> DEFINE at(slot) == ValueSteps(slot, Promise!RulesAt(f, slot),
                                  HoldsAt(f, slot), EmbeddedAt(f, slot))
<1>1. \A slot \in Promise!LiveSlots(f) : at(slot) \subseteq Steps(FieldPlan(f))
  BY FieldPlanSteps
<1>2. ASSUME Promise!Embeds(f)
      PROVE  \E s \in Steps(FieldPlan(f)) : s.part.op = "embed"
  <2>1. PICK slot \in Promise!LiveSlots(f) : EmbeddedAt(f, slot)
    BY <1>2 DEF Promise!Embeds, EmbeddedAt
  <2>2. f.target # NoMessage
    BY <1>2 DEF Promise!Embeds
  <2>3. HoldsAt(f, slot) = f.target
    BY <2>1, FieldTypes DEF HoldsAt, EmbeddedAt, Shape
  <2>4. Embed(slot, f.target) \in at(slot)
    BY <2>1, <2>2, <2>3 DEF ValueSteps
  <2>5. Embed(slot, f.target).part.op = "embed"
    BY DEF Embed
  <2> HIDE DEF at
  <2> QED  BY <1>1, <2>1, <2>4, <2>5
<1>3. ASSUME NEW slot \in Promise!LiveSlots(f)
      PROVE  \E s \in Steps(FieldPlan(f)) : s.part = [slot |-> slot, op |-> "cel"]
  <2> DEFINE s == Compile(slot, "cel", Promise!RulesAt(f, slot).cel)
  <2>1. s \in at(slot)
    BY DEF ValueSteps
  <2>2. s.part = [slot |-> slot, op |-> "cel"]
    BY DEF Compile
  <2> HIDE DEF at, s
  <2> QED  BY <1>1, <2>1, <2>2
<1>4. ASSUME NEW slot \in Promise!LiveSlots(f), Carried(f),
             Promise!RulesAt(f, slot).std # "none"
      PROVE  \E s \in Steps(FieldPlan(f)) :
                s.part.slot = slot /\ s.part.op \in {"std", "unwrapped std"}
  <2> DEFINE plain == Compile(slot, "std", Promise!RulesAt(f, slot).std)
             inner == Compile(slot, "unwrapped std", Promise!RulesAt(f, slot).std)
  <2>1. HoldsAt(f, slot) \in Wrappers => EmbeddedAt(f, slot)
    <3> SUFFICES ASSUME HoldsAt(f, slot) \in Wrappers PROVE EmbeddedAt(f, slot)
      OBVIOUS
    <3>1. f.target \in Wrappers /\ slot # "keys"
          /\ ~(slot = "value" /\ f.shape = "map")
      BY SchemaAssumption DEF HoldsAt
    <3>2. slot \in {"value", "items"} /\ (slot = "items" => f.shape # "singular")
      BY <3>1 DEF Promise!LiveSlots
    <3>3. ~(slot = "value" /\ f.shape = "list")
      BY <1>4, <3>1 DEF Carried, Promise!RulesAt
    <3> QED  BY <3>1, <3>2, <3>3, FieldTypes DEF EmbeddedAt, Shape
  <2>2. \/ plain \in at(slot)
        \/ inner \in at(slot)
    BY <1>4, <2>1 DEF ValueSteps
  <2>3. /\ plain.part.slot = slot /\ plain.part.op = "std"
        /\ inner.part.slot = slot /\ inner.part.op = "unwrapped std"
    BY DEF Compile
  <2> HIDE DEF at, plain, inner
  <2> QED  BY <1>1, <2>2, <2>3
<1> QED  BY <1>2, <1>3, <1>4

(* The evaluator g of a field f means what f declares.                     *)
FieldMeans(g, f) ==
    /\ g.required = f.required
    /\ g.ignore = FieldIgnore(f)
    /\ g.err <=> Promise!BrokenField(f)
    /\ ~g.err =>
          /\ Slots(g.parts, {"cel", "unwrapped cel"}) = Promise!RulesOf(f).cel
          /\ Slots(g.parts, {"std", "unwrapped std"}) = Promise!RulesOf(f).std
          /\ IF Promise!Embeds(f)
             THEN g.embeds \in DOMAIN evals /\ evals[g.embeds].of = f.target
             ELSE g.embeds = None

(* So do the evaluators of the fields before the n-th.                     *)
FieldsMean(e, n) ==
    LET fields == schema[e.of].fields
    IN  /\ \A k \in DOMAIN e.fields :
              LET i == e.fields[k].index
              IN  /\ i \in DOMAIN fields /\ i < n
                  /\ Promise!Checked(fields[i])
                  /\ FieldMeans(e.fields[k], fields[i])
        /\ \A i \in DOMAIN fields :
              (i < n /\ Promise!Checked(fields[i]))
                  => \E k \in DOMAIN e.fields : e.fields[k].index = i
        /\ \A k, l \in DOMAIN e.fields :
              k < l => e.fields[k].index < e.fields[l].index

MessageMeans(e) ==
    /\ e.err <=> Promise!Broken(e.of)
    /\ ~e.err => e.oneofs = DOMAIN schema[e.of].oneofs

OneofsMean(e) ==
    LET oneofs == schema[e.of].protoOneofs
    IN  e.required = {i \in DOMAIN oneofs : oneofs[i]}

Complete(e) ==
    /\ e.rules <=> schema[e.of].exprs = "some"
    /\ MessageMeans(e)
    /\ OneofsMean(e)
    /\ FieldsMean(e, Len(schema[e.of].fields) + 1)

(* The steps that are done have left what they should, and found no error. *)
ValueMeans(frame, f) ==
    LET plan == Steps(FieldPlan(f))
    IN  /\ Steps(frame.todo) \subseteq plan
        /\ frame.parts \subseteq
              {s.part : s \in {p \in plan : p.outcome = "some"}}
        /\ \A s \in plan \ Steps(frame.todo) :
              /\ s.outcome # "error"
              /\ s.outcome = "some" => s.part \in frame.parts
              /\ s.part.op = "embed" =>
                    /\ ~Promise!Broken(s.target)
                    /\ frame.embeds \in DOMAIN evals
                    /\ evals[frame.embeds].of = s.target

(* What the call that runs in the frame has done to its evaluator e.       *)
ProgressOn(e, frame) ==
    LET m == schema[e.of]
    IN  /\ frame.at \in {"expressions", "messageOneofs", "oneofs"} =>
              frame.next = 1 /\ e.fields = << >>
        /\ frame.at # "expressions" => (e.rules <=> m.exprs = "some")
        /\ frame.at = "messageOneofs" => (e.err <=> m.exprs = "error")
        /\ frame.at \in {"oneofs", "fields", "value"} => MessageMeans(e)
        /\ frame.at \in {"fields", "value"} => OneofsMean(e)
        /\ FieldsMean(e, frame.next)
        /\ frame.at = "value" => ValueMeans(frame, m.fields[frame.next])

Progress(frame) == ProgressOn(evals[frame.id], frame)

Unfinished(i) ==
    \E t \in Threads : \E k \in DOMAIN stack[t] : stack[t][k].id = i

MeaningInv ==
    /\ schema \in Schemas
    /\ \A i \in DOMAIN evals : Unfinished(i) \/ Complete(evals[i])
    /\ \A t \in Threads : \A k \in DOMAIN stack[t] :
          /\ Progress(stack[t][k])
          /\ k # Len(stack[t]) => stack[t][k].at = "value"
          /\ \A l \in DOMAIN stack[t] :
                stack[t][l].id = stack[t][k].id => l = k

LoaderInv ==
    \A t \in Loaders :
        /\ pc[t] \notin {"idle", "fast"} => lazy
        /\ Owns(t) => caches[published][desc[t]] = None
        /\ pc[t] = "unlock" => result[t] \notin {None, Unknown}

-----------------------------------------------------------------------------
(* Fields.                                                                 *)

(* An error in the plan of a field is one of the field.                    *)
LEMMA FieldFails ==
    ASSUME NEW f \in Field, NEW s \in Steps(FieldPlan(f)),
           \/ s.part.op # "embed" /\ s.outcome = "error"
           \/ s.part.op = "embed" /\ Promise!Broken(s.target)
    PROVE  Promise!BrokenField(f)
<1>1. /\ s \in Step
      /\ s.part.op = "embed" => Promise!Embeds(f) /\ s.target = f.target
  BY PlanFacts
<1>2. CASE s.part.op = "embed"
  BY <1>1, <1>2 DEF Promise!BrokenField
<1>3. CASE s.part.op # "embed"
  <2>1. s.part.op \in {"cel", "unwrapped cel", "unwrapped std", "std"}
    BY <1>1, <1>3 DEF Step, Part, Op
  <2>2. s.outcome \in {Promise!RulesAt(f, s.part.slot).cel,
                       Promise!RulesAt(f, s.part.slot).std}
        /\ s.part.slot \in Promise!LiveSlots(f)
    BY <1>3, <2>1, PlanFacts
  <2> QED  BY <1>3, <2>2 DEF Promise!BrokenField
<1> QED  BY <1>2, <1>3

(* A field whose steps are all done: its evaluator means what it declares, *)
(* and is left out only if it is not checked.                              *)
LEMMA FieldDone ==
    ASSUME NEW f \in Field, Carried(f),
           NEW frame, ValueMeans(frame, f), Steps(frame.todo) = {}
    PROVE  /\ ~Promise!BrokenField(f)
           /\ Slots(frame.parts, {"cel", "unwrapped cel"}) = Promise!RulesOf(f).cel
           /\ Slots(frame.parts, {"std", "unwrapped std"}) = Promise!RulesOf(f).std
           /\ Promise!Embeds(f) <=> \E p \in frame.parts : p.op = "embed"
           /\ Promise!Embeds(f) => /\ frame.embeds \in DOMAIN evals
                                   /\ evals[frame.embeds].of = f.target
           /\ Promise!Checked(f) <=> f.required \/ frame.parts # {}
<1> DEFINE plan == Steps(FieldPlan(f))
           parts == frame.parts
           live == Promise!LiveSlots(f)
           rules(slot) == Promise!RulesAt(f, slot)
<1>1. ASSUME NEW s \in plan
      PROVE  /\ s.outcome # "error"
             /\ s.outcome = "some" => s.part \in parts
             /\ s.part.op = "embed" => /\ ~Promise!Broken(s.target)
                                       /\ frame.embeds \in DOMAIN evals
                                       /\ evals[frame.embeds].of = s.target
  BY DEF ValueMeans
<1>2. \A p \in parts : \E s \in plan : s.part = p /\ s.outcome = "some"
  BY DEF ValueMeans
<1>3. ASSUME NEW p \in parts
      PROVE  \/ p.op = "embed" /\ Promise!Embeds(f)
             \/ /\ p.op \in {"cel", "unwrapped cel"}
                /\ p.slot \in live /\ rules(p.slot).cel = "some"
             \/ /\ p.op \in {"std", "unwrapped std"}
                /\ p.slot \in live /\ rules(p.slot).std = "some"
  <2>1. PICK s \in plan : s.part = p /\ s.outcome = "some"
    BY <1>2
  <2>2. /\ s \in Step
        /\ s.part.op = "embed" => Promise!Embeds(f)
        /\ s.part.op # "embed" =>
              /\ s.part.slot \in live
              /\ s.part.op \in {"cel", "unwrapped cel"} =>
                    s.outcome = rules(s.part.slot).cel
              /\ s.part.op \in {"std", "unwrapped std"} =>
                    s.outcome = rules(s.part.slot).std
    BY PlanFacts
  <2> HIDE DEF rules, live, plan
  <2>3. p.op \in {"cel", "unwrapped cel", "unwrapped std", "std", "embed"}
    BY <2>1, <2>2 DEF Step, Part, Op
  <2>4. CASE p.op = "embed"
    BY <2>1, <2>2, <2>4
  <2>5. CASE p.op \in {"cel", "unwrapped cel"}
    BY <2>1, <2>2, <2>5
  <2>6. CASE p.op \in {"std", "unwrapped std"}
    BY <2>1, <2>2, <2>6
  <2> QED  BY <2>3, <2>4, <2>5, <2>6
<1>4. ASSUME NEW slot \in live
      PROVE  \E s \in plan : /\ s.part = [slot |-> slot, op |-> "cel"]
                             /\ s.outcome = rules(slot).cel
  <2>1. PICK s \in plan : s.part = [slot |-> slot, op |-> "cel"]
    BY PlanHas
  <2>2. s.part.slot = slot /\ s.part.op = "cel"
    BY <2>1
  <2>3. s.outcome = Promise!RulesAt(f, s.part.slot).cel
    BY <2>2, PlanFacts
  <2> QED  BY <2>1, <2>2, <2>3
<1>5. ASSUME NEW slot \in live, rules(slot).std # "none"
      PROVE  \E s \in plan : /\ s.part.slot = slot
                             /\ s.part.op \in {"std", "unwrapped std"}
                             /\ s.outcome = rules(slot).std
  <2>1. PICK s \in plan : s.part.slot = slot /\ s.part.op \in {"std", "unwrapped std"}
    BY <1>5, PlanHas
  <2> QED  BY <2>1, PlanFacts
<1>6. ASSUME Promise!Embeds(f)
      PROVE  \E s \in plan : /\ s.part.op = "embed" /\ s.target = f.target
                             /\ s.outcome = "some"
  <2>1. PICK s \in plan : s.part.op = "embed"
    BY <1>6, PlanHas
  <2> QED  BY <2>1, PlanFacts
<1> HIDE DEF plan
<1>7. \A slot \in live : rules(slot).cel # "error" /\ rules(slot).std # "error"
  <2> SUFFICES ASSUME NEW slot \in live
               PROVE  rules(slot).cel # "error" /\ rules(slot).std # "error"
    OBVIOUS
  <2> HIDE DEF live, rules
  <2>1. rules(slot).cel # "error"
    BY <1>1, <1>4
  <2>2. rules(slot).std # "error"
    <3> SUFFICES ASSUME rules(slot).std = "error" PROVE FALSE
      OBVIOUS
    <3>1. rules(slot).std # "none"
      OBVIOUS
    <3>2. PICK s \in plan : s.outcome = rules(slot).std
      BY <1>5, <3>1
    <3> QED  BY <1>1, <3>2
  <2> QED  BY <2>1, <2>2
<1>8. Promise!Embeds(f) => /\ ~Promise!Broken(f.target)
                           /\ \E p \in parts : p.op = "embed"
                           /\ frame.embeds \in DOMAIN evals
                           /\ evals[frame.embeds].of = f.target
  BY <1>1, <1>6
<1>9. ~Promise!BrokenField(f)
  BY <1>7, <1>8 DEF Promise!BrokenField
<1>10. \A slot \in live :
         /\ rules(slot).cel = "some" =>
               \E p \in parts : p.slot = slot /\ p.op \in {"cel", "unwrapped cel"}
         /\ rules(slot).std = "some" =>
               \E p \in parts : p.slot = slot /\ p.op \in {"std", "unwrapped std"}
  <2>1. ASSUME NEW slot \in live, rules(slot).cel = "some"
        PROVE  \E p \in parts : p.slot = slot /\ p.op \in {"cel", "unwrapped cel"}
    <3>1. PICK s \in plan : /\ s.part = [slot |-> slot, op |-> "cel"]
                            /\ s.outcome = rules(slot).cel
      BY <1>4
    <3>2. s.part \in parts
      BY <1>1, <2>1, <3>1
    <3>3. s.part.slot = slot /\ s.part.op = "cel"
      BY <3>1
    <3> QED  BY <3>2, <3>3
  <2>2. ASSUME NEW slot \in live, rules(slot).std = "some"
        PROVE  \E p \in parts : p.slot = slot /\ p.op \in {"std", "unwrapped std"}
    <3>1. PICK s \in plan : /\ s.part.slot = slot
                            /\ s.part.op \in {"std", "unwrapped std"}
                            /\ s.outcome = rules(slot).std
      BY <1>5, <2>2
    <3> QED  BY <1>1, <2>2, <3>1
  <2> QED  BY <2>1, <2>2
<1>11. /\ Promise!RulesOf(f).cel = {slot \in live : rules(slot).cel = "some"}
       /\ Promise!RulesOf(f).std = {slot \in live : rules(slot).std = "some"}
       /\ Promise!RulesOf(f) = Promise!NoRules <=>
             /\ {slot \in live : rules(slot).cel = "some"} = {}
             /\ {slot \in live : rules(slot).std = "some"} = {}
  BY DEF Promise!RulesOf, Promise!NoRules
<1> HIDE DEF live, rules
<1>12. /\ Slots(parts, {"cel", "unwrapped cel"}) = {slot \in live : rules(slot).cel = "some"}
       /\ Slots(parts, {"std", "unwrapped std"}) = {slot \in live : rules(slot).std = "some"}
  <2>1. \A ops, slot : slot \in Slots(parts, ops)
                          <=> \E p \in parts : p.op \in ops /\ p.slot = slot
    BY DEF Slots
  <2>2. ASSUME NEW slot \in live, rules(slot).cel = "some"
        PROVE  slot \in Slots(parts, {"cel", "unwrapped cel"})
    <3>1. PICK p \in parts : p.slot = slot /\ p.op \in {"cel", "unwrapped cel"}
      BY <1>10, <2>2
    <3> QED  BY <2>1, <3>1
  <2>3. ASSUME NEW slot \in live, rules(slot).std = "some"
        PROVE  slot \in Slots(parts, {"std", "unwrapped std"})
    <3>1. PICK p \in parts : p.slot = slot /\ p.op \in {"std", "unwrapped std"}
      BY <1>10, <2>3
    <3> QED  BY <2>1, <3>1
  <2>4. ASSUME NEW slot \in Slots(parts, {"cel", "unwrapped cel"})
        PROVE  slot \in live /\ rules(slot).cel = "some"
    <3>1. PICK p \in parts : p.op \in {"cel", "unwrapped cel"} /\ p.slot = slot
      BY <2>1
    <3> QED  BY <1>3, <3>1
  <2>5. ASSUME NEW slot \in Slots(parts, {"std", "unwrapped std"})
        PROVE  slot \in live /\ rules(slot).std = "some"
    <3>1. PICK p \in parts : p.op \in {"std", "unwrapped std"} /\ p.slot = slot
      BY <2>1
    <3> QED  BY <1>3, <3>1
  <2> QED  BY <2>2, <2>3, <2>4, <2>5
<1>13. Promise!Embeds(f) <=> \E p \in parts : p.op = "embed"
  BY <1>3, <1>8
<1>14. parts # {} <=> Promise!Embeds(f) \/ Promise!RulesOf(f) # Promise!NoRules
  <2>1. ASSUME parts # {} PROVE Promise!Embeds(f) \/ Promise!RulesOf(f) # Promise!NoRules
    <3>1. PICK p : p \in parts
      BY <2>1
    <3> QED  BY <1>3, <1>11, <3>1
  <2>2. ASSUME Promise!RulesOf(f) # Promise!NoRules PROVE parts # {}
    BY <1>10, <1>11, <2>2
  <2> QED  BY <1>8, <2>1, <2>2
<1> QED  BY <1>8, <1>9, <1>11, <1>12, <1>13, <1>14 DEF Promise!Checked

(* The next field is left out, or its evaluator appended.                  *)
LEMMA FieldSkipped ==
    ASSUME NEW e, NEW n \in Nat, FieldsMean(e, n),
           DOMAIN schema[e.of].fields \subseteq Nat,
           n \in DOMAIN schema[e.of].fields
              => ~Promise!Checked(schema[e.of].fields[n])
    PROVE  FieldsMean(e, n + 1)
<1>1. \A i \in DOMAIN schema[e.of].fields : i < n + 1 => i < n \/ i = n
  OBVIOUS
<1>2. \A i \in DOMAIN schema[e.of].fields : i < n => i < n + 1
  OBVIOUS
<1> QED  BY <1>1, <1>2 DEF FieldsMean

LEMMA FieldAppended ==
    ASSUME NEW e \in Evaluator, NEW n \in Nat, FieldsMean(e, n),
           NEW g \in FieldEvaluator,
           n \in DOMAIN schema[e.of].fields,
           DOMAIN schema[e.of].fields \subseteq Nat,
           g.index = n, Promise!Checked(schema[e.of].fields[n]),
           FieldMeans(g, schema[e.of].fields[n]),
           NEW e2, e2.of = e.of, e2.fields = Append(e.fields, g)
    PROVE  FieldsMean(e2, n + 1)
<1> DEFINE fields == schema[e.of].fields
<1>1. e.fields \in Seq(FieldEvaluator)
  BY DEF Evaluator
<1>2. /\ DOMAIN e.fields = 1..Len(e.fields) /\ Len(e.fields) \in Nat
      /\ DOMAIN e2.fields = 1..(Len(e.fields) + 1)
      /\ \A k \in DOMAIN e.fields : e2.fields[k] = e.fields[k]
      /\ e2.fields[Len(e.fields) + 1] = g
  BY <1>1
<1> HIDE DEF fields
<1>3. /\ \A k \in DOMAIN e.fields :
            /\ e.fields[k].index \in DOMAIN fields /\ e.fields[k].index < n
            /\ Promise!Checked(fields[e.fields[k].index])
            /\ FieldMeans(e.fields[k], fields[e.fields[k].index])
      /\ \A i \in DOMAIN fields : (i < n /\ Promise!Checked(fields[i]))
            => \E k \in DOMAIN e.fields : e.fields[k].index = i
      /\ \A k, l \in DOMAIN e.fields :
            k < l => e.fields[k].index < e.fields[l].index
  BY DEF FieldsMean, fields
<1>4. ASSUME NEW k \in DOMAIN e2.fields
      PROVE  /\ e2.fields[k].index \in DOMAIN fields /\ e2.fields[k].index < n + 1
             /\ Promise!Checked(fields[e2.fields[k].index])
             /\ FieldMeans(e2.fields[k], fields[e2.fields[k].index])
  <2>1. CASE k \in DOMAIN e.fields
    <3>1. PICK h : h = e.fields[k] /\ e2.fields[k] = h
      BY <1>2, <2>1
    <3>2. /\ h.index \in DOMAIN fields /\ h.index < n
          /\ Promise!Checked(fields[h.index]) /\ FieldMeans(h, fields[h.index])
      BY <1>3, <2>1, <3>1
    <3>3. h.index \in Nat /\ n \in Nat
      BY <3>2 DEF fields
    <3>4. h.index < n + 1
      BY <3>2, <3>3
    <3> QED  BY <3>1, <3>2, <3>4
  <2>2. CASE k = Len(e.fields) + 1
    <3>1. e2.fields[k] = g
      BY <1>2, <2>2
    <3>2. /\ g.index = n /\ n \in DOMAIN fields
          /\ Promise!Checked(fields[n]) /\ FieldMeans(g, fields[n])
      BY DEF fields
    <3>3. n < n + 1
      OBVIOUS
    <3> QED  BY <3>1, <3>2, <3>3
  <2> QED  BY <1>2, <2>1, <2>2
<1>5. ASSUME NEW i \in DOMAIN fields, i < n + 1, Promise!Checked(fields[i])
      PROVE  \E k \in DOMAIN e2.fields : e2.fields[k].index = i
  <2>1. CASE i < n
    <3>1. PICK k \in DOMAIN e.fields : e.fields[k].index = i
      BY <1>3, <1>5, <2>1
    <3>2. k \in DOMAIN e2.fields /\ e2.fields[k] = e.fields[k]
      BY <1>2
    <3> QED  BY <3>1, <3>2
  <2>2. CASE i = n
    <3>1. Len(e.fields) + 1 \in DOMAIN e2.fields
      BY <1>2
    <3> QED  BY <1>2, <2>2, <3>1
  <2> QED  BY <1>5, <2>1, <2>2 DEF fields
<1>6. ASSUME NEW k \in DOMAIN e2.fields, NEW l \in DOMAIN e2.fields, k < l
      PROVE  e2.fields[k].index < e2.fields[l].index
  <2>1. k \in DOMAIN e.fields
    BY <1>2, <1>6
  <2>2. CASE l \in DOMAIN e.fields
    BY <1>2, <1>3, <1>6, <2>1, <2>2
  <2>3. CASE l = Len(e.fields) + 1
    BY <1>2, <1>3, <2>1, <2>3
  <2> QED  BY <1>2, <2>2, <2>3
<1> QED  BY <1>4, <1>5, <1>6 DEF FieldsMean, fields

(* Meanings do not change while the heap grows.                            *)
LEMMA StaticMeaning ==
    ASSUME schema' = schema
    PROVE  /\ \A d : Promise!Broken(d)' <=> Promise!Broken(d)
           /\ \A f : Promise!BrokenField(f)' <=> Promise!BrokenField(f)
           /\ \A f : Promise!Checked(f)' <=> Promise!Checked(f)
<1>1. \A d : Promise!Broken(d)' <=> Promise!Broken(d)
  BY DEF Promise!Broken
<1>2. \A f : Promise!BrokenField(f)' <=> Promise!BrokenField(f)
  BY <1>1 DEF Promise!BrokenField
<1> QED  BY <1>1, <1>2 DEF Promise!Checked

HeapGrows ==
    /\ schema' = schema
    /\ \A i \in DOMAIN evals : i \in DOMAIN evals' /\ evals'[i].of = evals[i].of

LEMMA MeansKept ==
    ASSUME HeapGrows
    PROVE  /\ \A e, n : FieldsMean(e, n) => FieldsMean(e, n)'
           /\ \A e : MessageMeans(e) => MessageMeans(e)'
           /\ \A e : OneofsMean(e) => OneofsMean(e)'
           /\ \A e : Complete(e) => Complete(e)'
           /\ \A frame, f : ValueMeans(frame, f) => ValueMeans(frame, f)'
<1>1. /\ schema' = schema
      /\ \A i \in DOMAIN evals : i \in DOMAIN evals' /\ evals'[i].of = evals[i].of
      /\ \A d : Promise!Broken(d)' <=> Promise!Broken(d)
      /\ \A f : Promise!BrokenField(f)' <=> Promise!BrokenField(f)
      /\ \A f : Promise!Checked(f)' <=> Promise!Checked(f)
  BY StaticMeaning DEF HeapGrows
<1>2. ASSUME NEW g, NEW f, FieldMeans(g, f) PROVE FieldMeans(g, f)'
  <2>1. /\ (g.err <=> Promise!BrokenField(f))'
        /\ (g.required = f.required /\ g.ignore = FieldIgnore(f))'
    BY <1>1, <1>2 DEF FieldMeans
  <2>2. /\ Promise!RulesOf(f)' = Promise!RulesOf(f)
        /\ Promise!Embeds(f)' <=> Promise!Embeds(f)
    OBVIOUS
  <2> QED  BY <1>1, <1>2, <2>1, <2>2 DEF FieldMeans
<1>3. ASSUME NEW e, NEW n, FieldsMean(e, n) PROVE FieldsMean(e, n)'
  BY <1>1, <1>2, <1>3 DEF FieldsMean
<1>4. ASSUME NEW e PROVE /\ MessageMeans(e) => MessageMeans(e)'
                         /\ OneofsMean(e) => OneofsMean(e)'
  <2>1. MessageMeans(e) => MessageMeans(e)'
    BY <1>1 DEF MessageMeans
  <2>2. OneofsMean(e)' <=> OneofsMean(e)
    BY <1>1 DEF OneofsMean
  <2> QED  BY <2>1, <2>2
<1>5. ASSUME NEW e, Complete(e) PROVE Complete(e)'
  BY <1>1, <1>3, <1>4, <1>5 DEF Complete
<1>6. ASSUME NEW frame, NEW f, ValueMeans(frame, f) PROVE ValueMeans(frame, f)'
  BY <1>1, <1>6 DEF ValueMeans
<1> QED  BY <1>3, <1>4, <1>5, <1>6

LEMMA ProgressKept ==
    ASSUME HeapGrows, NEW e, NEW frame, ProgressOn(e, frame)
    PROVE  ProgressOn(e, frame)'
<1>1. schema' = schema
  BY DEF HeapGrows
<1>2. /\ FieldsMean(e, frame.next) => FieldsMean(e, frame.next)'
      /\ MessageMeans(e) => MessageMeans(e)'
      /\ OneofsMean(e) => OneofsMean(e)'
      /\ ValueMeans(frame, schema[e.of].fields[frame.next])
            => ValueMeans(frame, schema[e.of].fields[frame.next])'
  <2>1. ASSUME NEW f PROVE ValueMeans(frame, f) => ValueMeans(frame, f)'
    BY MeansKept
  <2>2. PICK f : f = schema[e.of].fields[frame.next]
    OBVIOUS
  <2>3. schema'[e.of].fields[frame.next] = f
    BY <1>1, <2>2
  <2>4. ValueMeans(frame, schema[e.of].fields[frame.next])
            => ValueMeans(frame, schema[e.of].fields[frame.next])'
    BY <2>1, <2>2, <2>3
  <2> QED  BY <2>4, MeansKept
<1> QED  BY <1>1, <1>2 DEF ProgressOn

-----------------------------------------------------------------------------
(* Steps that fill in the evaluator of the innermost call.                 *)

LEMMA LocalIs ==
    ASSUME TypeOK, StackInv, NEW t \in Threads,
           \E e, frame : LocalStep(t, e, frame),
           NEW e, NEW frame, stack' = Top1(t, frame),
           evals' = [evals EXCEPT ![Top(t).id] = e]
    PROVE  LocalStep(t, e, frame)
<1>1. PICK e2, frame2 : LocalStep(t, e2, frame2)
  OBVIOUS
<1>2. /\ stack[t] # << >> /\ stack \in [Threads -> Seq(Frame)]
      /\ evals \in Seq(Evaluator)
  BY <1>1 DEF LocalStep, TypeOK
<1>3. Len(stack[t]) \in DOMAIN stack[t] /\ Top(t).id \in DOMAIN evals
  BY <1>2, TopType
<1>4. evals'[Top(t).id] = e /\ stack'[t][Len(stack[t])] = frame
  BY <1>2, <1>3 DEF Top1
<1>5. evals'[Top(t).id] = e2 /\ stack'[t][Len(stack[t])] = frame2
  BY <1>1, <1>2, <1>3 DEF Top1, LocalStep
<1> QED  BY <1>1, <1>4, <1>5

LEMMA LocalMeans ==
    ASSUME IInv, MeaningInv, NEW t \in Threads, NEW e, NEW frame,
           LocalStep(t, e, frame), ProgressOn(e, frame)
    PROVE  MeaningInv'
<1> DEFINE id == Top(t).id
           top == Len(stack[t])
<1>1. /\ TypeOK /\ StackInv /\ pc[t] = "build" /\ stack[t] # << >>
      /\ stack \in [Threads -> Seq(Frame)] /\ evals \in Seq(Evaluator)
      /\ Filling(t)
  BY DEF LocalStep, IInv, TypeOK, Filling, Owns
<1>2. top \in DOMAIN stack[t] /\ id \in DOMAIN evals /\ Top(t) = stack[t][top]
  BY <1>1, TopType DEF Top
<1>3. /\ DOMAIN evals' = DOMAIN evals /\ evals'[id] = e
      /\ \A i \in DOMAIN evals : i # id => evals'[i] = evals[i]
      /\ e.of = evals[id].of /\ frame.id = id /\ schema' = schema
  BY <1>1, <1>2 DEF LocalStep
<1>4. /\ \A u \in Threads : u # t => stack[u] = << >> /\ stack'[u] = << >>
      /\ DOMAIN stack'[t] = DOMAIN stack[t] /\ Len(stack'[t]) = top
      /\ stack'[t][top] = frame
      /\ \A k \in DOMAIN stack[t] : k # top => stack'[t][k] = stack[t][k]
  <2>1. \A u \in Threads : u # t => stack[u] = << >>
    BY <1>1, FillsAlone
  <2>2. stack' = [stack EXCEPT ![t][top] = frame]
    BY DEF LocalStep, Top1
  <2>3. stack[t] \in Seq(Frame)
    BY <1>1
  <2> QED  BY <1>1, <1>2, <2>1, <2>2, <2>3
<1>5. HeapGrows
  BY <1>3 DEF HeapGrows
<1>6. /\ schema \in Schemas
      /\ \A i \in DOMAIN evals : Unfinished(i) \/ Complete(evals[i])
      /\ \A k \in DOMAIN stack[t] :
            /\ Progress(stack[t][k])
            /\ k # top => stack[t][k].at = "value"
            /\ \A l \in DOMAIN stack[t] : stack[t][l].id = stack[t][k].id => l = k
  BY DEF MeaningInv
<1>7. ASSUME NEW k \in DOMAIN stack[t]
      PROVE  stack'[t][k].id = stack[t][k].id /\ stack[t][k].id \in DOMAIN evals
  BY <1>1, <1>2, <1>3, <1>4 DEF StackInv
<1> HIDE DEF id, top
<1>8. ProgressOn(e, frame)'
  BY <1>5, ProgressKept
<1>9. ASSUME NEW k \in DOMAIN stack[t]
      PROVE  Progress(stack[t][k])'
  <2>1. CASE k = top
    BY <1>3, <1>4, <1>8, <2>1 DEF Progress
  <2>2. CASE k # top
    <3>1. PICK other : other = stack[t][k]
      OBVIOUS
    <3>2. other.id # id /\ other.id \in DOMAIN evals
      BY <1>2, <1>6, <1>7, <2>2, <3>1 DEF id
    <3>3. PICK g : g = evals[other.id]
      OBVIOUS
    <3>4. ProgressOn(g, other)
      BY <1>6, <3>1, <3>3 DEF Progress
    <3>5. ProgressOn(g, other)'
      BY <1>5, <3>4, ProgressKept
    <3>6. evals'[other.id] = g /\ stack'[t][k] = other
      BY <1>3, <1>4, <2>2, <3>1, <3>2, <3>3
    <3> QED  BY <3>5, <3>6 DEF Progress
  <2> QED  BY <2>1, <2>2
<1>10. ASSUME NEW i \in DOMAIN evals' PROVE Unfinished(i)' \/ Complete(evals[i])'
  <2>1. CASE i = id
    <3>1. stack'[t][top].id = id /\ top \in DOMAIN stack'[t]
      BY <1>2, <1>3, <1>4
    <3> QED  BY <2>1, <3>1 DEF Unfinished
  <2>2. CASE i # id
    <3>1. PICK g : g = evals[i]
      OBVIOUS
    <3>2. Complete(g) => Complete(g)'
      BY <1>5, MeansKept
    <3>3. Unfinished(i) => Unfinished(i)'
      BY <1>4, <1>7 DEF Unfinished
    <3>4. evals'[i] = g /\ i \in DOMAIN evals
      BY <1>3, <1>10, <2>2, <3>1
    <3> QED  BY <1>6, <3>1, <3>2, <3>3, <3>4
  <2> QED  BY <2>1, <2>2
<1>11. ASSUME NEW u \in Threads, NEW k \in DOMAIN stack'[u]
       PROVE  /\ Progress(stack[u][k])'
              /\ k # Len(stack'[u]) => stack'[u][k].at = "value"
              /\ \A l \in DOMAIN stack'[u] :
                    stack'[u][l].id = stack'[u][k].id => l = k
  <2>1. u = t
    BY <1>4, <1>11
  <2> QED  BY <1>4, <1>6, <1>7, <1>9, <1>11, <2>1
<1> QED  BY <1>3, <1>6, <1>10, <1>11 DEF MeaningInv

(* FieldsMean looks at an evaluator's message and fields only.             *)
LEMMA SameFields ==
    ASSUME NEW e, NEW e2, e2.of = e.of, e2.fields = e.fields, NEW n
    PROVE  FieldsMean(e, n) => FieldsMean(e2, n)
BY DEF FieldsMean

(* What is known of the innermost call.                                    *)
LEMMA TopProgress ==
    ASSUME IInv, MeaningInv, NEW t \in Threads, stack[t] # << >>
    PROVE  /\ TypeOK /\ StackInv
           /\ Top(t) \in Frame /\ evals[Top(t).id] \in Evaluator
           /\ schema[evals[Top(t).id].of] \in Message
           /\ ProgressOn(evals[Top(t).id], Top(t))
           /\ evals = [evals EXCEPT ![Top(t).id] = evals[Top(t).id]]
<1>1. TypeOK /\ StackInv
  BY DEF IInv
<1>2. Len(stack[t]) \in DOMAIN stack[t] /\ Top(t) = stack[t][Len(stack[t])]
  BY <1>1, TopType DEF Top
<1>3. ProgressOn(evals[Top(t).id], Top(t))
  BY <1>2 DEF MeaningInv, Progress
<1> QED  BY <1>1, <1>3, TopType, NoWrite DEF Described

LEMMA ExpressionsMean ==
    ASSUME IInv, MeaningInv, NEW t \in Threads, ProcessMessageExpressions(t)
    PROVE  MeaningInv'
<1>1. Building(t, "expressions") /\ stack[t] # << >> /\ Top(t).at = "expressions"
  BY DEF ProcessMessageExpressions, Building
<1>2. PICK old : old = evals[Top(t).id]
  OBVIOUS
<1>3. PICK m : m = schema[old.of]
  OBVIOUS
<1>4. PICK e : e = [old EXCEPT !.err = (m.exprs = "error"), !.rules = (m.exprs = "some")]
  OBVIOUS
<1>5. PICK frame : frame = [Top(t) EXCEPT !.at = "messageOneofs"]
  OBVIOUS
<1>6. /\ evals' = [evals EXCEPT ![Top(t).id] = e] /\ stack' = Top1(t, frame)
  BY <1>2, <1>3, <1>4, <1>5 DEF ProcessMessageExpressions, FillIn, Described
<1>7. /\ TypeOK /\ StackInv /\ Top(t) \in Frame /\ old \in Evaluator
      /\ ProgressOn(old, Top(t))
  BY <1>1, <1>2, TopProgress
<1>8. LocalStep(t, e, frame)
  BY <1>6, <1>7, LocalIs, ExpressionsIsLocal
<1>9. /\ e.of = old.of /\ e.fields = old.fields
      /\ (e.err <=> m.exprs = "error") /\ (e.rules <=> m.exprs = "some")
      /\ frame.at = "messageOneofs" /\ frame.next = Top(t).next
  BY <1>4, <1>5, <1>7 DEF Evaluator, Frame
<1>10. Top(t).next = 1 /\ old.fields = << >> /\ FieldsMean(old, Top(t).next)
  BY <1>1, <1>7 DEF ProgressOn
<1>11. FieldsMean(e, frame.next)
  BY <1>9, <1>10, SameFields
<1>12. ProgressOn(e, frame)
  BY <1>3, <1>9, <1>10, <1>11 DEF ProgressOn
<1> QED  BY <1>8, <1>12, LocalMeans

LEMMA MessageOneofsMean ==
    ASSUME IInv, MeaningInv, NEW t \in Threads, ProcessMessageOneofRules(t)
    PROVE  MeaningInv'
<1>1. /\ Building(t, "messageOneofs") /\ stack[t] # << >>
      /\ Top(t).at = "messageOneofs"
  BY DEF ProcessMessageOneofRules, Building
<1>2. PICK old : old = evals[Top(t).id]
  OBVIOUS
<1>3. PICK m : m = schema[old.of]
  OBVIOUS
<1>4. PICK bad : bad = {i \in DOMAIN m.oneofs : ~m.oneofs[i]}
  OBVIOUS
<1>5. PICK good : good = {i \in DOMAIN m.oneofs : \A j \in bad : i < j}
  OBVIOUS
<1>6. PICK e : e = [old EXCEPT !.err = @ \/ bad # {}, !.oneofs = good]
  OBVIOUS
<1>7. PICK frame : frame = [Top(t) EXCEPT !.at = "oneofs"]
  OBVIOUS
<1>8. /\ evals' = [evals EXCEPT ![Top(t).id] = e] /\ stack' = Top1(t, frame)
  BY <1>2, <1>3, <1>4, <1>5, <1>6, <1>7
     DEF ProcessMessageOneofRules, FillIn, Described
<1>9. /\ TypeOK /\ StackInv /\ Top(t) \in Frame /\ old \in Evaluator
      /\ ProgressOn(old, Top(t)) /\ m \in Message
  BY <1>1, <1>2, <1>3, TopProgress
<1>10. LocalStep(t, e, frame)
  BY <1>8, <1>9, LocalIs, MessageOneofsIsLocal
<1>11. /\ e.of = old.of /\ e.fields = old.fields /\ e.rules = old.rules
       /\ (e.err <=> old.err \/ bad # {}) /\ e.oneofs = good
       /\ frame.at = "oneofs" /\ frame.next = Top(t).next
  BY <1>6, <1>7, <1>9 DEF Evaluator, Frame
<1>12. /\ Top(t).next = 1 /\ old.fields = << >> /\ FieldsMean(old, Top(t).next)
       /\ (old.rules <=> m.exprs = "some") /\ (old.err <=> m.exprs = "error")
  BY <1>1, <1>3, <1>9 DEF ProgressOn
<1>13. FieldsMean(e, frame.next)
  BY <1>11, <1>12, SameFields
<1>14. e.err <=> Promise!Broken(e.of)
  BY <1>3, <1>4, <1>11, <1>12 DEF Promise!Broken
<1>15. ~e.err => e.oneofs = DOMAIN m.oneofs
  BY <1>5, <1>11
<1>16. MessageMeans(e)
  BY <1>3, <1>11, <1>14, <1>15 DEF MessageMeans
<1>17. ProgressOn(e, frame)
  BY <1>3, <1>11, <1>12, <1>13, <1>16 DEF ProgressOn
<1> QED  BY <1>10, <1>17, LocalMeans

LEMMA ProtoOneofsMean ==
    ASSUME IInv, MeaningInv, NEW t \in Threads, ProcessOneofRules(t)
    PROVE  MeaningInv'
<1>1. Building(t, "oneofs") /\ stack[t] # << >> /\ Top(t).at = "oneofs"
  BY DEF ProcessOneofRules, Building
<1>2. PICK old : old = evals[Top(t).id]
  OBVIOUS
<1>3. PICK m : m = schema[old.of]
  OBVIOUS
<1>4. PICK required : required = {i \in DOMAIN m.protoOneofs : m.protoOneofs[i]}
  OBVIOUS
<1>5. PICK e : e = [old EXCEPT !.required = required]
  OBVIOUS
<1>6. PICK frame : frame = [Top(t) EXCEPT !.at = "fields"]
  OBVIOUS
<1>7. /\ evals' = [evals EXCEPT ![Top(t).id] = e] /\ stack' = Top1(t, frame)
  BY <1>2, <1>3, <1>4, <1>5, <1>6 DEF ProcessOneofRules, FillIn, Described
<1>8. /\ TypeOK /\ StackInv /\ Top(t) \in Frame /\ old \in Evaluator
      /\ ProgressOn(old, Top(t))
  BY <1>1, <1>2, TopProgress
<1>9. LocalStep(t, e, frame)
  BY <1>7, <1>8, LocalIs, OneofsIsLocal
<1>10. /\ e.of = old.of /\ e.fields = old.fields /\ e.rules = old.rules
       /\ e.err = old.err /\ e.oneofs = old.oneofs /\ e.required = required
       /\ frame.at = "fields" /\ frame.next = Top(t).next
  BY <1>5, <1>6, <1>8 DEF Evaluator, Frame
<1>11. /\ FieldsMean(old, Top(t).next) /\ MessageMeans(old)
       /\ (old.rules <=> m.exprs = "some")
  BY <1>1, <1>3, <1>8 DEF ProgressOn
<1>12. FieldsMean(e, frame.next)
  BY <1>10, <1>11, SameFields
<1>13. MessageMeans(e)
  BY <1>10, <1>11 DEF MessageMeans
<1>14. OneofsMean(e)
  BY <1>3, <1>4, <1>10 DEF OneofsMean
<1>15. ProgressOn(e, frame)
  BY <1>3, <1>10, <1>11, <1>12, <1>13, <1>14 DEF ProgressOn
<1> QED  BY <1>9, <1>15, LocalMeans

-----------------------------------------------------------------------------
(* Steps that go through the values of a field.                            *)

LEMMA BuildFieldMeans ==
    ASSUME IInv, MeaningInv, NEW t \in Threads, BuildField(t)
    PROVE  MeaningInv'
<1>1. Building(t, "fields") /\ stack[t] # << >> /\ Top(t).at = "fields"
  BY DEF BuildField, Building
<1>2. PICK e : e = evals[Top(t).id]
  OBVIOUS
<1>3. PICK f : f = schema[e.of].fields[Top(t).next]
  OBVIOUS
<1>4. PICK frame : frame = [Top(t) EXCEPT !.at = "value", !.parts = {},
                                          !.embeds = None, !.todo = FieldPlan(f)]
  OBVIOUS
<1>5. /\ TypeOK /\ StackInv /\ Top(t) \in Frame
      /\ ProgressOn(e, Top(t))
      /\ evals = [evals EXCEPT ![Top(t).id] = e]
  BY <1>1, <1>2, TopProgress
<1>6. evals' = [evals EXCEPT ![Top(t).id] = e] /\ stack' = Top1(t, frame)
  BY <1>2, <1>3, <1>4, <1>5 DEF BuildField, Described
<1>7. LocalStep(t, e, frame)
  BY <1>5, <1>6, LocalIs, BuildFieldIsLocal
<1>8. /\ frame.at = "value" /\ frame.next = Top(t).next /\ frame.parts = {}
      /\ frame.todo = FieldPlan(f)
  BY <1>4, <1>5 DEF Frame
<1>9. ValueMeans(frame, f)
  BY <1>8 DEF ValueMeans
<1>10. ProgressOn(e, frame)
  BY <1>1, <1>3, <1>5, <1>8, <1>9 DEF ProgressOn
<1> QED  BY <1>7, <1>10, LocalMeans

(* One step of a value that succeeds.                                      *)
LEMMA StepDone ==
    ASSUME NEW f \in Field, NEW frame, ValueMeans(frame, f),
           frame.todo \in Seq(Step), frame.todo # << >>,
           NEW s, s = Head(frame.todo), s.outcome # "error",
           NEW frame2, frame2.todo = Tail(frame.todo),
           frame2.parts = IF s.outcome = "some"
                          THEN frame.parts \cup {s.part} ELSE frame.parts,
           \/ s.part.op # "embed" /\ frame2.embeds = frame.embeds
           \/ /\ s.part.op = "embed" /\ ~Promise!Broken(s.target)
              /\ frame2.embeds \in DOMAIN evals
              /\ evals[frame2.embeds].of = s.target
    PROVE  ValueMeans(frame2, f)
<1> DEFINE plan == Steps(FieldPlan(f))
           todo == Steps(frame.todo)
           rest == Steps(frame2.todo)
<1>1. todo = {s} \cup rest
  BY StepsTail
<1>2. /\ todo \subseteq plan
      /\ frame.parts \subseteq {p.part : p \in {q \in plan : q.outcome = "some"}}
      /\ \A p \in plan \ todo :
            /\ p.outcome # "error"
            /\ p.outcome = "some" => p.part \in frame.parts
            /\ p.part.op = "embed" => /\ ~Promise!Broken(p.target)
                                      /\ frame.embeds \in DOMAIN evals
                                      /\ evals[frame.embeds].of = p.target
  BY DEF ValueMeans
<1>3. \A p \in plan : p.part.op = "embed" => p.target = f.target
  BY PlanFacts
<1> HIDE DEF plan, todo, rest
<1>4. rest \subseteq plan /\ s \in plan
  BY <1>1, <1>2
<1>5. frame2.parts \subseteq {p.part : p \in {q \in plan : q.outcome = "some"}}
  BY <1>2, <1>4
<1>6. ASSUME NEW p \in plan \ rest
      PROVE  /\ p.outcome # "error"
             /\ p.outcome = "some" => p.part \in frame2.parts
             /\ p.part.op = "embed" => /\ ~Promise!Broken(p.target)
                                       /\ frame2.embeds \in DOMAIN evals
                                       /\ evals[frame2.embeds].of = p.target
  <2>1. CASE p = s
    BY <2>1
  <2>2. CASE p # s
    <3>1. p \in plan \ todo
      BY <1>1, <2>2
    <3>2. p.outcome # "error" /\ (p.outcome = "some" => p.part \in frame2.parts)
      BY <1>2, <3>1
    <3>3. CASE s.part.op # "embed"
      BY <1>2, <3>1, <3>2, <3>3
    <3>4. CASE s.part.op = "embed"
      BY <1>2, <1>3, <1>4, <3>1, <3>2, <3>4
    <3> QED  BY <3>3, <3>4
  <2> QED  BY <2>1, <2>2
<1> QED  BY <1>4, <1>5, <1>6 DEF ValueMeans, plan, rest

(* What is known of a call that is at a value.                             *)
LEMMA ValueProgress ==
    ASSUME IInv, MeaningInv, NEW t \in Threads, Building(t, "value"),
           NEW e, e = evals[Top(t).id],
           NEW f, f = schema[e.of].fields[Top(t).next]
    PROVE  /\ stack[t] # << >> /\ Top(t).at = "value"
           /\ Top(t).next \in DOMAIN schema[e.of].fields
           /\ schema[e.of].fields \in Seq(Field)
           /\ f \in Field /\ ValueMeans(Top(t), f)
           /\ Top(t).todo \in Seq(Step)
           /\ Top(t).todo # << >> =>
                 /\ Head(Top(t).todo) \in Steps(FieldPlan(f))
                 /\ Head(Top(t).todo) \in Step
<1>1. stack[t] # << >> /\ Top(t).at = "value"
  BY DEF Building
<1>2. /\ TypeOK /\ StackInv /\ Top(t) \in Frame /\ ProgressOn(e, Top(t))
      /\ schema[e.of] \in Message
  BY <1>1, TopProgress
<1>3. /\ Top(t).next \in DOMAIN schema[e.of].fields
      /\ Top(t).todo # << >> => Head(Top(t).todo) \in Step
  BY <1>2, AtValue DEF Described
<1>4. schema[e.of].fields \in Seq(Field) /\ Top(t).todo \in Seq(Step)
  BY <1>2 DEF Message, Frame
<1>5. f \in Field
  BY <1>3, <1>4
<1>6. ValueMeans(Top(t), f)
  BY <1>1, <1>2 DEF ProgressOn
<1>7. Top(t).todo # << >> => Head(Top(t).todo) \in Steps(FieldPlan(f))
  BY <1>4, <1>6, StepsTail DEF ValueMeans
<1> QED  BY <1>1, <1>3, <1>4, <1>5, <1>6, <1>7

(* A call that stays at its value, with a step less to do.                 *)
LEMMA ValueMoves ==
    ASSUME IInv, MeaningInv, NEW t \in Threads, Building(t, "value"),
           \E e, frame : LocalStep(t, e, frame),
           NEW e, e = evals[Top(t).id],
           NEW frame, frame.at = "value", frame.next = Top(t).next,
           ValueMeans(frame, schema[e.of].fields[frame.next]),
           stack' = Top1(t, frame), evals' = evals
    PROVE  MeaningInv'
<1>1. stack[t] # << >> /\ Top(t).at = "value"
  BY DEF Building
<1>2. /\ TypeOK /\ StackInv /\ ProgressOn(e, Top(t))
      /\ evals = [evals EXCEPT ![Top(t).id] = e]
  BY <1>1, TopProgress
<1>3. LocalStep(t, e, frame)
  BY <1>2, LocalIs
<1>4. ProgressOn(e, frame)
  BY <1>1, <1>2 DEF ProgressOn
<1> QED  BY <1>3, <1>4, LocalMeans

LEMMA CompileRulesMean ==
    ASSUME IInv, MeaningInv, NEW t \in Threads, CompileRules(t)
    PROVE  MeaningInv'
<1>1. Building(t, "value") /\ Top(t).todo # << >>
  BY DEF CompileRules
<1>2. PICK e : e = evals[Top(t).id]
  OBVIOUS
<1>3. PICK f : f = schema[e.of].fields[Top(t).next]
  OBVIOUS
<1>4. PICK s : s = Head(Top(t).todo)
  OBVIOUS
<1>5. PICK parts : parts = IF s.outcome = "some"
                           THEN Top(t).parts \cup {s.part} ELSE Top(t).parts
  OBVIOUS
<1>6. PICK frame : frame = [Top(t) EXCEPT !.todo = Tail(@), !.parts = parts]
  OBVIOUS
<1>7. /\ stack[t] # << >> /\ Top(t).at = "value" /\ f \in Field
      /\ ValueMeans(Top(t), f) /\ Top(t).todo \in Seq(Step)
  BY <1>1, <1>2, <1>3, ValueProgress
<1>8. Top(t) \in Frame /\ TypeOK /\ StackInv
  BY <1>7, TopProgress
<1>9. /\ frame.at = "value" /\ frame.next = Top(t).next
      /\ frame.todo = Tail(Top(t).todo) /\ frame.parts = parts
      /\ frame.embeds = Top(t).embeds
  BY <1>6, <1>7, <1>8 DEF Frame
<1>10. /\ s.part.op # "embed" /\ s.outcome # "error" /\ evals' = evals
       /\ stack' = Top1(t, frame)
  BY <1>4, <1>5, <1>6 DEF CompileRules
<1>11. ValueMeans(frame, f)
  BY <1>1, <1>4, <1>5, <1>7, <1>9, <1>10, StepDone
<1>12. \E e2, frame2 : LocalStep(t, e2, frame2)
  BY <1>8, CompileRulesIsLocal
<1> QED  BY <1>1, <1>2, <1>3, <1>9, <1>10, <1>11, <1>12, ValueMoves

LEMMA SeqDomain ==
    ASSUME NEW S, NEW s \in Seq(S)
    PROVE  DOMAIN s = 1..Len(s) /\ Len(s) \in Nat /\ DOMAIN s \subseteq Nat
<1>1. DOMAIN s = 1..Len(s) /\ Len(s) \in Nat
  OBVIOUS
<1> QED  BY <1>1

(* The value of a field is done, or has failed.                            *)
LEMMA AppendMeans ==
    ASSUME IInv, MeaningInv, NEW t \in Threads, Building(t, "value"),
           \E e, frame : LocalStep(t, e, frame),
           NEW err \in BOOLEAN, NEW parts \in SUBSET Part,
           AppendField(t, err, parts),
           NEW f, f = schema[evals[Top(t).id].of].fields[Top(t).next],
           err <=> Promise!BrokenField(f),
           ~err =>
              /\ Slots(parts, {"cel", "unwrapped cel"}) = Promise!RulesOf(f).cel
              /\ Slots(parts, {"std", "unwrapped std"}) = Promise!RulesOf(f).std
              /\ Promise!Embeds(f) <=> \E p \in parts : p.op = "embed"
              /\ Promise!Embeds(f) => /\ Top(t).embeds \in DOMAIN evals
                                      /\ evals[Top(t).embeds].of = f.target
              /\ Promise!Checked(f) <=> f.required \/ parts # {}
    PROVE  MeaningInv'
<1>1. PICK old : old = evals[Top(t).id]
  OBVIOUS
<1>2. PICK embeds : embeds = IF \E p \in parts : p.op = "embed"
                             THEN Top(t).embeds ELSE None
  OBVIOUS
<1>3. PICK g : g = [index |-> Top(t).next, err |-> err,
                    required |-> f.required, ignore |-> FieldIgnore(f),
                    parts |-> parts, embeds |-> embeds]
  OBVIOUS
<1>4. PICK frame : frame = [Top(t) EXCEPT !.at = "fields", !.todo = << >>,
                                          !.next = @ + 1]
  OBVIOUS
<1>5. PICK e : e = [old EXCEPT !.fields = Append(@, g)]
  OBVIOUS
<1>6. /\ stack' = Top1(t, frame)
      /\ IF ~f.required /\ parts = {} /\ ~err THEN evals' = evals
         ELSE evals' = [evals EXCEPT ![Top(t).id] = e]
  BY <1>1, <1>2, <1>3, <1>4, <1>5 DEF AppendField, Described
<1>7. /\ stack[t] # << >> /\ Top(t).at = "value" /\ f \in Field
      /\ Top(t).next \in DOMAIN schema[old.of].fields
      /\ schema[old.of].fields \in Seq(Field)
  BY <1>1, ValueProgress
<1>8. /\ Top(t) \in Frame /\ TypeOK /\ StackInv /\ old \in Evaluator
      /\ ProgressOn(old, Top(t)) /\ evals = [evals EXCEPT ![Top(t).id] = old]
  BY <1>1, <1>7, TopProgress
<1>9. /\ frame.at = "fields" /\ frame.next = Top(t).next + 1
      /\ Top(t).next \in Nat /\ Top(t).embeds \in Nat
  BY <1>4, <1>8 DEF Frame
<1>10. /\ FieldsMean(old, Top(t).next) /\ MessageMeans(old) /\ OneofsMean(old)
       /\ (old.rules <=> schema[old.of].exprs = "some")
  BY <1>7, <1>8 DEF ProgressOn
<1>11. DOMAIN schema[old.of].fields \subseteq Nat
  <2>1. PICK fields \in Seq(Field) : fields = schema[old.of].fields
    BY <1>7
  <2> QED  BY <2>1, SeqDomain
<1>12. CASE ~f.required /\ parts = {} /\ ~err
  <2>1. ~Promise!Checked(schema[old.of].fields[Top(t).next])
    BY <1>1, <1>12
  <2>2. FieldsMean(old, frame.next)
    BY <1>9, <1>10, <1>11, <2>1, FieldSkipped
  <2>3. ProgressOn(old, frame)
    BY <1>9, <1>10, <2>2 DEF ProgressOn
  <2>4. LocalStep(t, old, frame)
    BY <1>6, <1>8, <1>12, LocalIs
  <2> QED  BY <2>3, <2>4, LocalMeans
<1>13. CASE ~(~f.required /\ parts = {} /\ ~err)
  <2>1. Promise!Checked(f)
    BY <1>13 DEF Promise!Checked
  <2>2. /\ g.index = Top(t).next /\ g.err = err /\ g.required = f.required
        /\ g.ignore = FieldIgnore(f) /\ g.parts = parts /\ g.embeds = embeds
    BY <1>3
  <2>3. embeds \in Nat
    BY <1>2, <1>9 DEF None
  <2>4. g \in FieldEvaluator
    BY <1>3, <1>7, <1>9, <2>3, FieldTypes DEF FieldEvaluator
  <2>5. FieldMeans(g, f)
    <3>1. ASSUME ~err
          PROVE  IF Promise!Embeds(f)
                 THEN embeds \in DOMAIN evals /\ evals[embeds].of = f.target
                 ELSE embeds = None
      BY <1>2, <3>1
    <3> QED  BY <2>2, <3>1 DEF FieldMeans
  <2>6. /\ e.of = old.of /\ e.fields = Append(old.fields, g)
        /\ e.rules = old.rules /\ e.err = old.err /\ e.oneofs = old.oneofs
        /\ e.required = old.required
    BY <1>5, <1>8 DEF Evaluator
  <2>7. FieldsMean(e, frame.next)
    <3>1. /\ Promise!Checked(schema[old.of].fields[Top(t).next])
          /\ FieldMeans(g, schema[old.of].fields[Top(t).next])
      BY <1>1, <2>1, <2>5
    <3>2. FieldsMean(e, Top(t).next + 1)
      BY <1>7, <1>8, <1>9, <1>10, <1>11, <2>2, <2>4, <2>6, <3>1, FieldAppended
    <3> QED  BY <1>9, <3>2
  <2>8. MessageMeans(e)
    BY <1>10, <2>6 DEF MessageMeans
  <2>9. OneofsMean(e)
    BY <1>10, <2>6 DEF OneofsMean
  <2>10. ProgressOn(e, frame)
    BY <1>9, <1>10, <2>6, <2>7, <2>8, <2>9 DEF ProgressOn
  <2>11. LocalStep(t, e, frame)
    BY <1>6, <1>8, <1>13, LocalIs
  <2> QED  BY <2>10, <2>11, LocalMeans
<1> QED  BY <1>12, <1>13

LEMMA FieldCarried ==
    ASSUME IInv, MeaningInv, AllCarried, NEW t \in Threads,
           Building(t, "value"),
           NEW f, f = schema[evals[Top(t).id].of].fields[Top(t).next]
    PROVE  Carried(f)
<1>1. PICK e : e = evals[Top(t).id]
  OBVIOUS
<1>2. Top(t).next \in DOMAIN schema[e.of].fields /\ stack[t] # << >>
  BY <1>1, ValueProgress
<1>3. e \in Evaluator /\ schema \in Schemas
  BY <1>1, <1>2, TopProgress DEF MeaningInv
<1>4. e.of \in Messages
  BY <1>3 DEF Evaluator
<1> QED  BY <1>1, <1>2, <1>3, <1>4 DEF AllCarried

LEMMA FinishFieldMeans ==
    ASSUME IInv, MeaningInv, AllCarried, NEW t \in Threads, FinishField(t)
    PROVE  MeaningInv'
<1>1. /\ Building(t, "value") /\ Top(t).todo = << >>
      /\ AppendField(t, FALSE, Top(t).parts)
  BY DEF FinishField
<1>2. PICK f : f = schema[evals[Top(t).id].of].fields[Top(t).next]
  OBVIOUS
<1>3. stack[t] # << >> /\ f \in Field /\ ValueMeans(Top(t), f)
  BY <1>1, <1>2, ValueProgress
<1>4. Carried(f)
  BY <1>1, <1>2, FieldCarried
<1>5. TypeOK /\ StackInv /\ Top(t).parts \in SUBSET Part
  BY <1>3, TopProgress DEF Frame
<1>6. \E e, frame : LocalStep(t, e, frame)
  BY <1>5, FinishFieldIsLocal
<1>7. Steps(Top(t).todo) = {}
  BY <1>1, StepsShort
<1>8. /\ ~Promise!BrokenField(f)
      /\ Slots(Top(t).parts, {"cel", "unwrapped cel"}) = Promise!RulesOf(f).cel
      /\ Slots(Top(t).parts, {"std", "unwrapped std"}) = Promise!RulesOf(f).std
      /\ Promise!Embeds(f) <=> \E p \in Top(t).parts : p.op = "embed"
      /\ Promise!Embeds(f) => /\ Top(t).embeds \in DOMAIN evals
                              /\ evals[Top(t).embeds].of = f.target
      /\ Promise!Checked(f) <=> f.required \/ Top(t).parts # {}
  <2>1. PICK frame : frame = Top(t)
    OBVIOUS
  <2> QED  BY <1>3, <1>4, <1>7, <2>1, FieldDone
<1> QED  BY <1>1, <1>2, <1>5, <1>6, <1>8, AppendMeans

LEMMA FailedFieldMeans ==
    ASSUME IInv, MeaningInv, NEW t \in Threads, Building(t, "value"),
           Top(t).todo # << >>, \E e, frame : LocalStep(t, e, frame),
           AppendField(t, TRUE, Kept(Top(t).parts)),
           NEW s, s = Head(Top(t).todo),
           \/ s.part.op # "embed" /\ s.outcome = "error"
           \/ s.part.op = "embed" /\ Promise!Broken(s.target)
    PROVE  MeaningInv'
<1>1. PICK f : f = schema[evals[Top(t).id].of].fields[Top(t).next]
  OBVIOUS
<1>2. /\ stack[t] # << >> /\ f \in Field /\ s \in Steps(FieldPlan(f))
  BY <1>1, ValueProgress
<1>3. Kept(Top(t).parts) \in SUBSET Part
  BY <1>2, TopProgress DEF Frame, Kept
<1>4. Promise!BrokenField(f)
  BY <1>2, FieldFails
<1> QED  BY <1>1, <1>3, <1>4, AppendMeans

LEMMA FailRulesMean ==
    ASSUME IInv, MeaningInv, NEW t \in Threads, FailRules(t)
    PROVE  MeaningInv'
<1>1. TypeOK /\ StackInv
  BY DEF IInv
<1>2. \E e, frame : LocalStep(t, e, frame)
  BY <1>1, FailRulesIsLocal
<1> QED  BY <1>2, FailedFieldMeans DEF FailRules

(* The Err of an evaluator in the map being filled is that of its message, *)
(* even while the evaluator is being filled in itself.                     *)
LEMMA FilledErr ==
    ASSUME IInv, MeaningInv, NEW t \in Threads, Building(t, "value"),
           NEW d \in Messages, NEW id, id = caches[cache[t]][d], id # None
    PROVE  /\ id \in DOMAIN evals /\ evals[id].of = d
           /\ evals[id].err <=> Promise!Broken(d)
<1>1. /\ stack[t] # << >> /\ pc[t] = "build" /\ Top(t).at = "value" /\ Filling(t)
      /\ TypeOK /\ StackInv /\ EntryInv
  BY DEF Building, Filling, Owns, IInv
<1>2. cache[t] \in DOMAIN caches
  BY <1>1, FilledMap
<1>3. id \in DOMAIN evals /\ evals[id].of = d
  BY <1>1, <1>2 DEF TypeOK, EntryInv
<1>4. MessageMeans(evals[id])
  <2>1. CASE Complete(evals[id])
    BY <2>1 DEF Complete
  <2>2. CASE Unfinished(id)
    <3>1. PICK u \in Threads : \E k \in DOMAIN stack[u] : stack[u][k].id = id
      BY <2>2 DEF Unfinished
    <3>2. u = t
      BY <1>1, <3>1, FillsAlone
    <3>3. PICK k \in DOMAIN stack[t] : stack[t][k].id = id
      BY <3>1, <3>2
    <3>4. stack[t][k].at = "value"
      <4>1. CASE k = Len(stack[t])
        BY <1>1, <4>1 DEF Top
      <4>2. CASE k # Len(stack[t])
        BY <4>2 DEF MeaningInv
      <4> QED  BY <4>1, <4>2
    <3>5. ProgressOn(evals[id], stack[t][k])
      BY <3>3 DEF MeaningInv, Progress
    <3> QED  BY <3>4, <3>5 DEF ProgressOn
  <2> QED  BY <1>3, <2>1, <2>2 DEF MeaningInv
<1> QED  BY <1>3, <1>4 DEF MessageMeans

LEMMA EmbedMessageMeans ==
    ASSUME IInv, MeaningInv, NEW t \in Threads, EmbedMessage(t)
    PROVE  MeaningInv'
<1>1. Building(t, "value") /\ Top(t).todo # << >>
  BY DEF EmbedMessage
<1>2. PICK e : e = evals[Top(t).id]
  OBVIOUS
<1>3. PICK f : f = schema[e.of].fields[Top(t).next]
  OBVIOUS
<1>4. PICK s : s = Head(Top(t).todo)
  OBVIOUS
<1>5. PICK id : id = caches[cache[t]][s.target]
  OBVIOUS
<1>6. PICK frame : frame = [Top(t) EXCEPT !.todo = Tail(@), !.embeds = id,
                                          !.parts = @ \cup {s.part}]
  OBVIOUS
<1>7. /\ s.part.op = "embed" /\ id # None
      /\ \/ evals[id].err /\ AppendField(t, TRUE, Kept(Top(t).parts))
         \/ ~evals[id].err /\ stack' = Top1(t, frame) /\ evals' = evals
  <2>1. /\ s.part.op = "embed" /\ id # None
        /\ IF evals[id].err
           THEN AppendField(t, TRUE, Kept(Top(t).parts))
           ELSE /\ stack' = Top1(t, frame)
                /\ UNCHANGED <<caches, evals, pc, result>>
                /\ BuildFrame
    BY <1>4, <1>5, <1>6, ZenonT(60) DEF EmbedMessage
  <2> QED  BY <2>1
<1>8. /\ stack[t] # << >> /\ Top(t).at = "value" /\ f \in Field
      /\ ValueMeans(Top(t), f) /\ Top(t).todo \in Seq(Step)
      /\ s \in Steps(FieldPlan(f)) /\ s \in Step
  BY <1>1, <1>2, <1>3, <1>4, ValueProgress
<1>9. Top(t) \in Frame /\ TypeOK /\ StackInv /\ CloneInv
  BY <1>8, TopProgress DEF IInv
<1>10. \E e2, frame2 : LocalStep(t, e2, frame2)
  BY <1>9, EmbedMessageIsLocal
<1>11. s.target \in Messages /\ s.outcome = "some"
  BY <1>7, <1>8, PlanFacts DEF Step
<1>12. /\ id \in DOMAIN evals /\ evals[id].of = s.target
       /\ evals[id].err <=> Promise!Broken(s.target)
  BY <1>1, <1>5, <1>7, <1>11, FilledErr
<1>13. CASE evals[id].err /\ AppendField(t, TRUE, Kept(Top(t).parts))
  BY <1>1, <1>4, <1>7, <1>10, <1>12, <1>13, FailedFieldMeans
<1>14. CASE ~evals[id].err /\ stack' = Top1(t, frame) /\ evals' = evals
  <2>1. /\ frame.at = "value" /\ frame.next = Top(t).next
        /\ frame.todo = Tail(Top(t).todo)
        /\ frame.parts = Top(t).parts \cup {s.part} /\ frame.embeds = id
    BY <1>6, <1>8, <1>9 DEF Frame
  <2>2. ValueMeans(frame, f)
    BY <1>1, <1>4, <1>7, <1>8, <1>11, <1>12, <1>14, <2>1, StepDone
  <2> QED  BY <1>1, <1>2, <1>3, <1>10, <1>14, <2>1, <2>2, ValueMoves
<1> QED  BY <1>7, <1>13, <1>14

-----------------------------------------------------------------------------
(* Steps that begin or end a build call.                                   *)

(* An evaluator nothing has been put into yet.                             *)
LEMMA NewProgress ==
    ASSUME TypeOK, NEW d \in Messages, NEW id
    PROVE  ProgressOn(EmptyMessage(d), NewFrame(id))
<1>1. PICK fields : fields = schema[d].fields
  OBVIOUS
<1>2. fields \in Seq(Field)
  BY <1>1 DEF TypeOK, Message
<1>3. \A i \in DOMAIN fields : ~(i < 1)
  <2>1. DOMAIN fields = 1..Len(fields) /\ Len(fields) \in Nat
    BY <1>2
  <2> QED  BY <2>1
<1>4. /\ EmptyMessage(d).of = d /\ EmptyMessage(d).fields = << >>
      /\ NewFrame(id).at = "expressions" /\ NewFrame(id).next = 1
  BY DEF EmptyMessage, NewFrame
<1>5. FieldsMean(EmptyMessage(d), 1)
  <2>1. PICK e : e = EmptyMessage(d)
    OBVIOUS
  <2>2. DOMAIN e.fields = {} /\ e.of = d
    BY <1>4, <2>1
  <2>3. FieldsMean(e, 1)
    BY <1>1, <1>3, <2>2 DEF FieldsMean
  <2> QED  BY <2>1, <2>3
<1> QED  BY <1>4, <1>5 DEF ProgressOn

LEMMA GrowMeans ==
    ASSUME IInv, MeaningInv, NEW t \in Threads, NEW d \in Messages,
           schema' = schema, evals' = Append(evals, EmptyMessage(d)),
           \A u \in Threads \ {t} : stack'[u] = << >> /\ stack[u] = << >>,
           Len(stack[t]) \in Nat, DOMAIN stack[t] = 1..Len(stack[t]),
           DOMAIN stack'[t] = DOMAIN stack[t] \cup {Len(stack[t]) + 1},
           Len(stack'[t]) = Len(stack[t]) + 1,
           \A k \in DOMAIN stack[t] : stack'[t][k] = stack[t][k],
           stack'[t][Len(stack[t]) + 1] = NewFrame(Len(evals) + 1),
           stack[t] # << >> => Top(t).at = "value"
    PROVE  MeaningInv'
<1> DEFINE new == Len(evals) + 1
           top == Len(stack[t]) + 1
<1>1. /\ TypeOK /\ StackInv
      /\ DOMAIN evals' = DOMAIN evals \cup {new} /\ new \notin DOMAIN evals
      /\ \A i \in DOMAIN evals : evals'[i] = evals[i]
      /\ evals'[new] = EmptyMessage(d)
      /\ NewFrame(new).id = new
  <2>1. TypeOK /\ StackInv /\ evals \in Seq(Evaluator)
    BY DEF IInv, TypeOK
  <2>2. evals'[new] = EmptyMessage(d)
    BY <2>1
  <2> QED  BY <2>1, <2>2, NewEvaluator DEF NewFrame
<1>2. HeapGrows
  BY <1>1 DEF HeapGrows
<1>3. /\ schema \in Schemas
      /\ \A i \in DOMAIN evals : Unfinished(i) \/ Complete(evals[i])
      /\ \A k \in DOMAIN stack[t] :
            /\ Progress(stack[t][k])
            /\ stack[t][k].at = "value"
            /\ \A l \in DOMAIN stack[t] : stack[t][l].id = stack[t][k].id => l = k
  <2>1. \A k \in DOMAIN stack[t] : stack[t][k].at = "value"
    <3> SUFFICES ASSUME NEW k \in DOMAIN stack[t] PROVE stack[t][k].at = "value"
      OBVIOUS
    <3>1. CASE k = Len(stack[t])
      <4>1. stack[t] # << >>
        OBVIOUS
      <4> QED  BY <3>1, <4>1 DEF Top
    <3>2. CASE k # Len(stack[t])
      BY <3>2 DEF MeaningInv
    <3> QED  BY <3>1, <3>2
  <2> QED  BY <2>1 DEF MeaningInv
<1>4. \A k \in DOMAIN stack[t] : stack[t][k].id \in DOMAIN evals
  BY <1>1 DEF StackInv
<1>5. top \notin DOMAIN stack[t] /\ top \in DOMAIN stack'[t] /\ Len(stack'[t]) = top
      /\ stack'[t][top] = NewFrame(new)
  OBVIOUS
<1> HIDE DEF new, top
<1>6. ASSUME NEW k \in DOMAIN stack'[t] PROVE Progress(stack[t][k])'
  <2>1. CASE k \in DOMAIN stack[t]
    <3>1. PICK frame : frame = stack[t][k]
      OBVIOUS
    <3>2. PICK g : g = evals[frame.id]
      OBVIOUS
    <3>3. ProgressOn(g, frame)
      BY <1>3, <2>1, <3>1, <3>2 DEF Progress
    <3>4. ProgressOn(g, frame)'
      BY <1>2, <3>3, ProgressKept
    <3>5. evals'[frame.id] = g /\ stack'[t][k] = frame
      BY <1>1, <1>4, <2>1, <3>1, <3>2
    <3> QED  BY <3>4, <3>5 DEF Progress
  <2>2. CASE k = top
    <3>1. PICK frame, g : frame = NewFrame(new) /\ g = EmptyMessage(d)
      OBVIOUS
    <3>2. ProgressOn(g, frame)
      BY <1>1, <3>1, NewProgress
    <3>3. ProgressOn(g, frame)'
      BY <1>2, <3>2, ProgressKept
    <3>4. evals'[frame.id] = g /\ stack'[t][k] = frame
      BY <1>1, <1>5, <2>2, <3>1
    <3> QED  BY <3>3, <3>4 DEF Progress
  <2> QED  BY <1>6, <2>1, <2>2 DEF top
<1>7. ASSUME NEW i \in DOMAIN evals' PROVE Unfinished(i)' \/ Complete(evals[i])'
  <2>1. CASE i = new
    <3>1. stack'[t][top].id = i
      BY <1>1, <1>5, <2>1
    <3> QED  BY <1>5, <3>1 DEF Unfinished
  <2>2. CASE i # new
    <3>1. PICK g : g = evals[i]
      OBVIOUS
    <3>2. Complete(g) => Complete(g)'
      BY <1>2, MeansKept
    <3>3. Unfinished(i) => Unfinished(i)'
      <4>1. SUFFICES ASSUME Unfinished(i)
                     PROVE \E u \in Threads : \E k \in DOMAIN stack'[u] : stack'[u][k].id = i
        BY DEF Unfinished
      <4>2. PICK u \in Threads : \E k \in DOMAIN stack[u] : stack[u][k].id = i
        BY <4>1 DEF Unfinished
      <4>3. u = t
        BY <4>2
      <4>4. PICK k \in DOMAIN stack[t] : stack[t][k].id = i
        BY <4>2, <4>3
      <4>5. k \in DOMAIN stack'[t] /\ stack'[t][k].id = i
        BY <4>4
      <4> QED  BY <4>5
    <3>4. evals'[i] = g /\ i \in DOMAIN evals
      BY <1>1, <1>7, <2>2, <3>1
    <3> QED  BY <1>3, <3>1, <3>2, <3>3, <3>4
  <2> QED  BY <2>1, <2>2
<1>8. ASSUME NEW k \in DOMAIN stack'[t], NEW l \in DOMAIN stack'[t],
             stack'[t][l].id = stack'[t][k].id
      PROVE  l = k
  <2>1. \A j \in DOMAIN stack'[t] :
          \/ j \in DOMAIN stack[t] /\ stack'[t][j] = stack[t][j]
             /\ stack'[t][j].id \in DOMAIN evals
          \/ j = top /\ stack'[t][j].id = new
    BY <1>1, <1>4, <1>5 DEF top
  <2>2. CASE k \in DOMAIN stack[t] /\ stack'[t][k] = stack[t][k]
    <3>1. stack'[t][l].id \in DOMAIN evals
      BY <1>4, <1>8, <2>2
    <3>2. stack'[t][l].id # new
      BY <1>1, <3>1
    <3>3. l \in DOMAIN stack[t] /\ stack'[t][l] = stack[t][l]
      BY <1>8, <2>1, <3>2
    <3> QED  BY <1>3, <1>8, <2>2, <3>3
  <2>3. CASE k = top /\ stack'[t][k].id = new
    <3>1. stack'[t][l].id \notin DOMAIN evals
      BY <1>1, <1>8, <2>3
    <3> QED  BY <1>8, <2>1, <2>3, <3>1
  <2> QED  BY <1>8, <2>1, <2>2, <2>3
<1>9. ASSUME NEW k \in DOMAIN stack'[t], k # top
      PROVE  stack'[t][k].at = "value"
  BY <1>3, <1>9 DEF top
<1>10. ASSUME NEW u \in Threads, NEW k \in DOMAIN stack'[u]
       PROVE  /\ Progress(stack[u][k])'
              /\ k # Len(stack'[u]) => stack'[u][k].at = "value"
              /\ \A l \in DOMAIN stack'[u] :
                    stack'[u][l].id = stack'[u][k].id => l = k
  <2>1. u = t
    BY <1>10
  <2>2. k \in DOMAIN stack'[t]
    BY <1>10, <2>1
  <2>3. Progress(stack[t][k])'
    BY <1>6, <2>2
  <2>4. /\ k # Len(stack'[t]) => stack'[t][k].at = "value"
        /\ \A l \in DOMAIN stack'[t] : stack'[t][l].id = stack'[t][k].id => l = k
    BY <1>5, <1>8, <1>9, <2>2
  <2> QED  BY <2>1, <2>3, <2>4
<1> QED  BY <1>3, <1>7, <1>10 DEF MeaningInv

LEMMA StartBuildMeans ==
    ASSUME IInv, MeaningInv, NEW t \in Threads, Filling(t), NEW d \in Messages,
           StartBuild(t, cache[t], d), schema' = schema,
           stack[t] # << >> => Top(t).at = "value"
    PROVE  MeaningInv'
<1>1. TypeOK /\ cache[t] \in DOMAIN caches /\ stack[t] \in Seq(Frame)
  BY FilledMap DEF IInv, TypeOK
<1>2. /\ \A u \in Threads \ {t} : stack'[u] = stack[u]
      /\ stack'[t] = Append(stack[t], NewFrame(Len(evals) + 1))
      /\ DOMAIN stack'[t] = DOMAIN stack[t] \cup {Len(stack[t]) + 1}
      /\ \A k \in DOMAIN stack[t] : stack'[t][k] = stack[t][k]
      /\ stack'[t][Len(stack[t]) + 1] = NewFrame(Len(evals) + 1)
  BY <1>1, StartBuildEffect
<1>3. /\ DOMAIN stack[t] = 1..Len(stack[t]) /\ Len(stack[t]) \in Nat
      /\ Len(stack'[t]) = Len(stack[t]) + 1
  BY <1>1, <1>2
<1>4. \A u \in Threads \ {t} : stack'[u] = << >> /\ stack[u] = << >>
  BY <1>2, FillsAlone
<1>5. evals' = Append(evals, EmptyMessage(d))
  BY DEF StartBuild
<1> QED  BY <1>2, <1>3, <1>4, <1>5, GrowMeans

LEMMA EnterEmbeddedMeans ==
    ASSUME IInv, MeaningInv, NEW t \in Threads, EnterEmbedded(t)
    PROVE  MeaningInv'
<1> DEFINE d == Head(Top(t).todo).target
<1>1. TypeOK /\ StackInv
  BY DEF IInv
<1>2. /\ Building(t, "value") /\ Top(t).todo # << >>
      /\ Head(Top(t).todo).part.op = "embed"
      /\ StartBuild(t, cache[t], d) /\ schema' = schema
  BY DEF EnterEmbedded, BuildFrame
<1>3. d \in Messages
  BY <1>1, <1>2, AtValue DEF Step
<1>4. Filling(t) /\ Top(t).at = "value"
  BY <1>2 DEF Building, Filling, Owns
<1> HIDE DEF d
<1> QED  BY <1>2, <1>3, <1>4, StartBuildMeans

(* Steps that write no evaluator.                                          *)
LEMMA ShrinkMeans ==
    ASSUME MeaningInv, schema' = schema, evals' = evals,
           \A u \in Threads : \A k \in DOMAIN stack'[u] :
              /\ k \in DOMAIN stack[u] /\ stack'[u][k] = stack[u][k]
              /\ k # Len(stack'[u]) => k # Len(stack[u]),
           \A i \in DOMAIN evals :
              Unfinished(i) => Unfinished(i)' \/ Complete(evals[i])
    PROVE  MeaningInv'
<1>1. HeapGrows
  BY DEF HeapGrows
<1>2. ASSUME NEW i \in DOMAIN evals' PROVE Unfinished(i)' \/ Complete(evals[i])'
  <2>1. PICK g : g = evals[i]
    OBVIOUS
  <2>2. Complete(g) => Complete(g)'
    BY <1>1, MeansKept
  <2>3. Unfinished(i)' \/ Complete(g)
    BY <1>2, <2>1 DEF MeaningInv
  <2> QED  BY <2>1, <2>2, <2>3
<1>3. ASSUME NEW u \in Threads, NEW k \in DOMAIN stack'[u]
      PROVE  Progress(stack[u][k])'
  <2>1. PICK frame : frame = stack[u][k]
    OBVIOUS
  <2>2. PICK g : g = evals[frame.id]
    OBVIOUS
  <2>3. ProgressOn(g, frame)
    BY <1>3, <2>1, <2>2 DEF MeaningInv, Progress
  <2>4. ProgressOn(g, frame)'
    BY <1>1, <2>3, ProgressKept
  <2>5. evals'[frame.id] = g /\ stack'[u][k] = frame
    BY <1>3, <2>1, <2>2
  <2> QED  BY <2>4, <2>5 DEF Progress
<1>4. ASSUME NEW u \in Threads, NEW k \in DOMAIN stack'[u]
      PROVE  /\ k # Len(stack'[u]) => stack'[u][k].at = "value"
             /\ \A l \in DOMAIN stack'[u] :
                   stack'[u][l].id = stack'[u][k].id => l = k
  BY <1>4 DEF MeaningInv
<1> QED  BY <1>2, <1>3, <1>4 DEF MeaningInv

LEMMA QuietMeans ==
    ASSUME MeaningInv, UNCHANGED <<schema, evals, stack>>
    PROVE  MeaningInv'
<1>1. \A i : Unfinished(i)' <=> Unfinished(i)
  BY DEF Unfinished
<1> QED  BY <1>1, ShrinkMeans

LEMMA ReturnBuildMeans ==
    ASSUME IInv, MeaningInv, NEW t \in Threads, ReturnBuild(t)
    PROVE  MeaningInv'
<1>1. /\ Building(t, "fields") /\ stack[t] # << >> /\ Top(t).at = "fields"
      /\ pc[t] = "build" /\ Filling(t)
      /\ Top(t).next > Len(schema[evals[Top(t).id].of].fields)
      /\ stack' = [stack EXCEPT ![t] = SubSeq(@, 1, Len(@) - 1)]
      /\ schema' = schema /\ evals' = evals
  BY DEF ReturnBuild, Building, BuildFrame, Filling, Owns, Described
<1>2. PICK e : e = evals[Top(t).id]
  OBVIOUS
<1>3. PICK fields : fields = schema[e.of].fields
  OBVIOUS
<1>4. /\ TypeOK /\ StackInv /\ Top(t) \in Frame /\ fields \in Seq(Field)
      /\ ProgressOn(e, Top(t)) /\ stack \in [Threads -> Seq(Frame)]
  BY <1>1, <1>2, <1>3, TopProgress DEF Message, TypeOK
<1>5. Complete(e)
  <2>1. /\ DOMAIN fields = 1..Len(fields) /\ Len(fields) \in Nat
        /\ Top(t).next \in Nat
    BY <1>4, SeqDomain DEF Frame
  <2>2. \A i \in DOMAIN fields : i < Len(fields) + 1 /\ i < Top(t).next
    BY <1>1, <1>2, <1>3, <2>1
  <2>3. FieldsMean(e, Top(t).next) /\ MessageMeans(e) /\ OneofsMean(e)
        /\ (e.rules <=> schema[e.of].exprs = "some")
    BY <1>1, <1>4 DEF ProgressOn
  <2>4. FieldsMean(e, Len(fields) + 1)
    BY <1>3, <2>2, <2>3 DEF FieldsMean
  <2> QED  BY <1>3, <2>3, <2>4 DEF Complete
<1>6. /\ stack[t] \in Seq(Frame) /\ Len(stack[t]) \in Nat \ {0}
      /\ DOMAIN stack[t] = 1..Len(stack[t])
  BY <1>1, <1>4
<1>7. stack'[t] = SubSeq(stack[t], 1, Len(stack[t]) - 1)
  BY <1>1, <1>4
<1>8. /\ DOMAIN stack'[t] = 1..(Len(stack[t]) - 1)
      /\ Len(stack'[t]) = Len(stack[t]) - 1
      /\ \A k \in 1..(Len(stack[t]) - 1) : stack'[t][k] = stack[t][k]
  BY <1>6, <1>7
<1>9. \A u \in Threads : u # t => stack'[u] = << >> /\ stack[u] = << >>
  BY <1>1, <1>4, FillsAlone
<1>10. ASSUME NEW u \in Threads, NEW k \in DOMAIN stack'[u]
       PROVE  /\ k \in DOMAIN stack[u] /\ stack'[u][k] = stack[u][k]
              /\ k # Len(stack'[u]) => k # Len(stack[u])
  <2>1. u = t
    BY <1>9, <1>10
  <2>2. k \in 1..(Len(stack[t]) - 1)
    BY <1>8, <1>10, <2>1
  <2> QED  BY <1>6, <1>8, <2>1, <2>2
<1>11. ASSUME NEW i \in DOMAIN evals, Unfinished(i)
       PROVE  Unfinished(i)' \/ Complete(evals[i])
  <2>1. PICK u \in Threads : \E k \in DOMAIN stack[u] : stack[u][k].id = i
    BY <1>11 DEF Unfinished
  <2>2. u = t
    BY <1>9, <2>1
  <2>3. PICK k \in DOMAIN stack[t] : stack[t][k].id = i
    BY <2>1, <2>2
  <2>4. CASE k = Len(stack[t])
    BY <1>2, <1>5, <2>3, <2>4 DEF Top
  <2>5. CASE k # Len(stack[t])
    <3>1. k \in DOMAIN stack'[t] /\ stack'[t][k].id = i
      BY <1>6, <1>8, <2>3, <2>5
    <3> QED  BY <3>1 DEF Unfinished
  <2> QED  BY <2>4, <2>5
<1> QED  BY <1>1, <1>10, <1>11, ShrinkMeans

LEMMA CloneMeans ==
    ASSUME IInv, MeaningInv, NEW t \in Loaders, Clone(t)
    PROVE  MeaningInv'
<1>1. /\ t \in Threads /\ t # Constructor /\ pc[t] = "check"
      /\ published # None /\ desc[t] \in Messages
      /\ evals' = Append(evals, EmptyMessage(desc[t]))
      /\ stack' = [stack EXCEPT ![t] = << NewFrame(Len(evals) + 1) >>]
      /\ schema' = schema
  BY LoaderFacts DEF Clone, CloneAndBuild
<1>2. stack \in [Threads -> Seq(Frame)]
  BY DEF IInv, TypeOK
<1>3. \A u \in Threads : pc[u] \notin {"build"}
  BY <1>1 DEF IInv, LockInv, Critical, NewInv, Threads
<1>4. \A u \in Threads : stack[u] = << >>
  BY <1>3 DEF IInv, StackInv
<1>5. \A u \in Threads \ {t} : stack'[u] = << >>
  BY <1>1, <1>2, <1>4
<1>6. stack'[t] = << NewFrame(Len(evals) + 1) >>
  BY <1>1, <1>2
<1>7. /\ Len(stack[t]) = 0 /\ DOMAIN stack[t] = 1..Len(stack[t])
      /\ Len(stack'[t]) = 1 /\ DOMAIN stack'[t] = {1}
      /\ stack'[t][1] = NewFrame(Len(evals) + 1) /\ DOMAIN stack[t] = {}
  BY <1>1, <1>4, <1>6
<1> QED  BY <1>1, <1>4, <1>5, <1>7, GrowMeans

LEMMA SeedMeans ==
    ASSUME IInv, MeaningInv, Seed
    PROVE  MeaningInv'
<1> DEFINE d == Head(seeds)
<1>1. /\ Constructor \in Threads /\ d \in Messages /\ schema' = schema
      /\ pc[Constructor] = "seed"
  BY DEF IInv, TypeOK, Seed, Threads
<1>2. Filling(Constructor) /\ stack[Constructor] = << >>
  BY <1>1 DEF Filling, IInv, StackInv
<1>3. \/ UNCHANGED <<caches, evals, pc, stack>>
      \/ StartBuild(Constructor, cache[Constructor], d)
  BY DEF Seed
<1> HIDE DEF d
<1> QED  BY <1>1, <1>2, <1>3, QuietMeans, StartBuildMeans

-----------------------------------------------------------------------------

LEMMA MeaningInit == Init => MeaningInv
<1> SUFFICES ASSUME Init PROVE MeaningInv
  OBVIOUS
<1>1. /\ schema \in Schemas /\ DOMAIN evals = {}
      /\ \A t \in Threads : stack[t] = << >>
  BY DEF Init
<1> QED  BY <1>1 DEF MeaningInv

LEMMA MeaningNext ==
    ASSUME AllCarried, IInv, MeaningInv, [Next]_vars
    PROVE  MeaningInv'
<1>1. ASSUME NEW t \in Threads, Build(t) PROVE MeaningInv'
  BY <1>1, ExpressionsMean, MessageOneofsMean, ProtoOneofsMean,
     BuildFieldMeans, FinishFieldMeans, CompileRulesMean, FailRulesMean,
     EnterEmbeddedMeans, EmbedMessageMeans, ReturnBuildMeans DEF Build
<1>2. ASSUME NEW t \in Threads,
             \/ Call(t) \/ LoadHit(t) \/ LoadUnknown(t) \/ LoadMiss(t)
             \/ Lock(t) \/ Recheck(t) \/ Store(t) \/ Unlock(t)
      PROVE  UNCHANGED <<schema, evals, stack>>
  BY <1>2 DEF Call, LoadHit, LoadUnknown, LoadMiss, Lock, Recheck, Store, Unlock
<1>3. ASSUME NEW t \in Threads, Clone(t) PROVE MeaningInv'
  <2>1. t \in Loaders
    BY <1>3 DEF Clone, IInv, NewInv, Threads
  <2> QED  BY <1>3, <2>1, CloneMeans
<1>4. CASE UNCHANGED vars \/ Publish
  <2>1. UNCHANGED <<schema, evals, stack>>
    BY <1>4 DEF vars, Publish
  <2> QED  BY <2>1, QuietMeans
<1> QED  BY <1>1, <1>2, <1>3, <1>4, QuietMeans, SeedMeans DEF Next, Run

LEMMA MeaningInvariance ==
    ASSUME AllCarried
    PROVE  Spec => []MeaningInv
<1>1. IInv /\ MeaningInv /\ [Next]_vars => MeaningInv'
  BY MeaningNext
<1> QED  BY <1>1, MeaningInit, Invariance, PTL DEF Spec

-----------------------------------------------------------------------------
(* What a loader knows.                                                    *)

(* A step is one of the loader's own, or leaves it where it is.            *)
LEMMA LoaderStep ==
    ASSUME IInv, [Next]_vars, NEW t \in Loaders
    PROVE  /\ lazy' = lazy /\ schema' = schema
           /\ \/ Call(t) \/ Run(t)
              \/ UNCHANGED <<pc[t], desc[t], result[t]>>
<1>1. /\ t # Constructor /\ t \in Threads
      /\ pc \in [Threads -> PC] /\ desc \in [Threads -> Messages \cup {NoMessage}]
      /\ result \in [Threads -> Nat \cup {Unknown}]
  BY LoaderFacts DEF IInv, TypeOK
<1>2. lazy' = lazy /\ schema' = schema
  <2>1. ASSUME NEW u \in Threads, Build(u) PROVE lazy' = lazy /\ schema' = schema
    BY <2>1 DEF Build, ProcessMessageExpressions, ProcessMessageOneofRules,
       ProcessOneofRules, BuildField, FinishField, CompileRules, FailRules,
       EnterEmbedded, EmbedMessage, ReturnBuild, AppendField, FillIn, BuildFrame
  <2> QED
    BY <2>1 DEF Next, Run, Seed, Publish, Call, LoadHit, LoadUnknown, LoadMiss,
       Lock, Recheck, Clone, Store, Unlock, vars
<1>3. ASSUME NEW u \in Threads, u # t, Build(u)
      PROVE  UNCHANGED <<pc[t], desc[t], result[t]>>
  <2>1. CASE ReturnBuild(u)
    BY <1>1, <1>3, <2>1 DEF ReturnBuild, BuildFrame
  <2>2. CASE ~ReturnBuild(u)
    <3>1. UNCHANGED <<pc, desc, result>>
      BY <1>3, <2>2 DEF Build, ProcessMessageExpressions,
         ProcessMessageOneofRules, ProcessOneofRules, BuildField, FinishField,
         CompileRules, FailRules, EnterEmbedded, EmbedMessage, AppendField,
         FillIn, BuildFrame
    <3> QED  BY <3>1
  <2> QED  BY <2>1, <2>2
<1>4. ASSUME NEW u \in Threads, u # t, Call(u) \/ Run(u)
      PROVE  UNCHANGED <<pc[t], desc[t], result[t]>>
  <2>1. CASE Build(u)
    BY <1>3, <1>4, <2>1
  <2>2. CASE ~Build(u)
    BY <1>1, <1>4, <2>2 DEF Run, Call, LoadHit, LoadUnknown, LoadMiss,
       Lock, Recheck, Clone, Store, Unlock
  <2> QED  BY <2>1, <2>2
<1>5. CASE Seed \/ Publish \/ UNCHANGED vars
  BY <1>1, <1>5 DEF Seed, Publish, vars
<1> QED  BY <1>2, <1>4, <1>5 DEF Next

LEMMA LoaderInit == Init => LoaderInv
<1> SUFFICES ASSUME Init PROVE LoaderInv
  OBVIOUS
<1>1. \A t \in Loaders : pc[t] = "idle"
  BY BuilderAssumption DEF Init, Threads
<1> QED  BY <1>1 DEF LoaderInv, Owns

LEMMA LoaderNext == IInv /\ LoaderInv /\ [Next]_vars => LoaderInv'
<1> SUFFICES ASSUME IInv, LoaderInv, [Next]_vars, NEW t \in Loaders
             PROVE  /\ pc'[t] \notin {"idle", "fast"} => lazy'
                    /\ Owns(t)' => caches'[published'][desc'[t]] = None
                    /\ pc'[t] = "unlock" => result'[t] \notin {None, Unknown}
  BY DEF LoaderInv
<1>1. /\ t # Constructor /\ t \in Threads
      /\ pc[t] # "idle" => published # None /\ desc[t] \in Messages
      /\ pc \in [Threads -> PC] /\ desc \in [Threads -> Messages \cup {NoMessage}]
      /\ result \in [Threads -> Nat \cup {Unknown}]
      /\ caches \in Seq(Cache) /\ Unknown \notin Nat
  BY LoaderFacts, BuilderAssumption DEF IInv, TypeOK
<1>2. /\ pc[t] \notin {"idle", "fast"} => lazy
      /\ Owns(t) => caches[published][desc[t]] = None
      /\ pc[t] = "unlock" => result[t] \notin {None, Unknown}
  BY DEF LoaderInv
<1>3. /\ lazy' = lazy
      /\ \/ Call(t) \/ Run(t)
         \/ UNCHANGED <<pc[t], desc[t], result[t]>>
  BY LoaderStep
<1>4. published # None =>
         /\ published \in DOMAIN caches
         /\ caches'[published] = caches[published]
         /\ published' # published =>
               \E u \in Threads : Owns(u) /\ published' = cache[u]
  BY PublishedStep
<1>5. ASSUME Owns(t), NEW u \in Threads, Owns(u) PROVE u = t
  BY <1>1, <1>5, FillsAlone DEF Filling
<1>6. CASE UNCHANGED <<pc[t], desc[t], result[t]>>
  <2>1. ASSUME Owns(t) PROVE caches'[published'][desc'[t]] = None
    <3>1. published # None
      BY <1>1, <2>1 DEF Owns
    <3>2. published' = published
      <4>1. Store(t) => pc'[t] = "unlock" /\ pc[t] = "store"
        BY <1>1 DEF Store
      <4>2. ~Store(t)
        BY <1>6, <4>1
      <4>3. ASSUME NEW u \in Threads, u # t PROVE ~Store(u)
        <5>1. ~Owns(u)
          BY <1>5, <2>1, <4>3
        <5> QED  BY <5>1 DEF Store, Owns
      <4>4. \A u \in Threads : ~Store(u)
        BY <4>2, <4>3
      <4>5. ~Seed /\ ~Publish
        BY <3>1 DEF IInv, NewInv, Seed, Publish
      <4>6. ASSUME NEW u \in Threads, Build(u) PROVE published' = published
        BY <4>6 DEF Build, ProcessMessageExpressions, ProcessMessageOneofRules,
           ProcessOneofRules, BuildField, FinishField, CompileRules, FailRules,
           EnterEmbedded, EmbedMessage, ReturnBuild, AppendField, FillIn,
           BuildFrame
      <4> QED
        BY <4>4, <4>5, <4>6 DEF Next, Run, Call, LoadHit, LoadUnknown, LoadMiss,
           Lock, Recheck, Clone, Unlock, vars
    <3> QED  BY <1>2, <1>4, <1>6, <2>1, <3>1, <3>2
  <2>2. Owns(t)' => Owns(t)
    BY <1>6 DEF Owns
  <2> QED  BY <1>2, <1>3, <1>6, <2>1, <2>2
<1>7. CASE Build(t)
  <2>1. pc[t] = "build" /\ Owns(t) /\ published # None /\ desc[t] \in Messages
    BY <1>1, <1>7 DEF Build, ProcessMessageExpressions, ProcessMessageOneofRules,
       ProcessOneofRules, BuildField, FinishField, CompileRules, FailRules,
       EnterEmbedded, EmbedMessage, ReturnBuild, Building, Owns
  <2>2. published' = published /\ desc' = desc
    BY <1>7 DEF Build, ProcessMessageExpressions, ProcessMessageOneofRules,
       ProcessOneofRules, BuildField, FinishField, CompileRules, FailRules,
       EnterEmbedded, EmbedMessage, ReturnBuild, AppendField, FillIn, BuildFrame
  <2>3. pc' = pc \/ pc'[t] = "store"
    <3>1. CASE ReturnBuild(t)
      BY <1>1, <3>1 DEF ReturnBuild
    <3>2. CASE ~ReturnBuild(t)
      BY <1>7, <3>2 DEF Build, ProcessMessageExpressions,
         ProcessMessageOneofRules, ProcessOneofRules, BuildField, FinishField,
         CompileRules, FailRules, EnterEmbedded, EmbedMessage, AppendField,
         FillIn, BuildFrame
    <3> QED  BY <3>1, <3>2
  <2> QED  BY <1>2, <1>3, <1>4, <2>1, <2>2, <2>3
<1>8. CASE Clone(t)
  <2>1. /\ pc[t] = "check" /\ caches[published][desc[t]] = None
        /\ published' = published /\ desc' = desc /\ pc'[t] = "build"
    BY <1>1, <1>8 DEF Clone
  <2> QED  BY <1>1, <1>2, <1>3, <1>4, <2>1
<1>9. CASE Recheck(t)
  <2>1. /\ pc[t] = "check" /\ caches[published][desc[t]] # None
        /\ pc'[t] = "unlock" /\ result'[t] = caches[published][desc[t]]
    BY <1>1, <1>9 DEF Recheck
  <2>2. caches[published] \in Cache
    BY <1>1, <1>4, <2>1
  <2>3. caches[published][desc[t]] \in Nat
    BY <1>1, <2>1, <2>2 DEF Cache
  <2> QED  BY <1>1, <1>2, <1>3, <2>1, <2>3 DEF Owns
<1>10. CASE Store(t)
  <2>1. pc[t] = "store" /\ pc'[t] = "unlock" /\ result' = result
    BY <1>1, <1>10 DEF Store
  <2>2. result[t] # None /\ result[t] = caches[cache[t]][desc[t]]
    BY <2>1 DEF IInv, ResultInv
  <2>3. cache[t] \in DOMAIN caches
    BY <1>1, <2>1, FilledMap DEF Filling, Owns
  <2>4. caches[cache[t]] \in Cache
    BY <1>1, <2>3
  <2>5. caches[cache[t]][desc[t]] \in Nat
    BY <1>1, <2>1, <2>4 DEF Cache
  <2> QED  BY <1>1, <1>2, <1>3, <2>1, <2>2, <2>5 DEF Owns
<1>11. CASE LoadMiss(t) \/ Lock(t)
  <2>1. lazy /\ pc'[t] \in {"lock", "check"}
    BY <1>1, <1>2, <1>11 DEF LoadMiss, Lock
  <2> QED  BY <1>3, <2>1 DEF Owns
<1>12. CASE Call(t) \/ LoadHit(t) \/ LoadUnknown(t) \/ Unlock(t)
  <2>1. pc'[t] \in {"idle", "fast"}
    BY <1>1, <1>12 DEF Call, LoadHit, LoadUnknown, Unlock
  <2> QED  BY <2>1 DEF Owns
<1> QED
  BY <1>3, <1>6, <1>7, <1>8, <1>9, <1>10, <1>11, <1>12 DEF Run

LEMMA LoaderInvariance == Spec => []LoaderInv
BY LoaderInit, LoaderNext, Invariance, PTL DEF Spec

(* With lazy building disabled (builder.go:83-91) every Load ends on the   *)
(* lock-free read, whatever is asked for: what New published is neither    *)
(* added to nor replaced.                                                  *)
THEOREM DisabledBuildsNothing == Spec => NoBuildWhenDisabled
<1>1. ASSUME IInv, LoaderInv, [Next]_vars, published # None, ~lazy
      PROVE  UNCHANGED <<published, caches, evals>>
  <2>1. /\ \A t \in Loaders : pc[t] \in {"idle", "fast"}
        /\ pc[Constructor] = "idle"
    BY <1>1 DEF LoaderInv, IInv, NewInv
  <2>2. ~Seed /\ ~Publish
    BY <2>1 DEF Seed, Publish
  <2>3. ASSUME NEW t \in Threads, Build(t) PROVE FALSE
    <3>1. pc[t] = "build"
      BY <2>3 DEF Build, ProcessMessageExpressions, ProcessMessageOneofRules,
         ProcessOneofRules, BuildField, FinishField, CompileRules, FailRules,
         EnterEmbedded, EmbedMessage, ReturnBuild, Building
    <3> QED  BY <2>1, <3>1 DEF Threads
  <2>4. ASSUME NEW t \in Threads, Lock(t) \/ Recheck(t) \/ Clone(t) \/ Store(t)
        PROVE  FALSE
    <3>1. pc[t] \in {"lock", "check", "store"}
      BY <2>4 DEF Lock, Recheck, Clone, Store
    <3> QED  BY <2>1, <3>1 DEF Threads
  <2> QED
    BY <1>1, <2>2, <2>3, <2>4 DEF Next, Run, Call, LoadHit, LoadUnknown,
       LoadMiss, Unlock, vars
<1>2. IInv /\ LoaderInv /\ [Next]_vars =>
         [(published # None /\ ~lazy)
             => UNCHANGED <<published, caches, evals>>]_vars
  BY <1>1
<1> QED  BY <1>2, LoaderInvariance, Invariance, PTL DEF Spec, NoBuildWhenDisabled

-----------------------------------------------------------------------------
(* What is published is read as what its descriptor means.                 *)

LEMMA ViewOfField ==
    ASSUME NEW g \in FieldEvaluator, NEW f \in Field, FieldMeans(g, f),
           TypeOK, published # None,
           PointedIn(caches[published], evals, g.embeds)
    PROVE  FieldView(g) = Promise!FieldMeaning(g.index, f)
<1>1. /\ g.required = f.required /\ g.ignore = FieldIgnore(f)
      /\ g.err <=> Promise!BrokenField(f)
      /\ g.err \in BOOLEAN
  BY DEF FieldMeans, FieldEvaluator
<1>2. g.err = Promise!BrokenField(f)
  <2>1. Promise!BrokenField(f) \in BOOLEAN
    BY DEF Promise!BrokenField
  <2> QED  BY <1>1, <2>1
<1> DEFINE rules == IF Promise!BrokenField(f) THEN Promise!NoRules
                    ELSE Promise!RulesOf(f)
           embeds == IF Promise!Embeds(f) /\ ~Promise!BrokenField(f)
                     THEN f.target ELSE NoMessage
<1>3. Promise!FieldMeaning(g.index, f) =
        [index |-> g.index, required |-> f.required,
         ignore |-> FieldIgnore(f), err |-> Promise!BrokenField(f),
         rules |-> rules, embeds |-> embeds]
  <2>1. Promise!FieldIgnore(f) = FieldIgnore(f)
    BY DEF Promise!FieldIgnore, FieldIgnore
  <2> QED  BY <2>1 DEF Promise!FieldMeaning
<1>4. CASE g.err
  <2>1. FieldView(g) = [index |-> g.index, required |-> g.required,
                        ignore |-> g.ignore, err |-> g.err,
                        rules |-> [cel |-> {}, std |-> {}],
                        embeds |-> NoMessage]
    BY <1>4 DEF FieldView
  <2>2. Promise!FieldMeaning(g.index, f) =
          [index |-> g.index, required |-> f.required,
           ignore |-> FieldIgnore(f), err |-> Promise!BrokenField(f),
           rules |-> [cel |-> {}, std |-> {}], embeds |-> NoMessage]
    <3>1. rules = [cel |-> {}, std |-> {}] /\ embeds = NoMessage
      BY <1>1, <1>4 DEF Promise!NoRules
    <3> HIDE DEF rules, embeds
    <3> QED  BY <1>3, <3>1
  <2> QED  BY <1>1, <1>2, <2>1, <2>2
<1>5. CASE ~g.err
  <2>1. /\ Slots(g.parts, {"cel", "unwrapped cel"}) = Promise!RulesOf(f).cel
        /\ Slots(g.parts, {"std", "unwrapped std"}) = Promise!RulesOf(f).std
        /\ IF Promise!Embeds(f)
           THEN g.embeds \in DOMAIN evals /\ evals[g.embeds].of = f.target
           ELSE g.embeds = None
    BY <1>5 DEF FieldMeans
  <2>2. Target(g.embeds) = IF Promise!Embeds(f) THEN f.target ELSE NoMessage
    <3>1. CASE Promise!Embeds(f)
      <4>1. g.embeds \in DOMAIN evals /\ evals[g.embeds].of = f.target
        BY <2>1, <3>1
      <4>2. g.embeds # None
        BY <4>1, HeapFacts
      <4> QED  BY <3>1, <4>1, <4>2 DEF Target, PointedIn
    <3>2. CASE ~Promise!Embeds(f)
      BY <2>1, <3>2 DEF Target
    <3> QED  BY <3>1, <3>2
  <2>3. Promise!RulesOf(f) = [cel |-> Promise!RulesOf(f).cel,
                              std |-> Promise!RulesOf(f).std]
    BY DEF Promise!RulesOf
  <2>4. FieldView(g) = [index |-> g.index, required |-> g.required,
                        ignore |-> g.ignore, err |-> g.err,
                        rules |-> [cel |-> Slots(g.parts, {"cel", "unwrapped cel"}),
                                   std |-> Slots(g.parts, {"std", "unwrapped std"})],
                        embeds |-> Target(g.embeds)]
    BY <1>5 DEF FieldView
  <2>5. Promise!FieldMeaning(g.index, f) =
          [index |-> g.index, required |-> f.required,
           ignore |-> FieldIgnore(f), err |-> Promise!BrokenField(f),
           rules |-> Promise!RulesOf(f),
           embeds |-> IF Promise!Embeds(f) THEN f.target ELSE NoMessage]
    <3>1. /\ rules = Promise!RulesOf(f)
          /\ embeds = IF Promise!Embeds(f) THEN f.target ELSE NoMessage
      BY <1>1, <1>5
    <3> HIDE DEF rules, embeds
    <3> QED  BY <1>3, <3>1
  <2> QED  BY <1>1, <1>2, <2>1, <2>2, <2>3, <2>4, <2>5
<1> QED  BY <1>1, <1>4, <1>5

LEMMA PublishedMeans ==
    ASSUME IInv, ClosedInv, MeaningInv, published # None,
           NEW d \in Messages, caches[published][d] # None
    PROVE  View(caches[published][d]) = Promise!Meaning(d)
<1>1. PICK id : id = caches[published][d]
  OBVIOUS
<1>2. PICK e : e = evals[id]
  OBVIOUS
<1>3. PICK m : m = schema[d]
  OBVIOUS
<1>4. /\ TypeOK /\ published \in DOMAIN caches /\ id \in DOMAIN evals
      /\ id # None /\ e.of = d /\ e \in Evaluator /\ m \in Message
      /\ id \in PublishedEvals
  BY <1>1, <1>2, <1>3 DEF IInv, TypeOK, CloneInv, EntryInv, PublishedEvals
<1>5. Complete(e)
  <2>1. ~Unfinished(id)
    BY <1>4 DEF Unfinished, IInv, StackInv
  <2> QED  BY <1>2, <1>4, <2>1 DEF MeaningInv
<1>6. /\ e.rules <=> m.exprs = "some"
      /\ e.err <=> Promise!Broken(d)
      /\ ~e.err => e.oneofs = DOMAIN m.oneofs
      /\ e.required = {i \in DOMAIN m.protoOneofs : m.protoOneofs[i]}
      /\ FieldsMean(e, Len(m.fields) + 1)
  BY <1>3, <1>4, <1>5 DEF Complete, MessageMeans, OneofsMean
<1>7. e.err = Promise!Broken(d) /\ e.rules = (m.exprs = "some")
  <2>1. e.err \in BOOLEAN /\ e.rules \in BOOLEAN
    BY <1>4 DEF Evaluator
  <2>2. Promise!Broken(d) \in BOOLEAN
    BY DEF Promise!Broken
  <2> QED  BY <1>6, <2>1, <2>2
<1>8. /\ e.fields \in Seq(FieldEvaluator) /\ m.fields \in Seq(Field)
      /\ DOMAIN m.fields = 1..Len(m.fields) /\ Len(m.fields) \in Nat
  <2>1. e.fields \in Seq(FieldEvaluator) /\ m.fields \in Seq(Field)
    BY <1>4 DEF Evaluator, Message
  <2> QED  BY <2>1, SeqDomain
<1>9. /\ \A k \in DOMAIN e.fields :
            /\ e.fields[k].index \in DOMAIN m.fields
            /\ Promise!Checked(m.fields[e.fields[k].index])
            /\ FieldMeans(e.fields[k], m.fields[e.fields[k].index])
      /\ \A i \in DOMAIN m.fields :
            Promise!Checked(m.fields[i]) => \E k \in DOMAIN e.fields : e.fields[k].index = i
      /\ \A k, l \in DOMAIN e.fields : k < l => e.fields[k].index < e.fields[l].index
  <2>1. \A i \in DOMAIN m.fields : i < Len(m.fields) + 1
    BY <1>8
  <2> QED  BY <1>3, <1>4, <1>6, <2>1 DEF FieldsMean
<1>10. ASSUME NEW k \in DOMAIN e.fields
       PROVE  FieldView(e.fields[k])
                = Promise!FieldMeaning(e.fields[k].index, m.fields[e.fields[k].index])
  <2>1. PointedIn(caches[published], evals, e.fields[k].embeds)
    BY <1>1, <1>2, <1>4 DEF ClosedInv, ClosedMap
  <2>2. e.fields[k] \in FieldEvaluator /\ m.fields[e.fields[k].index] \in Field
    BY <1>8, <1>9
  <2> QED  BY <1>4, <1>9, <2>1, <2>2, ViewOfField
<1> DEFINE checked == {j \in DOMAIN m.fields : Promise!Checked(m.fields[j])}
           views == {FieldView(e.fields[k]) : k \in DOMAIN e.fields}
           meanings == {Promise!FieldMeaning(i, m.fields[i]) : i \in checked}
<1>11. views = meanings
  <2>1. ASSUME NEW k \in DOMAIN e.fields PROVE FieldView(e.fields[k]) \in meanings
    <3>1. e.fields[k].index \in checked
      BY <1>9
    <3> QED  BY <1>10, <3>1
  <2>2. ASSUME NEW i \in checked PROVE Promise!FieldMeaning(i, m.fields[i]) \in views
    <3>1. PICK k \in DOMAIN e.fields : e.fields[k].index = i
      BY <1>9
    <3> QED  BY <1>10, <3>1
  <2> QED  BY <2>1, <2>2
<1>12. (\A k, l \in DOMAIN e.fields :
           k < l => e.fields[k].index < e.fields[l].index) = TRUE
  BY <1>9
<1>13. (IF e.err THEN {} ELSE e.oneofs) = IF Promise!Broken(d) THEN {} ELSE DOMAIN m.oneofs
  BY <1>6
<1>14. View(id) = [err |-> e.err, rules |-> e.rules,
                   oneofs |-> IF e.err THEN {} ELSE e.oneofs,
                   required |-> e.required, fields |-> views, inOrder |-> TRUE]
  BY <1>2, <1>12 DEF View
<1>15. Promise!Meaning(d) =
          [err |-> Promise!Broken(d), rules |-> m.exprs = "some",
           oneofs |-> IF Promise!Broken(d) THEN {} ELSE DOMAIN m.oneofs,
           required |-> {i \in DOMAIN m.protoOneofs : m.protoOneofs[i]},
           fields |-> meanings, inOrder |-> TRUE]
  BY <1>3 DEF Promise!Meaning
<1> HIDE DEF views, meanings
<1> QED  BY <1>1, <1>6, <1>7, <1>11, <1>13, <1>14, <1>15

-----------------------------------------------------------------------------
(* The state of the store, as the builder's state gives it.                *)

(* The messages that are published, and what a loader was answered.        *)
Cached == {d \in Messages : Ready /\ caches[published][d] # None}

Answered(t) ==
    IF pc[t] # "idle" THEN Pending
    ELSE IF result[t] = None THEN Absent
    ELSE IF result[t] = Unknown THEN Unknown
    ELSE Promise!Meaning(desc[t])

StoreInv ==
    /\ Memo = [d \in Messages |-> IF d \in Cached THEN Promise!Meaning(d)
                                  ELSE Absent]
    /\ Reply = [t \in Loaders |-> Answered(t)]
    /\ \A d \in Cached : Promise!Targets(d) \subseteq Cached
    /\ \A d \in Messages : Promise!Meaning(d) \in Promise!Meanings
    /\ \A t \in Loaders :
          (pc[t] = "idle" /\ result[t] \notin {None, Unknown})
              => desc[t] \in Messages

LEMMA MeaningType ==
    ASSUME TypeOK, NEW d \in Messages
    PROVE  Promise!Meaning(d) \in Promise!Meanings
<1>1. PICK m : m = schema[d]
  OBVIOUS
<1>2. /\ m \in Message /\ m.fields \in Seq(Field)
      /\ m.oneofs \in Seq(BOOLEAN) /\ m.protoOneofs \in Seq(BOOLEAN)
  BY <1>1 DEF TypeOK, Message
<1>3. /\ DOMAIN m.fields \subseteq Nat /\ DOMAIN m.oneofs \subseteq Nat
      /\ DOMAIN m.protoOneofs \subseteq Nat
  BY <1>2, SeqDomain
<1>4. ASSUME NEW i \in DOMAIN m.fields
      PROVE  Promise!FieldMeaning(i, m.fields[i]) \in
                [index : Nat, required : BOOLEAN, ignore : Promise!Ignore,
                 err : BOOLEAN,
                 rules : [cel : SUBSET Promise!Slot, std : SUBSET Promise!Slot],
                 embeds : Messages \cup {NoMessage}]
  <2>1. PICK f : f = m.fields[i]
    OBVIOUS
  <2>2. /\ f \in Field /\ i \in Nat /\ f.required \in BOOLEAN
        /\ f.target \in Messages \cup {NoMessage}
    BY <1>2, <1>3, <2>1, FieldTypes
  <2>3. Promise!FieldIgnore(f) \in Promise!Ignore
    <3>1. FieldIgnore(f) \in Ignore
      BY <2>2, FieldTypes
    <3> QED  BY <3>1 DEF Promise!FieldIgnore, Promise!Ignore, FieldIgnore, Ignore
  <2>4. Promise!BrokenField(f) \in BOOLEAN
    BY DEF Promise!BrokenField
  <2>5. Promise!LiveSlots(f) \subseteq Promise!Slot
    BY DEF Promise!LiveSlots, Promise!Slot
  <2> DEFINE rules == IF Promise!BrokenField(f) THEN Promise!NoRules
                      ELSE Promise!RulesOf(f)
             embeds == IF Promise!Embeds(f) /\ ~Promise!BrokenField(f)
                       THEN f.target ELSE NoMessage
  <2>6. rules \in [cel : SUBSET Promise!Slot, std : SUBSET Promise!Slot]
    BY <2>5 DEF Promise!NoRules, Promise!RulesOf
  <2>7. embeds \in Messages \cup {NoMessage}
    BY <2>2
  <2>8. Promise!FieldMeaning(i, f) =
          [index |-> i, required |-> f.required,
           ignore |-> Promise!FieldIgnore(f), err |-> Promise!BrokenField(f),
           rules |-> rules, embeds |-> embeds]
    BY DEF Promise!FieldMeaning
  <2> HIDE DEF rules, embeds
  <2> QED  BY <2>1, <2>2, <2>3, <2>4, <2>6, <2>7, <2>8
<1> DEFINE meanings == {Promise!FieldMeaning(i, m.fields[i]) :
                           i \in {j \in DOMAIN m.fields : Promise!Checked(m.fields[j])}}
           oneofs == IF Promise!Broken(d) THEN {} ELSE DOMAIN m.oneofs
           required == {i \in DOMAIN m.protoOneofs : m.protoOneofs[i]}
<1>5. meanings \in SUBSET [index : Nat, required : BOOLEAN, ignore : Promise!Ignore,
                 err : BOOLEAN,
                 rules : [cel : SUBSET Promise!Slot, std : SUBSET Promise!Slot],
                 embeds : Messages \cup {NoMessage}]
  BY <1>4
<1>6. oneofs \in SUBSET Nat /\ required \in SUBSET Nat
  BY <1>3
<1>7. Promise!Broken(d) \in BOOLEAN
  BY DEF Promise!Broken
<1>8. Promise!Meaning(d) =
        [err |-> Promise!Broken(d), rules |-> m.exprs = "some", oneofs |-> oneofs,
         required |-> required, fields |-> meanings, inOrder |-> TRUE]
  BY <1>1 DEF Promise!Meaning
<1> HIDE DEF meanings, oneofs, required
<1> QED  BY <1>5, <1>6, <1>7, <1>8 DEF Promise!Meanings

LEMMA TargetsCached ==
    ASSUME IInv, ClosedInv, MeaningInv, NEW d \in Cached
    PROVE  Promise!Targets(d) \subseteq Cached
<1>1. d \in Messages /\ published # None /\ caches[published][d] # None
  BY DEF Cached, Ready
<1>2. PICK id : id = caches[published][d]
  OBVIOUS
<1>3. Promise!Meaning(d) = View(id)
  BY <1>1, <1>2, PublishedMeans
<1>4. /\ TypeOK /\ published \in DOMAIN caches
      /\ ClosedMap(caches[published], evals)
  BY <1>1 DEF IInv, CloneInv, ClosedInv
<1>5. View(id).fields = {FieldView(evals[id].fields[k]) : k \in DOMAIN evals[id].fields}
  BY DEF View
<1> SUFFICES ASSUME NEW m \in Promise!Targets(d) PROVE m \in Cached
  OBVIOUS
<1>6. PICK k \in DOMAIN evals[id].fields :
         m = FieldView(evals[id].fields[k]).embeds /\ m # NoMessage
  BY <1>3, <1>5 DEF Promise!Targets
<1>7. PICK g : g = evals[id].fields[k]
  OBVIOUS
<1>8. m = Target(g.embeds)
  <2>1. FieldView(g).embeds = IF g.err THEN NoMessage ELSE Target(g.embeds)
    BY DEF FieldView
  <2> QED  BY <1>6, <1>7, <2>1
<1>9. PointedIn(caches[published], evals, g.embeds)
  BY <1>1, <1>2, <1>4, <1>7 DEF ClosedMap
<1>10. /\ g.embeds # None /\ g.embeds \in DOMAIN evals /\ m = evals[g.embeds].of
       /\ caches[published][m] = g.embeds
  BY <1>6, <1>8, <1>9 DEF Target, PointedIn
<1>11. m \in Messages
  BY <1>4, <1>10, HeapFacts
<1> QED  BY <1>1, <1>10, <1>11 DEF Cached, Ready

LEMMA StoreMapped == IInv /\ ClosedInv /\ MeaningInv => StoreInv
<1> SUFFICES ASSUME IInv, ClosedInv, MeaningInv PROVE StoreInv
  OBVIOUS
<1>1. Memo = [d \in Messages |-> IF d \in Cached THEN Promise!Meaning(d)
                                 ELSE Absent]
  <2>1. ASSUME NEW d \in Messages
        PROVE  (IF Ready /\ caches[published][d] # None
                THEN View(caches[published][d]) ELSE Absent)
                  = IF d \in Cached THEN Promise!Meaning(d) ELSE Absent
    BY PublishedMeans DEF Cached, Ready
  <2> QED  BY <2>1 DEF Memo
<1>2. ASSUME NEW t \in Loaders, pc[t] = "idle", result[t] \notin {None, Unknown}
      PROVE  desc[t] \in Messages /\ View(result[t]) = Promise!Meaning(desc[t])
  <2>1. /\ published # None /\ desc[t] \in Messages
        /\ caches[published][desc[t]] = result[t]
    BY <1>2 DEF IInv, ResultInv
  <2> QED  BY <1>2, <2>1, PublishedMeans
<1>3. Reply = [t \in Loaders |-> Answered(t)]
  BY <1>2 DEF Reply, Answered
<1>4. \A d \in Messages : Promise!Meaning(d) \in Promise!Meanings
  BY MeaningType DEF IInv
<1> QED  BY <1>1, <1>2, <1>3, <1>4, TargetsCached DEF StoreInv

-----------------------------------------------------------------------------
(* Every step of the builder is a step of the store, or none.              *)

LEMMA SameMeaning ==
    ASSUME schema' = schema, NEW d
    PROVE  Promise!Meaning(d)' = Promise!Meaning(d)
<1>1. ASSUME NEW c PROVE Promise!Broken(c)' = Promise!Broken(c)
  <2>1. Promise!Broken(c)' <=> Promise!Broken(c)
    BY StaticMeaning
  <2>2. Promise!Broken(c)' \in BOOLEAN /\ Promise!Broken(c) \in BOOLEAN
    BY DEF Promise!Broken
  <2> QED  BY <2>1, <2>2
<1>2. ASSUME NEW f PROVE Promise!BrokenField(f)' = Promise!BrokenField(f)
  <2>1. Promise!BrokenField(f)' <=> Promise!BrokenField(f)
    BY StaticMeaning
  <2>2. Promise!BrokenField(f)' \in BOOLEAN /\ Promise!BrokenField(f) \in BOOLEAN
    BY DEF Promise!BrokenField
  <2> QED  BY <2>1, <2>2
<1>3. ASSUME NEW i, NEW f
      PROVE  Promise!FieldMeaning(i, f)' = Promise!FieldMeaning(i, f)
  BY <1>2 DEF Promise!FieldMeaning
<1>4. \A f : Promise!Checked(f)' <=> Promise!Checked(f)
  BY StaticMeaning
<1>5. PICK m : m = schema[d]
  OBVIOUS
<1>6. {Promise!FieldMeaning(i, m.fields[i]) :
          i \in {j \in DOMAIN m.fields : Promise!Checked(m.fields[j])}}'
        = {Promise!FieldMeaning(i, m.fields[i]) :
              i \in {j \in DOMAIN m.fields : Promise!Checked(m.fields[j])}}
  BY <1>3, <1>4
<1> DEFINE meanings == {Promise!FieldMeaning(i, m.fields[i]) :
              i \in {j \in DOMAIN m.fields : Promise!Checked(m.fields[j])}}
           meaning == [err |-> Promise!Broken(d), rules |-> m.exprs = "some",
                       oneofs |-> IF Promise!Broken(d) THEN {} ELSE DOMAIN m.oneofs,
                       required |-> {i \in DOMAIN m.protoOneofs : m.protoOneofs[i]},
                       fields |-> meanings, inOrder |-> TRUE]
<1>7. Promise!Meaning(d) = meaning
  BY <1>5 DEF Promise!Meaning
<1>8. Promise!Meaning(d)' = meaning'
  BY <1>5 DEF Promise!Meaning
<1>9. meaning' = meaning
  <2>1. meanings' = meanings
    BY <1>6
  <2> HIDE DEF meanings
  <2> QED  BY <1>1, <2>1
<1> QED  BY <1>7, <1>8, <1>9

LEMMA SameMemo ==
    ASSUME StoreInv, StoreInv', schema' = schema, Cached' = Cached
    PROVE  Memo' = Memo
<1>1. \A d : Promise!Meaning(d)' = Promise!Meaning(d)
  BY SameMeaning
<1>2. Memo = [d \in Messages |-> IF d \in Cached THEN Promise!Meaning(d) ELSE Absent]
  BY DEF StoreInv
<1>3. Memo' = [d \in Messages |-> IF d \in Cached' THEN Promise!Meaning(d)' ELSE Absent]
  BY DEF StoreInv
<1> QED  BY <1>1, <1>2, <1>3

LEMMA SameAnswer ==
    ASSUME schema' = schema, NEW t,
           \/ UNCHANGED <<pc[t], desc[t], result[t]>>
           \/ pc[t] # "idle" /\ pc'[t] # "idle"
    PROVE  Answered(t)' = Answered(t)
<1>1. CASE UNCHANGED <<pc[t], desc[t], result[t]>>
  <2>1. PICK d : d = desc[t]
    OBVIOUS
  <2>2. Promise!Meaning(d)' = Promise!Meaning(d)
    BY SameMeaning
  <2>3. Promise!Meaning(desc[t])' = Promise!Meaning(d)'
    BY <1>1, <2>1
  <2> QED  BY <1>1, <2>1, <2>2, <2>3 DEF Answered
<1>2. CASE pc[t] # "idle" /\ pc'[t] # "idle"
  BY <1>2 DEF Answered
<1> QED  BY <1>1, <1>2

LEMMA KnownCached ==
    ASSUME StoreInv
    PROVE  /\ Promise!Known = Cached /\ Cached \subseteq Messages
           /\ \A d \in Messages : /\ Memo[d] = Absent <=> d \notin Cached
                                  /\ d \in Cached => Memo[d] = Promise!Meaning(d)
           /\ \A t \in Loaders : Reply[t] = Pending <=> pc[t] # "idle"
<1>1. \A d \in Messages : /\ Promise!Meaning(d) # Absent
                          /\ Promise!Meaning(d) # Pending
  BY RefinementAssumption DEF StoreInv
<1>2. Cached \subseteq Messages
  BY DEF Cached
<1>3. \A d \in Messages :
         Memo[d] = IF d \in Cached THEN Promise!Meaning(d) ELSE Absent
  BY DEF StoreInv
<1>4. \A d \in Messages : /\ Memo[d] = Absent <=> d \notin Cached
                          /\ d \in Cached => Memo[d] = Promise!Meaning(d)
  BY <1>1, <1>3
<1>5. ASSUME NEW t \in Loaders PROVE Reply[t] = Pending <=> pc[t] # "idle"
  <2>1. Reply[t] = Answered(t)
    BY DEF StoreInv
  <2>2. (pc[t] = "idle" /\ result[t] \notin {None, Unknown}) => desc[t] \in Messages
    BY DEF StoreInv
  <2> QED  BY <1>1, <2>1, <2>2, RefinementAssumption DEF Answered
<1>6. Promise!Known = Cached
  BY <1>2, <1>4 DEF Promise!Known
<1> QED  BY <1>2, <1>4, <1>5, <1>6

(* New evaluators appear with all that they embed.                         *)
LEMMA FillsMemo ==
    ASSUME StoreInv, StoreInv', schema' = schema, lazy' = lazy,
           Request' = Request, Reply' = Reply, Cached \subseteq Cached'
    PROVE  Promise!Fill(Cached')
<1>1. \A d : Promise!Meaning(d)' = Promise!Meaning(d)
  BY SameMeaning
<1>2. Promise!Known = Cached
  BY KnownCached
<1>3. Promise!Known \cup Cached' = Cached'
  BY <1>2
<1>4. ASSUME NEW d \in Cached' PROVE Promise!Targets(d) \subseteq Cached'
  <2>1. Promise!Targets(d)' \subseteq Cached'
    BY DEF StoreInv
  <2>2. Promise!Targets(d)' = Promise!Targets(d)
    BY <1>1 DEF Promise!Targets
  <2> QED  BY <2>1, <2>2
<1>5. Memo' = [d \in Messages |-> IF d \in Cached' THEN Promise!Meaning(d) ELSE Absent]
  BY <1>1 DEF StoreInv
<1> QED  BY <1>3, <1>4, <1>5 DEF Promise!Fill

LEMMA InitMapped == Init => Promise!Init
<1> SUFFICES ASSUME Init PROVE Promise!Init
  OBVIOUS
<1>1. /\ schema \in [Messages -> Message] /\ lazy \in BOOLEAN /\ published = None
      /\ \A t \in Loaders : /\ pc[t] = "idle" /\ desc[t] = NoMessage
                            /\ result[t] = None
  BY BuilderAssumption DEF Init, Threads
<1>2. Ready = FALSE /\ Memo = [d \in Messages |-> Absent]
  BY <1>1 DEF Ready, Memo
<1>3. Request = [t \in Loaders |-> NoMessage]
  BY <1>1 DEF Request
<1>4. Reply = [t \in Loaders |-> Absent]
  BY <1>1 DEF Reply
<1>5. Message = Promise!Message
  BY DEF Message, Promise!Message, Field, Promise!Field, Outcome,
         Promise!Outcome, Shape, Promise!Shape, ValueRules, Promise!ValueRules,
         Ignore, Promise!Ignore
<1> QED  BY <1>1, <1>2, <1>3, <1>4, <1>5 DEF Promise!Init

(* The published map and the answers given stay as they are.               *)
LEMMA Stutters ==
    ASSUME StoreInv, StoreInv', UNCHANGED <<schema, lazy, published>>,
           published # None => caches'[published] = caches[published],
           \A t \in Loaders :
              /\ desc'[t] = desc[t]
              /\ \/ pc[t] # "idle" /\ pc'[t] # "idle"
                 \/ pc'[t] = pc[t] /\ result'[t] = result[t]
    PROVE  UNCHANGED Promise!vars
<1>1. Ready' = Ready /\ Cached' = Cached
  BY DEF Ready, Cached
<1>2. Memo' = Memo
  BY <1>1, SameMemo
<1>3. Request' = Request
  BY DEF Request
<1>4. \A t \in Loaders : Answered(t)' = Answered(t)
  BY SameAnswer
<1>5. Reply = [t \in Loaders |-> Answered(t)] /\ Reply' = [t \in Loaders |-> Answered(t)']
  BY DEF StoreInv
<1>6. Reply' = Reply
  BY <1>4, <1>5
<1> QED  BY <1>1, <1>2, <1>3, <1>6 DEF Promise!vars

(* A loader's step that publishes nothing and changes its own answer only. *)
LEMMA Answers ==
    ASSUME TypeOK, StoreInv, StoreInv', NEW t \in Loaders, published # None,
           UNCHANGED <<schema, lazy, published, caches>>,
           NEW at, pc' = [pc EXCEPT ![t] = at],
           NEW d, desc' = [desc EXCEPT ![t] = d],
           NEW r, result' = [result EXCEPT ![t] = r]
    PROVE  /\ Memo' = Memo /\ Ready /\ Ready' = Ready /\ Cached' = Cached
           /\ Request' = [Request EXCEPT ![t] = d]
           /\ Reply' = [Reply EXCEPT ![t] = Answered(t)']
           /\ pc'[t] = at /\ desc'[t] = d /\ result'[t] = r
<1>1. /\ t \in Threads /\ DOMAIN pc = Threads /\ DOMAIN desc = Threads
      /\ DOMAIN result = Threads /\ Loaders \subseteq Threads
  BY DEF TypeOK, Threads
<1>2. Ready' = Ready /\ Cached' = Cached /\ Ready
  BY DEF Ready, Cached
<1>3. Memo' = Memo
  BY <1>2, SameMemo
<1>4. \A u \in Loaders : desc'[u] = IF u = t THEN d ELSE desc[u]
  BY <1>1
<1>5. Request' = [Request EXCEPT ![t] = d]
  BY <1>4 DEF Request
<1>6. \A u \in Loaders : u # t => Answered(u)' = Answered(u)
  <2> SUFFICES ASSUME NEW u \in Loaders, u # t PROVE Answered(u)' = Answered(u)
    OBVIOUS
  <2>1. UNCHANGED <<pc[u], desc[u], result[u]>>
    BY <1>1
  <2> QED  BY <2>1, SameAnswer
<1>7. Reply = [u \in Loaders |-> Answered(u)] /\ Reply' = [u \in Loaders |-> Answered(u)']
  BY DEF StoreInv
<1>8. Reply' = [Reply EXCEPT ![t] = Answered(t)']
  BY <1>6, <1>7
<1> QED  BY <1>1, <1>2, <1>3, <1>5, <1>8

LEMMA CallMapped ==
    ASSUME IInv, StoreInv, StoreInv', NEW t \in Loaders, Call(t)
    PROVE  Promise!Call(t)
<1>1. /\ pc[t] = "idle" /\ published # None /\ TypeOK
      /\ UNCHANGED <<schema, lazy, published, caches>>
      /\ pc' = [pc EXCEPT ![t] = "fast"] /\ result' = [result EXCEPT ![t] = None]
  BY DEF Call, IInv
<1>2. PICK d \in Messages : desc' = [desc EXCEPT ![t] = d]
  BY DEF Call
<1>3. /\ Memo' = Memo /\ Ready /\ Ready' = Ready
      /\ Request' = [Request EXCEPT ![t] = d]
      /\ Reply' = [Reply EXCEPT ![t] = Answered(t)'] /\ pc'[t] = "fast"
  BY <1>1, <1>2, Answers
<1>4. Answered(t)' = Pending
  BY <1>3 DEF Answered
<1>5. Reply[t] # Pending
  BY <1>1, KnownCached
<1> QED  BY <1>1, <1>3, <1>4, <1>5 DEF Promise!Call

(* An answer: a hit on the lock-free read, or the unlock after the build.  *)
LEMMA AnswerMapped ==
    ASSUME IInv, LoaderInv, StoreInv, StoreInv', NEW t \in Loaders,
           LoadHit(t) \/ Unlock(t)
    PROVE  Promise!Answer(t)
<1> DEFINE r == IF pc[t] = "fast" THEN caches[published][desc[t]] ELSE result[t]
<1>1. /\ pc[t] \in {"fast", "unlock"} /\ published # None /\ TypeOK
      /\ desc[t] \in Messages /\ pc \in [Threads -> PC]
      /\ t \in Threads /\ published \in DOMAIN caches /\ Unknown \notin Nat
  BY LoaderFacts, BuilderAssumption DEF LoadHit, Unlock, IInv, CloneInv, TypeOK
<1>2. /\ UNCHANGED <<schema, lazy, published, caches, desc>>
      /\ pc' = [pc EXCEPT ![t] = "idle"]
      /\ result' = [result EXCEPT ![t] = r]
  BY <1>1 DEF LoadHit, Unlock, TypeOK
<1>3. desc' = [desc EXCEPT ![t] = desc[t]]
  BY <1>1, <1>2 DEF TypeOK
<1>4. r = caches[published][desc[t]] /\ r \notin {None, Unknown}
  <2>1. CASE pc[t] = "fast"
    <3>1. caches[published] \in Cache
      BY <1>1 DEF TypeOK
    <3>2. caches[published][desc[t]] \in Nat
      BY <1>1, <3>1 DEF Cache
    <3>3. caches[published][desc[t]] # None
      BY <2>1 DEF LoadHit, Unlock
    <3> QED  BY <1>1, <2>1, <3>2, <3>3
  <2>2. CASE pc[t] = "unlock"
    BY <2>2 DEF LoaderInv, IInv, ResultInv
  <2> QED  BY <1>1, <2>1, <2>2
<1>5. desc[t] \in Cached
  BY <1>1, <1>4 DEF Cached, Ready
<1> HIDE DEF r
<1>6. /\ Memo' = Memo /\ Ready' = Ready
      /\ Request' = [Request EXCEPT ![t] = desc[t]]
      /\ Reply' = [Reply EXCEPT ![t] = Answered(t)']
      /\ pc'[t] = "idle" /\ desc'[t] = desc[t] /\ result'[t] = r
  BY <1>1, <1>2, <1>3, Answers
<1>7. Answered(t)' = Promise!Meaning(desc[t])
  <2>1. Answered(t)' = Promise!Meaning(desc[t])'
    BY <1>4, <1>6 DEF Answered
  <2>2. PICK d : d = desc[t]
    OBVIOUS
  <2>3. Promise!Meaning(d)' = Promise!Meaning(d)
    BY <1>2, SameMeaning
  <2>4. Promise!Meaning(desc[t])' = Promise!Meaning(d)'
    BY <1>6, <2>2
  <2> QED  BY <2>1, <2>2, <2>3, <2>4
<1>8. Request[t] = desc[t] /\ Request' = Request
  BY <1>6 DEF Request
<1>9. Reply[t] = Pending /\ Memo[desc[t]] # Absent
      /\ Memo[desc[t]] = Promise!Meaning(desc[t])
  BY <1>1, <1>5, KnownCached
<1> QED  BY <1>2, <1>6, <1>7, <1>8, <1>9 DEF Promise!Answer

LEMMA RefuseMapped ==
    ASSUME IInv, StoreInv, StoreInv', NEW t \in Loaders, LoadUnknown(t)
    PROVE  Promise!Refuse(t)
<1>1. /\ pc[t] = "fast" /\ published # None /\ TypeOK /\ ~lazy
      /\ desc[t] \in Messages /\ t \in Threads
      /\ caches[published][desc[t]] = None
      /\ UNCHANGED <<schema, lazy, published, caches, desc>>
      /\ pc' = [pc EXCEPT ![t] = "idle"]
      /\ result' = [result EXCEPT ![t] = Unknown]
  BY LoaderFacts DEF LoadUnknown, IInv
<1>2. desc' = [desc EXCEPT ![t] = desc[t]]
  BY <1>1 DEF TypeOK
<1>3. /\ Memo' = Memo /\ Ready' = Ready
      /\ Request' = [Request EXCEPT ![t] = desc[t]]
      /\ Reply' = [Reply EXCEPT ![t] = Answered(t)']
      /\ pc'[t] = "idle" /\ result'[t] = Unknown
  BY <1>1, <1>2, Answers
<1>4. Answered(t)' = Unknown
  <2>1. Unknown # None
    BY BuilderAssumption DEF None
  <2> QED  BY <1>3, <2>1 DEF Answered
<1>5. desc[t] \notin Cached
  BY <1>1 DEF Cached
<1>6. Reply[t] = Pending /\ Memo[desc[t]] = Absent
  BY <1>1, <1>5, KnownCached
<1>7. Request[t] = desc[t] /\ Request' = Request
  BY <1>3 DEF Request
<1> QED  BY <1>1, <1>3, <1>4, <1>6, <1>7 DEF Promise!Refuse

LEMMA PublishMapped ==
    ASSUME IInv, StoreInv, StoreInv', Publish
    PROVE  Promise!Construct
<1>1. /\ pc[Constructor] = "seed" /\ published = None
      /\ published' = 1 /\ \A t \in Loaders : t # Constructor
  BY BuilderAssumption DEF IInv, NewInv, Publish
<1>2. ~Ready /\ Ready' /\ Cached = {}
  BY <1>1 DEF Ready, Cached, None
<1>3. /\ UNCHANGED <<schema, lazy, desc, result>>
      /\ pc' = [pc EXCEPT ![Constructor] = "idle"]
      /\ pc \in [Threads -> PC]
  BY DEF Publish, IInv, TypeOK
<1>4. \A t \in Loaders : UNCHANGED <<pc[t], desc[t], result[t]>>
  BY <1>1, <1>3 DEF Threads
<1>5. Request' = Request
  BY <1>3 DEF Request
<1>6. Reply' = Reply
  <2>1. \A t \in Loaders : Answered(t)' = Answered(t)
    BY <1>3, <1>4, SameAnswer
  <2>2. Reply = [t \in Loaders |-> Answered(t)] /\ Reply' = [t \in Loaders |-> Answered(t)']
    BY DEF StoreInv
  <2> QED  BY <2>1, <2>2
<1>7. Promise!Fill(Cached')
  BY <1>2, <1>3, <1>5, <1>6, FillsMemo
<1>8. Cached' \subseteq Messages
  BY DEF Cached
<1>9. Ready' = TRUE
  BY <1>2 DEF Ready
<1> QED  BY <1>2, <1>7, <1>8, <1>9 DEF Promise!Construct

(* The atomic store of the clone publishes all that the build has built.   *)
LEMMA StoreIsBuild ==
    ASSUME IInv, LoaderInv, StoreInv, StoreInv', NEW t \in Loaders, Store(t)
    PROVE  Promise!BuildFor(t)
<1>1. /\ pc[t] = "store" /\ published # None /\ desc[t] \in Messages
      /\ t \in Threads /\ TypeOK /\ lazy
      /\ caches[published][desc[t]] = None
      /\ result[t] # None /\ result[t] = caches[cache[t]][desc[t]]
  BY LoaderFacts DEF Store, IInv, LoaderInv, Owns, ResultInv
<1>2. /\ cache[t] \in DOMAIN caches
      /\ \A d \in Messages :
            caches[published][d] # None => caches[cache[t]][d] = caches[published][d]
  BY <1>1 DEF IInv, CloneInv, Owns
<1>3. /\ UNCHANGED <<schema, lazy, caches, desc, result>>
      /\ published' = cache[t] /\ pc' = [pc EXCEPT ![t] = "unlock"]
  BY DEF Store
<1>4. cache[t] # None
  BY <1>1, <1>2 DEF TypeOK, None
<1>5. Ready /\ Ready'
  BY <1>1, <1>3, <1>4 DEF Ready
<1>6. Cached \subseteq Cached'
  BY <1>2, <1>3, <1>5 DEF Cached
<1>7. desc[t] \in Cached' /\ desc[t] \notin Cached
  BY <1>1, <1>3, <1>5 DEF Cached
<1>8. Request' = Request /\ Request[t] = desc[t]
  BY <1>3 DEF Request
<1>9. Reply' = Reply
  <2>1. ASSUME NEW u \in Loaders PROVE Answered(u)' = Answered(u)
    <3>1. u \in Threads /\ pc \in [Threads -> PC]
      BY <1>1 DEF Threads, TypeOK
    <3>2. \/ UNCHANGED <<pc[u], desc[u], result[u]>>
          \/ pc[u] # "idle" /\ pc'[u] # "idle"
      BY <1>1, <1>3, <3>1
    <3> QED  BY <1>3, <3>2, SameAnswer
  <2>2. Reply = [u \in Loaders |-> Answered(u)] /\ Reply' = [u \in Loaders |-> Answered(u)']
    BY DEF StoreInv
  <2> QED  BY <2>1, <2>2
<1>10. Promise!Fill(Cached')
  BY <1>3, <1>6, <1>8, <1>9, FillsMemo
<1>11. Reply[t] = Pending /\ Memo[Request[t]] = Absent
  BY <1>1, <1>7, <1>8, KnownCached
<1>12. Cached' \in SUBSET Messages /\ Request[t] \in Cached'
  BY <1>7, <1>8 DEF Cached
<1>13. Ready' = Ready
  BY <1>5 DEF Ready
<1> QED  BY <1>1, <1>10, <1>11, <1>12, <1>13 DEF Promise!BuildFor

(* A build moves no loader but its own, and publishes nothing.             *)
LEMMA BuildQuiet ==
    ASSUME NEW u \in Threads, Build(u)
    PROVE  /\ UNCHANGED <<schema, lazy, published, desc>>
           /\ ~ReturnBuild(u) => UNCHANGED <<pc, result>>
<1>1. BuildFrame
  BY DEF Build, ProcessMessageExpressions, ProcessMessageOneofRules,
     ProcessOneofRules, BuildField, FinishField, CompileRules, FailRules,
     EnterEmbedded, EmbedMessage, ReturnBuild, AppendField, FillIn
<1>2. CASE EmbedMessage(u)
  <2>1. UNCHANGED <<pc, result>>
    BY <1>2 DEF EmbedMessage, AppendField
  <2> QED  BY <1>1, <2>1 DEF BuildFrame
<1>3. ~EmbedMessage(u) /\ ~ReturnBuild(u) => UNCHANGED <<pc, result>>
  BY DEF Build, ProcessMessageExpressions, ProcessMessageOneofRules,
     ProcessOneofRules, BuildField, FinishField, CompileRules, FailRules,
     EnterEmbedded, AppendField, FillIn
<1> QED  BY <1>1, <1>2, <1>3 DEF BuildFrame

(* What newBuilder does before it publishes, what a build does, and what a *)
(* loader does under the lock short of the store are nobody's business.    *)
LEMMA QuietMapped ==
    ASSUME IInv, StoreInv, StoreInv', [Next]_vars,
           \/ Seed \/ UNCHANGED vars
           \/ \E t \in Threads :
                 \/ Build(t) \/ LoadMiss(t) \/ Lock(t)
                 \/ Recheck(t) \/ Clone(t)
    PROVE  UNCHANGED Promise!vars
<1>1. /\ pc \in [Threads -> PC] /\ result \in [Threads -> Nat \cup {Unknown}]
      /\ desc \in [Threads -> Messages \cup {NoMessage}]
      /\ Loaders \subseteq Threads /\ Constructor \notin Loaders
  BY BuilderAssumption DEF IInv, TypeOK, Threads
<1>2. published # None => caches'[published] = caches[published]
  BY PublishedStep
<1>3. CASE Seed
  <2>1. UNCHANGED <<schema, lazy, published>>
    BY <1>3 DEF Seed
  <2>2. \A t \in Loaders : UNCHANGED <<pc[t], desc[t], result[t]>>
    BY <1>1, <1>3 DEF Seed
  <2> QED  BY <1>2, <2>1, <2>2, Stutters
<1>4. CASE UNCHANGED vars
  BY <1>2, <1>4, Stutters DEF vars
<1>5. ASSUME NEW u \in Threads,
             \/ Build(u) \/ LoadMiss(u) \/ Lock(u) \/ Recheck(u) \/ Clone(u)
      PROVE  UNCHANGED Promise!vars
  <2>1. UNCHANGED <<schema, lazy, published, desc>>
    BY <1>5, BuildQuiet DEF LoadMiss, Lock, Recheck, Clone
  <2>2. ASSUME NEW t \in Loaders
        PROVE  \/ pc[t] # "idle" /\ pc'[t] # "idle"
               \/ pc'[t] = pc[t] /\ result'[t] = result[t]
    <3>1. CASE ReturnBuild(u)
      <4>1. pc[u] = "build"
        BY <3>1 DEF ReturnBuild, Building
      <4>2. \/ UNCHANGED <<pc, result>>
            \/ u = Constructor /\ pc' = [pc EXCEPT ![u] = "seed"] /\ result' = result
            \/ /\ pc' = [pc EXCEPT ![u] = "store"]
               /\ result' = [result EXCEPT ![u] = Top(u).id]
        BY <3>1 DEF ReturnBuild
      <4> QED  BY <1>1, <4>1, <4>2
    <3>2. CASE Build(u) /\ ~ReturnBuild(u)
      <4>1. UNCHANGED <<pc, result>>
        BY <3>2, BuildQuiet
      <4> QED  BY <4>1
    <3>3. CASE LoadMiss(u) \/ Lock(u) \/ Clone(u)
      BY <1>1, <3>3 DEF LoadMiss, Lock, Clone
    <3>4. CASE Recheck(u)
      BY <1>1, <3>4 DEF Recheck
    <3> QED  BY <1>5, <3>1, <3>2, <3>3, <3>4
  <2> QED  BY <1>2, <2>1, <2>2, Stutters
<1> QED  BY <1>3, <1>4, <1>5

LEMMA StepMapped ==
    ASSUME IInv, LoaderInv, StoreInv, StoreInv', [Next]_vars
    PROVE  [Promise!Next]_(Promise!vars)
<1>1. ASSUME NEW t \in Threads,
             \/ Call(t) \/ LoadHit(t) \/ LoadUnknown(t) \/ Store(t) \/ Unlock(t)
      PROVE  Promise!Next
  <2>1. t \in Loaders
    <3>1. t \in Loaders \/ pc[t] \in {"fast", "store", "unlock"}
      BY <1>1 DEF Call, LoadHit, LoadUnknown, Store, Unlock
    <3>2. pc[Constructor] \notin {"fast", "store", "unlock"}
      BY DEF IInv, NewInv
    <3> QED  BY <3>1, <3>2 DEF Threads
  <2>2. \/ Promise!Call(t) \/ Promise!BuildFor(t) \/ Promise!Answer(t)
        \/ Promise!Refuse(t)
    BY <1>1, <2>1, CallMapped, AnswerMapped, RefuseMapped, StoreIsBuild
  <2> QED  BY <2>1, <2>2 DEF Promise!Next
<1>2. CASE Publish
  BY <1>2, PublishMapped DEF Promise!Next
<1>3. CASE \/ Seed \/ UNCHANGED vars
           \/ \E t \in Threads :
                 \/ Build(t) \/ LoadMiss(t) \/ Lock(t)
                 \/ Recheck(t) \/ Clone(t)
  BY <1>3, QuietMapped
<1> QED  BY <1>1, <1>2, <1>3 DEF Next, Run

LEMMA StoreInvariance ==
    ASSUME AllCarried
    PROVE  Spec => []StoreInv
<1>1. Spec => []ClosedInv
  BY ClosedInit, ClosedNext, Invariance, PTL DEF Spec
<1> QED  BY <1>1, Invariance, MeaningInvariance, StoreMapped, PTL

(* Whatever is asked for first, from however many goroutines, and whatever *)
(* recursion the messages have: the published cache is a memo of what the  *)
(* descriptors declare, which grows by a whole build at a time, and every  *)
(* Load answers with it (builder.go:83-110, 112-133).                      *)
THEOREM Refinement ==
    ASSUME AllCarried
    PROVE  Spec => ImplementsStore
<1>1. IInv /\ LoaderInv /\ StoreInv /\ StoreInv' /\ [Next]_vars
        => [Promise!Next]_(Promise!vars)
  BY StepMapped
<1>2. Init => Promise!Init
  BY InitMapped
<1>3. Spec => []StoreInv
  BY StoreInvariance
<1> QED
  BY <1>1, <1>2, <1>3, Invariance, LoaderInvariance, PTL
     DEF Spec, ImplementsStore, Promise!Spec

==============================================================================
