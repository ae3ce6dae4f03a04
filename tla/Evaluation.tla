------------------------------ MODULE Evaluation ------------------------------
(***************************************************************************)
(* One call of Validate: the walk of the evaluators over a message         *)
(* (evaluator.go, message.go, field.go, value.go, repeated.go, map.go),    *)
(* how the errors of the parts become one error (mergeViolations), and how *)
(* a violation gets its path, back to front, on the way up.                *)
(*                                                                         *)
(* A tree is the evaluators and the message together: a node is a call of  *)
(* Evaluate on one value.  Node 1 is the root, and a node calls nodes with *)
(* greater numbers.  The recursion is an explicit stack.                   *)
(***************************************************************************)
EXTENDS Naturals, Sequences, SequencesExt, FiniteSets

CONSTANTS
    Elements,     \* field path elements: a name, with its index or key if any
    Trees,        \* the trees a behaviour may walk
    MaxRejected   \* bound on the nodes a filter turns down

(* check: one CEL program, or one test of anyPB and definedEnum; programs: *)
(* a set of them.  pair: an entry of a map.  unknown: unknownMessage.      *)
Kind == {"message", "unknown", "field", "value", "list", "map", "pair",
         "embedded", "programs", "check", "oneof", "messageOneof"}

(* calls: the evaluators of the node, in order; nested: those of a message *)
(* or value that come after them.  element: what a field, or what evaluates*)
(* a part of one, puts in a path, at most one element.  forKey: the value  *)
(* is a map key.  failed: it did not compile.  always, required: the rules *)
(* of these names.  ignoreEmpty: an unset field or a zero value is not     *)
(* validated.  has: the field or oneof is set, the value is not zero.      *)
(* members: how many fields of a message oneof are set.                    *)
Node == [kind : Kind, calls : Seq(Nat), nested : Seq(Nat),
         element : Seq(Elements), forKey : BOOLEAN, failed : BOOLEAN,
         always : BOOLEAN, required : BOOLEAN, ignoreEmpty : BOOLEAN,
         has : BOOLEAN, members : Nat, check : {"pass", "fail", "error"}]

Callees(node) == ToSet(node.calls \o node.nested)

(* What has no evaluators to call, and what Validate looks up itself.      *)
Leaves == {"unknown", "check", "oneof", "messageOneof"}
Roots == {"message", "unknown"}

(* A node is one call of Evaluate, so one node calls it, and once.  Only a *)
(* field can be ignored always: a value of that kind is not built.  A      *)
(* message oneof is appended to what is nested in its message.             *)
Tree == {t \in Seq(Node) :
            /\ t # << >>
            /\ t[1].kind \in Roots /\ t[1].element = << >> /\ ~t[1].forKey
            /\ \A n \in DOMAIN t :
                  /\ Callees(t[n]) \subseteq (n + 1) .. Len(t)
                  /\ IsInjective(t[n].calls \o t[n].nested)
                  /\ t[n].kind \in Leaves => Callees(t[n]) = {}
                  /\ t[n].always => t[n].kind = "field"
                  /\ Len(t[n].element) <= 1
                  /\ \A c \in Callees(t[n]) :
                        t[c].kind = "messageOneof" =>
                            t[n].kind = "message" /\ c \in ToSet(t[n].nested)
            /\ \A c \in DOMAIN t \ {1} :
                  \E n \in DOMAIN t :
                     /\ c \in Callees(t[n])
                     /\ \A m \in DOMAIN t \ {n} : c \notin Callees(t[m])}

ASSUME EvaluationAssumption ==
    /\ Trees \subseteq Tree
    /\ MaxRejected \in Nat

VARIABLES
    tree,      \* the evaluators and the message
    rejects,   \* the messages, fields and oneofs the filter turns down
    failFast,  \* cfg.failFast
    stack,     \* the calls in progress, innermost last
    returned,  \* what a call has returned, until its caller looks at it
    result     \* what Validate returns

vars == <<tree, rejects, failFast, stack, returned, result>>

Caller(n) == CHOOSE m \in DOMAIN tree : n \in Callees(tree[m])

-----------------------------------------------------------------------------
(* Errors.  A violation is the node that found it and the path it has.     *)

Violation == [of : Nat, path : Seq(Elements), forKey : BOOLEAN]

(* A ValidationError has violations.                                       *)
Error == {e \in [kind : {"nil", "violations", "compile", "runtime"},
                 violations : Seq(Violation)] :
             e.kind = "violations" <=> e.violations # << >>}

Nil == [kind |-> "nil", violations |-> << >>]
Fatal(kind) == [kind |-> kind, violations |-> << >>]
Violations(vs) == [kind |-> "violations", violations |-> vs]
Pending == [kind |-> "pending", violations |-> << >>]

(* The first violation is let through whether or not failFast is set.      *)
MergeMutant(dst, src) ==
    IF src.kind = "nil" THEN [go |-> TRUE, err |-> dst]
    ELSE IF src.kind # "violations" THEN [go |-> FALSE, err |-> src]
    ELSE IF dst.kind = "nil" THEN [go |-> TRUE, err |-> src]
    ELSE [go |-> ~failFast,
          err |-> Violations(dst.violations \o src.violations)]

(* What there is so far wins over a fatal error.                           *)
MergeFatalMutant(dst, src) ==
    IF src.kind = "nil" THEN [go |-> TRUE, err |-> dst]
    ELSE IF src.kind # "violations" THEN [go |-> FALSE, err |-> dst]
    ELSE [go |-> ~failFast,
          err |-> Violations(dst.violations \o src.violations)]

(* mergeViolations: `go' tells whether to go on.  An accumulated error is  *)
(* never fatal: a fatal one has ended the walk.                            *)
Merge(dst, src) ==
    IF src.kind = "nil" THEN [go |-> TRUE, err |-> dst]
    ELSE IF src.kind # "violations" THEN [go |-> FALSE, err |-> src]
    ELSE IF dst.kind = "nil"
    THEN [go |-> ~(failFast /\ src.violations # << >>), err |-> src]
    ELSE IF dst.kind # "violations" THEN [go |-> FALSE, err |-> dst]
    ELSE LET all == dst.violations \o src.violations
         IN  [go |-> ~(failFast /\ all # << >>), err |-> Violations(all)]

(* A field puts its element in the path of its own violation only: below   *)
(* it, that is done by what evaluates its value.                           *)
Adds(n) == IF tree[n].kind = "field" THEN << >> ELSE tree[n].element

(* updateViolationPaths and markViolationForKey: what becomes of what node *)
(* n returned.                                                             *)
Located(n, e) ==
    [e EXCEPT !.violations =
        [i \in DOMAIN e.violations |->
            [of |-> e.violations[i].of,
             path |-> e.violations[i].path \o Adds(n),
             forKey |-> e.violations[i].forKey \/ tree[n].forKey]]]

(* finalizeViolationPaths.                                                 *)
Finalized(e) ==
    [e EXCEPT !.violations =
        [i \in DOMAIN e.violations |->
            [e.violations[i] EXCEPT !.path = Reverse(@)]]]

-----------------------------------------------------------------------------
(* What a call returns at once; Pending if it has evaluators to call.      *)

Violated(n, path) ==
    Violations(<< [of |-> n, path |-> path, forKey |-> FALSE] >>)

CheckResult(n) ==
    IF tree[n].check = "error" THEN Fatal("runtime")
    ELSE IF tree[n].check = "fail" THEN Violated(n, << >>)
    ELSE Nil

OneofResult(n) ==
    IF n \in rejects \/ ~tree[n].required \/ tree[n].has THEN Nil
    ELSE Violated(n, << >>)

(* The error is returned without looking whether it has violations.        *)
MessageOneofMutant(n) ==
    IF Caller(n) \in rejects THEN Nil
    ELSE IF tree[n].members > 1 \/ (tree[n].required /\ tree[n].members # 1)
    THEN Violated(n, << >>) ELSE Violations(<< >>)

(* The filter is not asked again about the message.                        *)
MessageOneofUnfilteredMutant(n) ==
    IF tree[n].members > 1 \/ (tree[n].required /\ tree[n].members # 1)
    THEN Violated(n, << >>) ELSE Nil

(* The message calls it even when the filter has turned the message down,  *)
(* for it is nested; it asks the filter about the message itself.          *)
MessageOneofResult(n) ==
    IF Caller(n) \in rejects THEN Nil
    ELSE IF tree[n].members > 1 \/ (tree[n].required /\ tree[n].members # 1)
    THEN Violated(n, << >>) ELSE Nil

FieldResult(n) ==
    IF tree[n].always \/ n \in rejects THEN Nil
    ELSE IF tree[n].failed THEN Fatal("compile")
    ELSE IF tree[n].required /\ ~tree[n].has
    THEN Violated(n, tree[n].element)
    ELSE IF tree[n].ignoreEmpty /\ ~tree[n].has THEN Nil
    ELSE Pending

MessageResult(n) ==
    IF tree[n].failed /\ n \notin rejects THEN Fatal("compile") ELSE Pending

ValueResult(n) ==
    IF tree[n].ignoreEmpty /\ ~tree[n].has THEN Nil ELSE Pending

Immediate(n) ==
    CASE tree[n].kind = "check" -> CheckResult(n)
      [] tree[n].kind = "oneof" -> OneofResult(n)
      [] tree[n].kind = "messageOneof" -> MessageOneofResult(n)
      [] tree[n].kind = "field" -> FieldResult(n)
      [] tree[n].kind = "message" -> MessageResult(n)
      [] tree[n].kind = "unknown" -> Fatal("compile")
      [] tree[n].kind = "value" -> ValueResult(n)
      [] OTHER -> Pending

(* A message that is turned down has no nested evaluators either.          *)
AgendaMutant(n) ==
    IF tree[n].kind = "message" /\ n \in rejects THEN << >>
    ELSE tree[n].calls \o tree[n].nested

(* A filter turns off the rules of a message, not of what is nested in it. *)
Agenda(n) ==
    IF tree[n].kind = "message" /\ n \in rejects THEN tree[n].nested
    ELSE tree[n].calls \o tree[n].nested

-----------------------------------------------------------------------------
(* The walk.  A frame is one call: what it has still to call, whom it has  *)
(* called last and the error it has merged.                                *)

Frame == [node : Nat, todo : Seq(Nat), called : Nat, err : Error]

Filterable == {"message", "field", "oneof"}

Init ==
    /\ tree \in Trees
    /\ rejects \in {s \in SUBSET {n \in DOMAIN tree :
                                     tree[n].kind \in Filterable} :
                       Cardinality(s) <= MaxRejected}
    /\ failFast \in BOOLEAN
    /\ stack = << >>
    /\ returned = Pending
    /\ result = Pending

Top == stack[Len(stack)]

Evaluate(n, callers) ==
    IF Immediate(n) = Pending
    THEN /\ stack' = Append(callers, [node |-> n, todo |-> Agenda(n),
                                      called |-> n, err |-> Nil])
         /\ UNCHANGED returned
    ELSE /\ stack' = callers
         /\ returned' = Immediate(n)

Validate ==
    /\ stack = << >>
    /\ returned = Pending
    /\ result = Pending
    /\ Evaluate(1, << >>)
    /\ UNCHANGED <<tree, rejects, failFast, result>>

(* The next evaluator; a map ranges over its entries in any order.         *)
Call ==
    /\ stack # << >>
    /\ returned = Pending
    /\ \E i \in DOMAIN Top.todo :
          /\ i = 1 \/ tree[Top.node].kind = "map"
          /\ Evaluate(Top.todo[i],
                      [stack EXCEPT ![Len(stack)] =
                          [Top EXCEPT !.called = Top.todo[i],
                                      !.todo = RemoveAt(@, i)]])
    /\ UNCHANGED <<tree, rejects, failFast, result>>

(* The paths are completed once the violations are merged, not before.     *)
MergeReturnedMutant ==
    LET merged == Merge(Top.err, returned)
    IN  [merged EXCEPT !.err = Located(Top.called, @)]

MergeReturned == Merge(Top.err, Located(Top.called, returned))

(* An evaluator has returned: the error is merged, and ends this call too  *)
(* when mergeViolations says so.                                           *)
Return ==
    /\ stack # << >>
    /\ returned # Pending
    /\ IF MergeReturned.go
       THEN /\ stack' = [stack EXCEPT ![Len(stack)] =
                            [Top EXCEPT !.err = MergeReturned.err]]
            /\ returned' = Pending
       ELSE /\ stack' = SubSeq(stack, 1, Len(stack) - 1)
            /\ returned' = MergeReturned.err
    /\ UNCHANGED <<tree, rejects, failFast, result>>

(* Every evaluator has been called.                                        *)
Finish ==
    /\ stack # << >>
    /\ returned = Pending
    /\ Top.todo = << >>
    /\ stack' = SubSeq(stack, 1, Len(stack) - 1)
    /\ returned' = Top.err
    /\ UNCHANGED <<tree, rejects, failFast, result>>

Finalize ==
    /\ stack = << >>
    /\ returned # Pending
    /\ result = Pending
    /\ result' = Finalized(returned)
    /\ UNCHANGED <<tree, rejects, failFast, stack, returned>>

Next == Validate \/ Call \/ Return \/ Finish \/ Finalize

Spec == Init /\ [][Next]_vars

-----------------------------------------------------------------------------
(* What a validation ought to report, by the rules and the message alone.  *)

(* A field that is not validated, nor anything in it (filter.go:22-29).    *)
Closed(n) ==
    CASE tree[n].kind = "field" -> n \in rejects \/ tree[n].always
                                   \/ (tree[n].ignoreEmpty /\ ~tree[n].has)
                                   \/ (tree[n].required /\ ~tree[n].has)
      [] tree[n].kind = "value" -> tree[n].ignoreEmpty /\ ~tree[n].has
      [] OTHER -> FALSE

Covered ==
    LET covered[n \in DOMAIN tree] ==
            n = 1 \/ /\ covered[Caller(n)]
                     /\ ~Closed(Caller(n))
                     /\ ~(/\ Caller(n) \in rejects
                          /\ n \in ToSet(tree[Caller(n)].calls))
    IN  {n \in DOMAIN tree : covered[n]}

(* The nodes at fault, and those that cannot tell.                         *)
Faults ==
    {n \in Covered :
        CASE tree[n].kind = "check" -> tree[n].check = "fail"
          [] tree[n].kind = "field" -> /\ tree[n].required /\ ~tree[n].has
                                       /\ ~tree[n].always /\ n \notin rejects
          [] tree[n].kind = "oneof" -> /\ tree[n].required /\ ~tree[n].has
                                       /\ n \notin rejects
          [] tree[n].kind = "messageOneof" ->
                /\ tree[n].members \notin (IF tree[n].required THEN {1} ELSE {0, 1})
                /\ Caller(n) \notin rejects
          [] OTHER -> FALSE}

Unable ==
    {n \in Covered :
        \/ tree[n].kind = "check" /\ tree[n].check = "error"
        \/ tree[n].kind = "unknown"
        \/ tree[n].kind \in {"message", "field"} /\ tree[n].failed
              /\ n \notin rejects /\ ~tree[n].always}

(* The way from the root to a node.                                        *)
WayTo(n) ==
    LET way[m \in DOMAIN tree] ==
            (IF m = 1 THEN << >> ELSE way[Caller(m)]) \o Adds(m)
    IN  IF tree[n].kind = "field" THEN way[n] \o tree[n].element ELSE way[n]

InKey(n) ==
    LET inKey[m \in DOMAIN tree] ==
            tree[m].forKey \/ (m # 1 /\ inKey[Caller(m)])
    IN  inKey[n]

Reported == {result.violations[i].of : i \in DOMAIN result.violations}

-----------------------------------------------------------------------------
(* Properties.                                                             *)

(* Every variable has its type; no evaluator returns a ValidationError     *)
(* without violations, which would stand for a valid message               *)
(* (message_oneof.go:52-80, program.go:80-84).                             *)
TypeOK ==
    /\ tree \in Trees
    /\ rejects \subseteq DOMAIN tree
    /\ failFast \in BOOLEAN
    /\ stack \in Seq(Frame)
    /\ returned \in Error \cup {Pending}
    /\ result \in Error \cup {Pending}

(* Without failFast a validation that can be finished reports each fault   *)
(* exactly once, and nothing else, whatever order a map is walked in; one  *)
(* that cannot reports that it cannot (evaluator.go:33-43, 48-51).         *)
ReportsAll ==
    (result # Pending /\ ~failFast) =>
        IF Unable # {} THEN result.kind \in {"compile", "runtime"}
        ELSE /\ Reported = Faults
             /\ Len(result.violations) = Cardinality(Faults)
             /\ result.kind = IF Faults = {} THEN "nil" ELSE "violations"

(* The path of a violation is the way from the root to where it was found, *)
(* and it is marked as being of a key exactly if it was found in one: not  *)
(* a violation next to it in the same error (error_utils.go:90-136).       *)
PathsLead ==
    result # Pending =>
        \A i \in DOMAIN result.violations :
            LET v == result.violations[i]
            IN  v.path = WayTo(v.of) /\ v.forKey = InKey(v.of)

(* failFast never changes the verdict: the message is valid if and only if *)
(* it is without it, and what is reported is something that is at fault.   *)
FailFastAgrees ==
    (result # Pending /\ failFast) =>
        /\ result.kind = "nil" <=> Faults \cup Unable = {}
        /\ result.kind \in {"compile", "runtime"} => Unable # {}
        /\ Reported \subseteq Faults

(* With failFast the first violation ends every call it passes through,    *)
(* so exactly one is reported (option.go:103-109).                         *)
FailFastReportsOne ==
    (failFast /\ result.kind = "violations") => Len(result.violations) = 1

==============================================================================
