----------------------------- MODULE MCEvaluation -----------------------------
(* Small evaluator trees.                                                   *)
EXTENDS Evaluation

MCElements == {"f", "g", "x", "f[0]", "f[1]", "x[0]", "choice"}
Checks == {"pass", "fail", "error"}

New(kind, calls) ==
    [kind |-> kind, calls |-> calls, nested |-> << >>, element |-> << >>,
     forKey |-> FALSE, failed |-> FALSE, always |-> FALSE,
     required |-> FALSE, ignoreEmpty |-> FALSE, has |-> TRUE,
     members |-> 0, check |-> "pass"]
At(node, element) == [node EXCEPT !.element = << element >>]
Nested(node, nested) == [node EXCEPT !.nested = nested]
Test(check) == [New("check", << >>) EXCEPT !.check = check]

(* A list element or map value that is a message with a rule of its own and *)
(* a field x with another: nodes n + 1 ... n + 7.                           *)
Submessage(n, own, ofX) ==
    << Nested(New("value", << >>), << n + 2 >>),
       New("embedded", << n + 3 >>),
       Nested(New("message", << n + 4 >>), << n + 5 >>),
       Test(own),
       At(New("field", << n + 6 >>), "x"),
       At(New("programs", << n + 7 >>), "x"),
       Test(ofX) >>

(* Message rules, a message oneof, a oneof, and a repeated field of messages *)
(* with a rule of its own.                                                  *)
ListTree(a, b, c, d, e, members, oneofSet) ==
    << Nested(New("message", << 2 >>), << 5, 24, 6 >>),
       New("programs", << 3, 4 >>), Test(a), Test(b),
       [New("messageOneof", << >>) EXCEPT !.members = members,
                                        !.required = members # 2],
       New("field", << 7, 9 >>),
       At(New("programs", << 8 >>), "f"), Test(c),
       New("list", << 10, 17 >>) >>
    \o [Submessage(9, "fail", d) EXCEPT ![1] = At(@, "f[0]")]
    \o [Submessage(16, e, "fail") EXCEPT ![1] = At(@, "f[1]")]
    \o << At([New("oneof", << >>) EXCEPT !.required = TRUE, !.has = oneofSet],
             "choice") >>

ListTrees ==
    {ListTree(a, b, "fail", d, e, members, members = 0) :
        a \in {"pass", "fail"}, b \in {"pass", "error"}, d \in Checks,
        e \in {"pass", "fail"}, members \in 0 .. 2}

(* A map with two entries, rules for its keys and messages for values, and  *)
(* a field that comes after it.                                             *)
MapTree(a, b, c, d, e) ==
    << Nested(New("message", << >>), << 2, 24 >>),
       At(New("field", << 3 >>), "f"),
       New("map", << 4, 14 >>),
       At(New("pair", << 5, 7 >>), "f[0]"),
       [New("value", << 6 >>) EXCEPT !.forKey = TRUE], Test(a) >>
    \o Submessage(6, b, "fail")
    \o << At(New("pair", << 15, 17 >>), "f[1]"),
          [New("value", << 16 >>) EXCEPT !.forKey = TRUE], Test(c) >>
    \o Submessage(16, "pass", d)
    \o << At(New("field", << 25 >>), "g"),
          At(New("programs", << 26 >>), "g"), Test(e) >>

MapTrees ==
    {MapTree(a, b, c, d, "fail") :
        a \in {"pass", "fail"}, b \in Checks, c \in Checks,
        d \in {"pass", "fail"}}

(* Two fields under every combination of their options; the second embeds a *)
(* message that may have failed to build, and has a list of its own.        *)
FieldTree(f, g, failed, c, zero) ==
    << Nested(New("message", << >>), << 2, 5 >>),
       At(f, "f"), At(New("programs", << 4 >>), "f"), Test("fail"),
       At(g, "g"),
       At(New("embedded", << 7 >>), "g"),
       [Nested(New("message", << 8 >>), << 9 >>) EXCEPT !.failed = failed],
       Test("fail"),
       At(New("field", << 10 >>), "x"),
       New("list", << 11 >>),
       At([New("value", << 12 >>) EXCEPT !.ignoreEmpty = TRUE, !.has = ~zero],
          "x[0]"),
       Test(c) >>

Options(node) ==
    {[node EXCEPT !.required = required, !.ignoreEmpty = ignoreEmpty,
                  !.has = has, !.failed = failed] :
        required \in BOOLEAN, ignoreEmpty \in BOOLEAN, has \in BOOLEAN,
        failed \in BOOLEAN}
    \cup {[node EXCEPT !.always = TRUE, !.required = TRUE, !.has = FALSE]}

FieldTrees ==
    {FieldTree(f, g, failed, c, zero) :
        f \in Options(New("field", << 3 >>)),
        g \in {[Nested(New("field", << >>), << 6 >>) EXCEPT
                   !.ignoreEmpty = TRUE, !.has = has] : has \in BOOLEAN},
        failed \in BOOLEAN, c \in {"pass", "fail"}, zero \in BOOLEAN}

MCTrees ==
    ListTrees \cup MapTrees \cup FieldTrees \cup {<< New("unknown", << >>) >>}
==============================================================================
