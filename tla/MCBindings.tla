------------------------------ MODULE MCBindings ------------------------------
(* Small instances of Bindings.                                             *)
EXTENDS Bindings

CONSTANTS t1, t2, a1, a2, m1, m2, rules, r1, r2, clockFn, fixedFn, filter1

Custom(reads) ==
    [rules |-> Unset, rule |-> Unset, reads |-> reads, needs |-> reads,
     holds |-> FALSE]
Standard(rule, reads, needs, holds) ==
    [rules |-> rules, rule |-> rule, reads |-> reads, needs |-> needs,
     holds |-> holds]

(* Custom rules that use the message and the time; standard rules, some of  *)
(* them the same for every message.                                         *)
MCProgramSets ==
    {<< Custom({"this", "now"}), Custom({"now"}) >>,
     << Standard(r1, {"this", "rule"}, {"this", "rule"}, FALSE),
        Standard(r2, {"this", "rule"}, {"rule"}, TRUE) >>,
     << Standard(r1, {"rules"}, {"rules"}, FALSE),
        Standard(r2, {"now"}, {"now"}, FALSE) >>}

FailFast == [kind |-> "failFast", val |-> TRUE]
Filter(f) == [kind |-> "filter", val |-> f]
NowFunc(f) == [kind |-> "nowFunc", val |-> f]

MCCalls == {<< >>, << FailFast >>, << Filter(filter1), NowFunc(fixedFn) >>,
            << Filter(filter1), Filter(Unset) >>, << NowFunc(Unset) >>}
MCConfig == [failFast |-> FALSE, filter |-> NopFilter, nowFn |-> clockFn]
==============================================================================
