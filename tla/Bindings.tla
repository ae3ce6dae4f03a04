------------------------------- MODULE Bindings -------------------------------
(***************************************************************************)
(* CEL programs run on variables that come from a pool (bindings.go,       *)
(* program.go) while other goroutines do the same: to validate, each with  *)
(* the options of its call (validator.go, option.go), or to reduce the     *)
(* programs of a field that is being built (ast.go).  What CEL computes is *)
(* its reads of the variables and a verdict.                               *)
(***************************************************************************)
EXTENDS Integers, Sequences

CONSTANTS
    Threads,
    Pointers,       \* addresses of bindings
    Values,         \* what `this' may be
    RuleValues,     \* rule messages and the values of their rules
    ProgramSets,    \* the sets of programs there are
    Filters,        \* the filters a call may be given
    NowFuncs,       \* the sources of time it may be given
    Config,         \* the configuration New made
    Calls,          \* the lists of options a call may have
    MaxTime,        \* bound: how far the clock goes
    Unset,          \* nil, or an optional that is not set
    NopFilter

Name == {"this", "rules", "rule", "now"}
(* What a program reads, what of that its result hangs on (as in a         *)
(* disjunction with a true operand, the rest may be missing), and whether  *)
(* it passes if its result is always the same.                             *)
Program == [rules : RuleValues \cup {Unset}, rule : RuleValues \cup {Unset},
            reads : SUBSET Name, needs : SUBSET Name, holds : BOOLEAN]

Option ==
    [kind : {"failFast"}, val : {TRUE}]
        \cup [kind : {"filter"}, val : Filters \cup {Unset}]
        \cup [kind : {"nowFunc"}, val : NowFuncs \cup {Unset}]

Constant(p) == p.needs \subseteq {"rules", "rule"}

(* Custom rules have no rule values, standard rules all have theirs, and   *)
(* those of a field come from one message.                                 *)
ASSUME BindingsAssumption ==
    /\ Unset \notin Values \cup RuleValues \cup Pointers \cup Filters \cup {NopFilter}
    /\ Config \in [failFast : BOOLEAN, filter : Filters \cup {NopFilter},
                   nowFn : NowFuncs \cup {Unset}]
    /\ Calls \subseteq Seq(Option)
    /\ MaxTime \in Nat
    /\ \A s \in ProgramSets :
        /\ s \in Seq(Program) /\ s # << >>
        /\ \A i, j \in DOMAIN s :
            /\ s[i].rules = s[j].rules
            /\ s[i].rule = Unset <=> s[i].rules = Unset
            /\ s[i].reads \cap {"rules", "rule"} # {} => s[i].rules # Unset
            /\ s[i].needs \subseteq s[i].reads

VARIABLES
    clock,
    shared,     \* validator.cfg
    heap,       \* the bindings at each address
    pool,       \* bindingsPool
    held,       \* the bindings a goroutine has taken, or Unset
    pc,
    call        \* the locals of each goroutine

vars == <<clock, shared, heap, pool, held, pc, call>>

(* A time is the function it was asked from and the clock.                 *)
Blank == [this |-> Unset, rules |-> Unset, rule |-> Unset, nowFn |-> Unset,
          ts |-> Unset]

Idle == [reducing |-> FALSE, options |-> << >>, asked |-> << >>,
         clone |-> Unset, set |-> << >>, this |-> Unset, at |-> 1,
         reads |-> {}, got |-> {}, nows |-> {}, since |-> 0,
         residuals |-> {}]

Init ==
    /\ clock = 0
    /\ shared = Config
    /\ heap = [a \in Pointers |-> Blank]
    /\ pool = {}
    /\ held = [t \in Threads |-> Unset]
    /\ pc = [t \in Threads |-> "idle"]
    /\ call = [t \in Threads |-> Idle]

-----------------------------------------------------------------------------
(* The configuration of a call.                                            *)

Cfg(t) == IF call[t].asked = << >> THEN shared ELSE call[t].clone

Apply(cfg, option) ==
    CASE option.kind = "failFast" -> [cfg EXCEPT !.failFast = TRUE]
      [] option.kind = "filter" ->
            [cfg EXCEPT !.filter = IF option.val = Unset THEN NopFilter
                                   ELSE option.val]
      [] OTHER -> [cfg EXCEPT !.nowFn = option.val]

Validate(t, options) ==
    /\ pc[t] = "idle"
    /\ call' = [call EXCEPT ![t] =
                  [Idle EXCEPT !.options = options, !.asked = options,
                      !.clone = IF options = << >> THEN Unset ELSE shared]]
    /\ pc' = [pc EXCEPT ![t] = "options"]
    /\ UNCHANGED <<clock, shared, heap, pool, held>>

(* The options are applied to the validator's configuration.               *)
ApplyOptionMutant(t) ==
    /\ pc[t] = "options"
    /\ call[t].options # << >>
    /\ shared' = Apply(shared, Head(call[t].options))
    /\ call' = [call EXCEPT ![t].options = Tail(@), ![t].clone = shared']
    /\ UNCHANGED <<clock, heap, pool, held, pc>>

ApplyOption(t) ==
    /\ pc[t] = "options"
    /\ call[t].options # << >>
    /\ call' = [call EXCEPT ![t].options = Tail(@),
                            ![t].clone = Apply(@, Head(call[t].options))]
    /\ UNCHANGED <<clock, shared, heap, pool, held, pc>>

EvaluateMessage(t) ==
    /\ pc[t] = "options"
    /\ call[t].options = << >>
    /\ pc' = [pc EXCEPT ![t] = "ready"]
    /\ UNCHANGED <<clock, shared, heap, pool, held, call>>

ReturnValidate(t) ==
    /\ pc[t] = "ready"
    /\ pc' = [pc EXCEPT ![t] = "idle"]
    /\ call' = [call EXCEPT ![t] = Idle]
    /\ UNCHANGED <<clock, shared, heap, pool, held>>

-----------------------------------------------------------------------------
(* sync.Pool gives what was put there, or makes a new one.                 *)
GetBindings(t) ==
    \E a \in Pointers :
        /\ \A u \in Threads : held[u] # a
        /\ heap' = IF a \in pool THEN heap ELSE [heap EXCEPT ![a] = Blank]
        /\ pool' = pool \ {a}
        /\ held' = [held EXCEPT ![t] = a]
        /\ pc' = [pc EXCEPT ![t] = "bind"]

Eval(t, set, val) ==
    /\ pc[t] = "ready"
    /\ GetBindings(t)
    /\ call' = [call EXCEPT ![t] = [@ EXCEPT !.set = set, !.this = val,
                  !.at = 1, !.nows = {}, !.since = clock]]
    /\ UNCHANGED <<clock, shared>>

(* Only standard rules are reduced.                                        *)
ReduceResiduals(t, set) ==
    /\ pc[t] = "idle"
    /\ set[1].rules # Unset
    /\ GetBindings(t)
    /\ call' = [call EXCEPT ![t] =
                  [Idle EXCEPT !.reducing = TRUE, !.set = set]]
    /\ UNCHANGED <<clock, shared>>

(* What is the same for all programs of the set.                           *)
Bind(t) ==
    /\ pc[t] = "bind"
    /\ heap' = IF call[t].reducing
               THEN [heap EXCEPT ![held[t]].rules = call[t].set[1].rules]
               ELSE [heap EXCEPT ![held[t]].this = call[t].this]
    /\ pc' = [pc EXCEPT ![t] = "program"]
    /\ UNCHANGED <<clock, shared, pool, held, call>>

(* The rule is set for the first program only.                             *)
EvalProgramMutant(t) ==
    LET c == call[t]
        b == heap[held[t]]
        p == c.set[c.at]
    IN  /\ pc[t] = "program"
        /\ ~c.reducing
        /\ heap' = [heap EXCEPT ![held[t]] =
              [b EXCEPT !.nowFn = Cfg(t).nowFn,
                        !.rules = IF p.rules = Unset THEN b.rules ELSE p.rules,
                        !.rule = IF b.rule # Unset THEN b.rule ELSE p.rule]]
        /\ call' = [call EXCEPT ![t] = [c EXCEPT !.reads = p.reads, !.got = {}]]
        /\ pc' = [pc EXCEPT ![t] = "resolve"]
        /\ UNCHANGED <<clock, shared, pool, held>>

EvalProgram(t) ==
    LET c == call[t]
        b == heap[held[t]]
        p == c.set[c.at]
    IN  /\ pc[t] = "program"
        /\ ~c.reducing
        /\ heap' = [heap EXCEPT ![held[t]] =
              [b EXCEPT !.nowFn = Cfg(t).nowFn,
                        !.rules = IF p.rules = Unset THEN b.rules ELSE p.rules,
                        !.rule = IF p.rule = Unset THEN b.rule ELSE p.rule]]
        /\ call' = [call EXCEPT ![t] = [c EXCEPT !.reads = p.reads, !.got = {}]]
        /\ pc' = [pc EXCEPT ![t] = "resolve"]
        /\ UNCHANGED <<clock, shared, pool, held>>

ReduceProgram(t) ==
    LET c == call[t]
        p == c.set[c.at]
    IN  /\ pc[t] = "program"
        /\ c.reducing
        /\ heap' = [heap EXCEPT ![held[t]].rule = p.rule]
        /\ call' = [call EXCEPT ![t] = [c EXCEPT !.reads = p.reads, !.got = {}]]
        /\ pc' = [pc EXCEPT ![t] = "resolve"]
        /\ UNCHANGED <<clock, shared, pool, held>>

(* The time is asked for at the first read and then kept.                  *)
Now(b) == IF b.nowFn = Unset THEN Unset
          ELSE IF b.ts = Unset THEN << b.nowFn, clock >> ELSE b.ts

(* Every read asks for the time.                                           *)
ResolveNameMutant(t, name) ==
    LET c == call[t]
        b == heap[held[t]]
        val == IF name # "now" THEN b[name]
               ELSE IF b.nowFn = Unset THEN Unset ELSE << b.nowFn, clock >>
    IN  /\ pc[t] = "resolve"
        /\ name \in c.reads
        /\ call' = [call EXCEPT ![t] = [c EXCEPT
              !.reads = c.reads \ {name},
              !.got = c.got \cup {<< name, val >>},
              !.nows = IF name = "now" /\ val # Unset
                       THEN c.nows \cup {val} ELSE c.nows]]
        /\ UNCHANGED <<clock, shared, heap, pool, held, pc>>

ResolveName(t, name) ==
    LET c == call[t]
        b == heap[held[t]]
        val == IF name = "now" THEN Now(b) ELSE b[name]
    IN  /\ pc[t] = "resolve"
        /\ name \in c.reads
        /\ heap' = IF name = "now" /\ b.nowFn # Unset
                   THEN [heap EXCEPT ![held[t]].ts = val] ELSE heap
        /\ call' = [call EXCEPT ![t] = [c EXCEPT
              !.reads = c.reads \ {name},
              !.got = c.got \cup {<< name, val >>},
              !.nows = IF name = "now" /\ val # Unset
                       THEN c.nows \cup {val} ELSE c.nows]]
        /\ UNCHANGED <<clock, shared, pool, held, pc>>

(* A program that misses what it needs fails; one that is constant always  *)
(* comes to the same.                                                      *)
Verdicts(t) ==
    LET p == call[t].set[call[t].at]
    IN  IF \E g \in call[t].got : g[1] \in p.needs /\ g[2] = Unset
        THEN {"error"}
        ELSE IF Constant(p) THEN {IF p.holds THEN "pass" ELSE "fail"}
        ELSE {"pass", "fail", "error"}

NextProgram(t, stop, residuals) ==
    LET c == call[t]
        next == IF stop \/ c.at = Len(c.set) THEN "reset" ELSE "program"
    IN  /\ pc' = [pc EXCEPT ![t] = next]
        /\ call' = [call EXCEPT ![t] = [c EXCEPT
              !.at = IF next = "program" THEN c.at + 1 ELSE c.at,
              !.residuals = residuals]]

Evaluated(t, verdict) ==
    /\ pc[t] = "resolve"
    /\ ~call[t].reducing
    /\ call[t].reads = {}
    /\ verdict \in Verdicts(t)
    /\ NextProgram(t, verdict = "error" \/ (verdict = "fail" /\ Cfg(t).failFast),
                   call[t].residuals)
    /\ UNCHANGED <<clock, shared, heap, pool, held>>

(* What has no value yet counts as nothing to check.                       *)
ReducedMutant(t, verdict) ==
    /\ pc[t] = "resolve"
    /\ call[t].reducing
    /\ call[t].reads = {}
    /\ verdict \in Verdicts(t)
    /\ NextProgram(t, FALSE,
          call[t].residuals \cup (IF verdict = "fail" THEN {call[t].at} ELSE {}))
    /\ UNCHANGED <<clock, shared, heap, pool, held>>

Reduced(t, verdict) ==
    /\ pc[t] = "resolve"
    /\ call[t].reducing
    /\ call[t].reads = {}
    /\ verdict \in Verdicts(t)
    /\ NextProgram(t, FALSE,
          call[t].residuals \cup (IF verdict # "pass" THEN {call[t].at} ELSE {}))
    /\ UNCHANGED <<clock, shared, heap, pool, held>>

(* What cannot be made a program is not reduced.                           *)
KeepUnreduced(t) ==
    /\ pc[t] = "program"
    /\ call[t].reducing
    /\ NextProgram(t, FALSE, call[t].residuals \cup {call[t].at})
    /\ UNCHANGED <<clock, shared, heap, pool, held>>

-----------------------------------------------------------------------------
(* putBindings is deferred, so it runs on every return.                    *)

(* Everything is reset but the time.                                       *)
ResetMutant(t) ==
    /\ pc[t] = "reset"
    /\ heap' = [heap EXCEPT ![held[t]] = [Blank EXCEPT !.ts = heap[held[t]].ts]]
    /\ pc' = [pc EXCEPT ![t] = "put"]
    /\ UNCHANGED <<clock, shared, pool, held, call>>

Reset(t) ==
    /\ pc[t] = "reset"
    /\ heap' = [heap EXCEPT ![held[t]] = Blank]
    /\ pc' = [pc EXCEPT ![t] = "put"]
    /\ UNCHANGED <<clock, shared, pool, held, call>>

Put(t) ==
    /\ pc[t] = "put"
    /\ pool' = pool \cup {held[t]}
    /\ held' = [held EXCEPT ![t] = Unset]
    /\ pc' = [pc EXCEPT ![t] = IF call[t].reducing THEN "idle" ELSE "ready"]
    /\ call' = [call EXCEPT ![t] =
          IF call[t].reducing THEN Idle
          ELSE [Idle EXCEPT !.asked = call[t].asked, !.clone = call[t].clone]]
    /\ UNCHANGED <<clock, shared, heap>>

Tick ==
    /\ clock < MaxTime
    /\ clock' = clock + 1
    /\ UNCHANGED <<shared, heap, pool, held, pc, call>>

Next ==
    \/ Tick
    \/ \E t \in Threads :
        \/ \E options \in Calls : Validate(t, options)
        \/ ApplyOption(t) \/ EvaluateMessage(t) \/ ReturnValidate(t)
        \/ \E set \in ProgramSets :
            \/ \E val \in Values : Eval(t, set, val)
            \/ ReduceResiduals(t, set)
        \/ Bind(t) \/ EvalProgram(t) \/ ReduceProgram(t) \/ KeepUnreduced(t)
        \/ \E name \in Name : ResolveName(t, name)
        \/ \E verdict \in {"pass", "fail", "error"} :
            Evaluated(t, verdict) \/ Reduced(t, verdict)
        \/ Reset(t) \/ Put(t)

Spec == Init /\ [][Next]_vars

-----------------------------------------------------------------------------
(* Properties.                                                             *)

Evaluating(t) == pc[t] \in {"ready", "bind", "program", "resolve", "reset", "put"}
Holding(t) == pc[t] \in {"bind", "program", "resolve", "reset", "put"}

(* What is in the pool is blank, and neither taken nor taken twice         *)
(* (bindings.go:63-71).                                                    *)
PoolClean ==
    /\ \A a \in pool : heap[a] = Blank
    /\ \A t, u \in Threads :
        held[t] # Unset =>
            /\ held[t] \notin pool
            /\ held[t] = held[u] => t = u

(* A program sees the message, the rule and the source of time of its own  *)
(* evaluation, and a program that is reduced sees neither a message nor    *)
(* the time, whoever used its bindings before or uses others now           *)
(* (bindings.go:36-53, program.go:48-102).                                 *)
Expected(t, name) ==
    LET p == call[t].set[call[t].at]
    IN  CASE name = "rules" -> p.rules
          [] name = "rule" -> p.rule
          [] name = "this" /\ ~call[t].reducing -> call[t].this
          [] OTHER -> Unset
OwnValues ==
    \A t \in Threads :
        pc[t] = "resolve" =>
            \A g \in call[t].got :
                IF g[1] = "now" /\ ~call[t].reducing /\ Cfg(t).nowFn # Unset
                THEN \E time \in 0 .. clock : g[2] = << Cfg(t).nowFn, time >>
                ELSE g[2] = Expected(t, g[1])

(* All programs of a set see one time, which is not older than the set's   *)
(* evaluation (bindings.go:45-51).                                         *)
OneNow ==
    \A t \in Threads :
        Holding(t) /\ ~call[t].reducing =>
            \A now, again \in call[t].nows :
                now = again /\ now[2] >= call[t].since

(* Reducing drops a program only if it passes on every message at any time *)
(* (ast.go:58-79).                                                         *)
ResidualsSound ==
    \A t \in Threads :
        pc[t] \in {"reset", "put"} /\ call[t].reducing =>
            \A i \in DOMAIN call[t].set \ call[t].residuals :
                Constant(call[t].set[i]) /\ call[t].set[i].holds

(* A call runs with the validator's configuration and its own options on   *)
(* top, the last of each kind, whatever other calls were given             *)
(* (validator.go:112-118).                                                 *)
LastOf(kind, options, default) ==
    LET at == {i \in DOMAIN options : options[i].kind = kind}
    IN  IF at = {} THEN default
        ELSE options[CHOOSE i \in at : \A j \in at : j <= i].val
OwnConfig ==
    \A t \in Threads :
        Evaluating(t) /\ ~call[t].reducing =>
            LET asked == call[t].asked
                filter == LastOf("filter", asked, Config.filter)
            IN  Cfg(t) = [failFast |-> LastOf("failFast", asked, Config.failFast),
                          filter |-> IF filter = Unset THEN NopFilter ELSE filter,
                          nowFn |-> LastOf("nowFunc", asked, Config.nowFn)]

==============================================================================
