---------------------------- MODULE Bindings_proofs ----------------------------
(***************************************************************************)
(* No evaluation sees what another one left in, or puts into, the pooled   *)
(* bindings, and none runs with the options of another, for any number of  *)
(* goroutines, programs and options.                                       *)
(*                                                                         *)
(* Fits says of one goroutine what its bindings contain at each point of   *)
(* its evaluation.  It is an operator on values, so that what a step of    *)
(* the goroutine itself does is a fact without variables, and a step of    *)
(* another one preserves it because nothing it mentions changes.           *)
(***************************************************************************)
EXTENDS Bindings, TLAPS

PC == {"idle", "options", "ready", "bind", "program", "resolve", "reset", "put"}
Holds(p) == p \in {"bind", "program", "resolve", "reset", "put"}

IsBindings(b) ==
    b = [this |-> b.this, rules |-> b.rules, rule |-> b.rule,
         nowFn |-> b.nowFn, ts |-> b.ts]

IsCall(c) ==
    /\ c = [reducing |-> c.reducing, options |-> c.options, asked |-> c.asked,
            clone |-> c.clone, set |-> c.set, this |-> c.this, at |-> c.at,
            reads |-> c.reads, got |-> c.got, nows |-> c.nows,
            since |-> c.since, residuals |-> c.residuals]
    /\ c.reducing \in BOOLEAN

CfgOf(c, cfg) == IF c.asked = << >> THEN cfg ELSE c.clone

(* The loop is inside its programs.                                        *)
Placed(c, now) ==
    /\ c.set \in ProgramSets
    /\ c.at \in 1 .. Len(c.set)
    /\ c.since \in 0 .. now

(* What the bindings contain before the next program ...                   *)
BoundEval(c, b, cfg, now) ==
    /\ b.this = c.this
    /\ b.rules \in {Unset, c.set[1].rules}
    /\ c.set[1].rules = Unset => b.rule = Unset
    /\ b.ts # Unset => \E time \in c.since .. now :
                          b.ts = << CfgOf(c, cfg).nowFn, time >>
    /\ \A x \in c.nows : b.ts # Unset /\ x = b.ts
BoundReduce(c, b) ==
    /\ b.this = Unset
    /\ b.nowFn = Unset
    /\ b.ts = Unset
    /\ b.rules = c.set[1].rules
Bound(c, b, cfg, now) ==
    IF c.reducing THEN BoundReduce(c, b) ELSE BoundEval(c, b, cfg, now)

(* ... and while one runs.                                                 *)
Current(c, b, cfg) ==
    LET p == c.set[c.at]
    IN  /\ b.rules = p.rules
        /\ b.rule = p.rule
        /\ ~c.reducing => b.nowFn = CfgOf(c, cfg).nowFn

(* What a read of a name may give.                                         *)
Right(c, cfg, now, g) ==
    LET p == c.set[c.at]
    IN  CASE g[1] = "rules" -> g[2] = p.rules
          [] g[1] = "rule" -> g[2] = p.rule
          [] g[1] = "this" -> g[2] = (IF c.reducing THEN Unset ELSE c.this)
          [] OTHER -> IF c.reducing \/ CfgOf(c, cfg).nowFn = Unset
                      THEN g[2] = Unset
                      ELSE \E time \in 0 .. now :
                              g[2] = << CfgOf(c, cfg).nowFn, time >>

Reading(c, cfg, now) ==
    /\ c.reads \subseteq Name
    /\ \A g \in c.got : g[1] \in Name /\ Right(c, cfg, now, g)
    /\ \A name \in c.set[c.at].reads :
          name \in c.reads \/ \E g \in c.got : g[1] = name

(* The times seen by the programs of a set.                                *)
OneTime(c) ==
    \A x, y \in c.nows : x = y /\ x[2] >= c.since

(* Those before the n-th that were dropped pass always.                    *)
Dropped(c, n) ==
    \A i \in 1 .. n : i \notin c.residuals => Constant(c.set[i]) /\ c.set[i].holds

Fits(p, c, b, cfg, now) ==
    Holds(p) =>
        /\ Placed(c, now)
        /\ p \in {"bind", "put"} => b = Blank
        /\ p = "bind" => c.nows = {}
        /\ p \in {"program", "resolve"} => Bound(c, b, cfg, now)
        /\ p = "resolve" => Current(c, b, cfg) /\ Reading(c, cfg, now)
        /\ ~c.reducing => OneTime(c)
        /\ c.reducing /\ p \in {"bind", "program", "resolve"} => Dropped(c, c.at - 1)
        /\ c.reducing /\ p \in {"reset", "put"} => Dropped(c, Len(c.set))

Shape ==
    /\ clock \in Nat
    /\ heap = [a \in Pointers |-> heap[a]]
    /\ \A a \in Pointers : IsBindings(heap[a])
    /\ pool \subseteq Pointers
    /\ held \in [Threads -> Pointers \cup {Unset}]
    /\ pc \in [Threads -> PC]
    /\ call = [t \in Threads |-> call[t]]
    /\ \A t \in Threads : IsCall(call[t])
    /\ \A t \in Threads : held[t] # Unset <=> Holds(pc[t])

(* Between its evaluations, a call of Validate is no reduction.            *)
NoReduction == \A t \in Threads : pc[t] \in {"options", "ready"} => ~call[t].reducing

AllFit == \A t \in Threads : Fits(pc[t], call[t], heap[held[t]], shared, clock)

IInv == Shape /\ NoReduction /\ PoolClean /\ AllFit

-----------------------------------------------------------------------------
(* What each step of a goroutine does to what fits.                        *)

(* The facts about a program of a set that steps need.                     *)
LEMMA Homogeneous ==
    ASSUME NEW s \in ProgramSets
    PROVE  /\ Len(s) \in Nat /\ Len(s) >= 1
           /\ \A i \in 1 .. Len(s) :
                /\ s[i].rules = s[1].rules
                /\ s[i].rule = Unset <=> s[1].rules = Unset
                /\ s[i].reads \subseteq Name
                /\ s[i].needs \subseteq s[i].reads
<1>1. s \in Seq(Program) /\ s # << >>
  BY BindingsAssumption
<1>2. DOMAIN s = 1 .. Len(s) /\ Len(s) \in Nat /\ Len(s) >= 1
  BY <1>1
<1>3. \A i \in 1 .. Len(s) :
        /\ s[i].rules = s[1].rules
        /\ s[i].rule = Unset <=> s[i].rules = Unset
        /\ s[i].needs \subseteq s[i].reads
  BY <1>2, BindingsAssumption
<1>4. ASSUME NEW i \in 1 .. Len(s) PROVE s[i].reads \subseteq Name
  <2>1. s[i] \in Program
    BY <1>1, <1>2
  <2> QED  BY <2>1 DEF Program
<1> QED  BY <1>2, <1>3, <1>4

(* Nothing is required of a goroutine without bindings.                    *)
LEMMA Free ==
    ASSUME NEW p, ~Holds(p), NEW c, NEW b, NEW cfg, NEW now
    PROVE  Fits(p, c, b, cfg, now)
BY DEF Fits

(* Time passes.                                                            *)
LEMMA Later ==
    ASSUME NEW p, NEW c, NEW b, NEW cfg, NEW now \in Nat,
           Fits(p, c, b, cfg, now)
    PROVE  Fits(p, c, b, cfg, now + 1)
<1> SUFFICES ASSUME Holds(p) PROVE Fits(p, c, b, cfg, now + 1)
  BY DEF Fits
<1>1. Placed(c, now) => Placed(c, now + 1)
  BY DEF Placed
<1>2. BoundEval(c, b, cfg, now) /\ Placed(c, now) => BoundEval(c, b, cfg, now + 1)
  <2> SUFFICES ASSUME BoundEval(c, b, cfg, now), Placed(c, now)
               PROVE  BoundEval(c, b, cfg, now + 1)
    OBVIOUS
  <2>1. \A time \in c.since .. now : time \in c.since .. now + 1
    BY DEF Placed
  <2> QED  BY <2>1 DEF BoundEval
<1>3. Reading(c, cfg, now) => Reading(c, cfg, now + 1)
  <2> SUFFICES ASSUME Reading(c, cfg, now), NEW g \in c.got
               PROVE  Right(c, cfg, now + 1, g)
    BY DEF Reading
  <2>1. Right(c, cfg, now, g)
    BY DEF Reading
  <2>2. \A time \in 0 .. now : time \in 0 .. now + 1
    OBVIOUS
  <2> QED  BY <2>1, <2>2 DEF Right
<1> QED  BY <1>1, <1>2, <1>3 DEF Fits, Bound

(* Eval and ReduceResiduals.                                               *)
LEMMA EvalFits ==
    ASSUME NEW c, IsCall(c), ~c.reducing, NEW cfg, NEW now \in Nat,
           NEW s \in ProgramSets, NEW v, NEW d,
           d = [c EXCEPT !.set = s, !.this = v, !.at = 1, !.nows = {},
                         !.since = now]
    PROVE  IsCall(d) /\ Fits("bind", d, Blank, cfg, now)
<1>1. /\ IsCall(d)
      /\ d.set = s /\ d.at = 1 /\ d.nows = {} /\ d.since = now /\ ~d.reducing
  BY DEF IsCall
<1>2. Placed(d, now)
  BY <1>1, Homogeneous DEF Placed
<1>3. OneTime(d)
  BY <1>1 DEF OneTime
<1> QED  BY <1>1, <1>2, <1>3 DEF Fits, Holds

LEMMA ReduceFits ==
    ASSUME NEW cfg, NEW now \in Nat, NEW s \in ProgramSets, NEW d,
           d = [Idle EXCEPT !.reducing = TRUE, !.set = s]
    PROVE  IsCall(d) /\ Fits("bind", d, Blank, cfg, now)
<1>1. /\ IsCall(d)
      /\ d.set = s /\ d.at = 1 /\ d.nows = {} /\ d.since = 0 /\ d.reducing
  BY DEF IsCall, Idle
<1>2. Placed(d, now)
  BY <1>1, Homogeneous DEF Placed
<1>3. Dropped(d, d.at - 1)
  BY <1>1 DEF Dropped
<1> QED  BY <1>1, <1>2, <1>3 DEF Fits, Holds

LEMMA BindFits ==
    ASSUME NEW c, IsCall(c), NEW b, NEW cfg, NEW now \in Nat, NEW e,
           Fits("bind", c, b, cfg, now),
           e = IF c.reducing THEN [b EXCEPT !.rules = c.set[1].rules]
               ELSE [b EXCEPT !.this = c.this]
    PROVE  IsBindings(e) /\ Fits("program", c, e, cfg, now)
<1>1. /\ b = Blank /\ Placed(c, now) /\ c.nows = {}
      /\ ~c.reducing => OneTime(c)
      /\ c.reducing => Dropped(c, c.at - 1)
  BY DEF Fits, Holds
<1>2. CASE c.reducing
  <2>1. /\ IsBindings(e) /\ e.this = Unset /\ e.nowFn = Unset
        /\ e.ts = Unset /\ e.rules = c.set[1].rules
    BY <1>1, <1>2 DEF Blank, IsBindings
  <2> QED  BY <1>1, <1>2, <2>1 DEF Fits, Bound, BoundReduce
<1>3. CASE ~c.reducing
  <2>1. /\ IsBindings(e) /\ e.this = c.this /\ e.rules = Unset
        /\ e.rule = Unset /\ e.ts = Unset
    BY <1>1, <1>3 DEF Blank, IsBindings
  <2>2. BoundEval(c, e, cfg, now)
    BY <1>1, <2>1 DEF BoundEval
  <2> QED  BY <1>1, <1>3, <2>1, <2>2 DEF Fits, Bound
<1> QED  BY <1>2, <1>3

(* EvalProgram and ReduceProgram.                                          *)
(* A call and its bindings once a program is about to run.                 *)
Begun(c, p) == [c EXCEPT !.reads = p.reads, !.got = {}]
Rebound(c, b, cfg, p) ==
    [b EXCEPT !.nowFn = CfgOf(c, cfg).nowFn,
              !.rules = IF p.rules = Unset THEN b.rules ELSE p.rules,
              !.rule = IF p.rule = Unset THEN b.rule ELSE p.rule]

LEMMA EvalProgramFits ==
    ASSUME NEW c, IsCall(c), ~c.reducing, NEW b, IsBindings(b), NEW cfg,
           NEW now \in Nat, Fits("program", c, b, cfg, now),
           NEW p, p = c.set[c.at], NEW d, NEW e,
           d = Begun(c, p), e = Rebound(c, b, cfg, p)
    PROVE  IsCall(d) /\ IsBindings(e) /\ Fits("resolve", d, e, cfg, now)
<1>1. Placed(c, now) /\ BoundEval(c, b, cfg, now) /\ OneTime(c)
  BY DEF Fits, Holds, Bound
<1>2. /\ IsCall(d) /\ ~d.reducing /\ d.set = c.set /\ d.at = c.at
      /\ d.nows = c.nows /\ d.since = c.since /\ d.this = c.this
      /\ d.clone = c.clone /\ d.asked = c.asked /\ d.reads = p.reads /\ d.got = {}
  BY DEF IsCall, Begun
<1>3. /\ IsBindings(e) /\ e.this = b.this /\ e.ts = b.ts
      /\ e.nowFn = CfgOf(c, cfg).nowFn
      /\ e.rules = IF p.rules = Unset THEN b.rules ELSE p.rules
      /\ e.rule = IF p.rule = Unset THEN b.rule ELSE p.rule
  BY DEF IsBindings, Rebound
<1>4. /\ p.rules = c.set[1].rules
      /\ p.rule = Unset <=> c.set[1].rules = Unset
      /\ p.reads \subseteq Name
  BY <1>1, Homogeneous DEF Placed
<1>5. CfgOf(d, cfg) = CfgOf(c, cfg)
  BY <1>2 DEF CfgOf
<1>6. e.rules = p.rules /\ e.rule = p.rule
  BY <1>1, <1>3, <1>4 DEF BoundEval
<1>7. BoundEval(d, e, cfg, now)
  BY <1>1, <1>2, <1>3, <1>4, <1>5, <1>6 DEF BoundEval
<1>8. Current(d, e, cfg)
  BY <1>2, <1>3, <1>5, <1>6 DEF Current
<1>9. Reading(d, cfg, now)
  BY <1>2, <1>4 DEF Reading
<1>10. Placed(d, now) /\ OneTime(d)
  BY <1>1, <1>2 DEF Placed, OneTime
<1> QED  BY <1>2, <1>3, <1>7, <1>8, <1>9, <1>10 DEF Fits, Bound

LEMMA ReduceProgramFits ==
    ASSUME NEW c, IsCall(c), c.reducing, NEW b, IsBindings(b), NEW cfg,
           NEW now \in Nat, Fits("program", c, b, cfg, now),
           NEW p, p = c.set[c.at], NEW d, NEW e,
           d = [c EXCEPT !.reads = p.reads, !.got = {}],
           e = [b EXCEPT !.rule = p.rule]
    PROVE  IsCall(d) /\ IsBindings(e) /\ Fits("resolve", d, e, cfg, now)
<1>1. Placed(c, now) /\ BoundReduce(c, b) /\ Dropped(c, c.at - 1)
  BY DEF Fits, Holds, Bound
<1>2. /\ IsCall(d) /\ d.reducing /\ d.set = c.set /\ d.at = c.at
      /\ d.since = c.since /\ d.residuals = c.residuals
      /\ d.reads = p.reads /\ d.got = {}
  BY DEF IsCall
<1>3. /\ IsBindings(e) /\ e.this = b.this /\ e.ts = b.ts
      /\ e.nowFn = b.nowFn /\ e.rules = b.rules /\ e.rule = p.rule
  BY DEF IsBindings
<1>4. p.rules = c.set[1].rules /\ p.reads \subseteq Name
  BY <1>1, Homogeneous DEF Placed
<1>5. BoundReduce(d, e) /\ Current(d, e, cfg)
  BY <1>1, <1>2, <1>3, <1>4 DEF BoundReduce, Current
<1>6. Reading(d, cfg, now)
  BY <1>2, <1>4 DEF Reading
<1>7. Placed(d, now) /\ Dropped(d, d.at - 1)
  BY <1>1, <1>2 DEF Placed, Dropped
<1> QED  BY <1>2, <1>3, <1>5, <1>6, <1>7 DEF Fits, Bound

(* ResolveName.                                                            *)
NowOf(b, now) == IF b.nowFn = Unset THEN Unset
                 ELSE IF b.ts = Unset THEN << b.nowFn, now >> ELSE b.ts
ValueOf(b, name, now) == IF name = "now" THEN NowOf(b, now) ELSE b[name]

(* What a read gives is right.                                             *)
LEMMA ReadRight ==
    ASSUME NEW c, IsCall(c), NEW b, IsBindings(b), NEW cfg, NEW now \in Nat,
           Placed(c, now), Bound(c, b, cfg, now), Current(c, b, cfg),
           NEW name \in Name
    PROVE  Right(c, cfg, now, << name, ValueOf(b, name, now) >>)
<1> DEFINE val == ValueOf(b, name, now)
<1>1. CASE name \in {"rules", "rule"}
  BY <1>1 DEF Right, ValueOf, Current
<1>2. CASE name = "this"
  BY <1>2 DEF Right, ValueOf, Bound, BoundReduce, BoundEval, IsCall
<1>3. CASE name = "now" /\ c.reducing
  BY <1>3 DEF Right, ValueOf, NowOf, Bound, BoundReduce
<1>4. CASE name = "now" /\ ~c.reducing
  <2>1. b.nowFn = CfgOf(c, cfg).nowFn /\ BoundEval(c, b, cfg, now)
    BY <1>4 DEF Current, Bound
  <2>2. CASE b.nowFn = Unset
    BY <1>4, <2>1, <2>2 DEF Right, ValueOf, NowOf
  <2>3. CASE b.nowFn # Unset
    <3>1. \E time \in 0 .. now : NowOf(b, now) = << CfgOf(c, cfg).nowFn, time >>
      <4>1. CASE b.ts = Unset
        <5>1. now \in 0 .. now
          OBVIOUS
        <5> QED  BY <2>1, <2>3, <4>1, <5>1 DEF NowOf
      <4>2. CASE b.ts # Unset
        <5>1. \A time \in c.since .. now : time \in 0 .. now
          BY DEF Placed
        <5> QED  BY <2>1, <2>3, <4>2, <5>1 DEF NowOf, BoundEval
      <4> QED  BY <4>1, <4>2
    <3> QED  BY <1>4, <2>1, <2>3, <3>1 DEF Right, ValueOf
  <2> QED  BY <2>2, <2>3
<1> QED  BY <1>1, <1>2, <1>3, <1>4 DEF Name

Resolved(c, name, val) ==
    [c EXCEPT !.reads = c.reads \ {name},
              !.got = c.got \cup {<< name, val >>},
              !.nows = IF name = "now" /\ val # Unset
                       THEN c.nows \cup {val} ELSE c.nows]
Stamped(b, name, val) ==
    IF name = "now" /\ b.nowFn # Unset THEN [b EXCEPT !.ts = val] ELSE b

LEMMA ResolveFits ==
    ASSUME NEW c, IsCall(c), NEW b, IsBindings(b), NEW cfg, NEW now \in Nat,
           Fits("resolve", c, b, cfg, now), NEW name \in c.reads,
           NEW d, NEW e, NEW val, val = ValueOf(b, name, now),
           d = Resolved(c, name, val), e = Stamped(b, name, val)
    PROVE  IsCall(d) /\ IsBindings(e) /\ Fits("resolve", d, e, cfg, now)
<1>1. /\ Placed(c, now) /\ Bound(c, b, cfg, now) /\ Current(c, b, cfg)
      /\ Reading(c, cfg, now)
      /\ ~c.reducing => OneTime(c)
      /\ c.reducing => Dropped(c, c.at - 1)
  BY DEF Fits, Holds
<1>2. /\ IsCall(d) /\ d.reducing = c.reducing /\ d.set = c.set /\ d.at = c.at
      /\ d.since = c.since /\ d.residuals = c.residuals /\ d.this = c.this
      /\ d.clone = c.clone /\ d.asked = c.asked
  BY DEF IsCall, Resolved
<1>3. /\ d.reads = c.reads \ {name}
      /\ d.got = c.got \cup {<< name, val >>}
      /\ d.nows = IF name = "now" /\ val # Unset THEN c.nows \cup {val}
                  ELSE c.nows
  BY DEF IsCall, Resolved
<1>4. /\ IsBindings(e) /\ e.this = b.this /\ e.nowFn = b.nowFn
      /\ e.rules = b.rules /\ e.rule = b.rule
      /\ e.ts = IF name = "now" /\ b.nowFn # Unset THEN val ELSE b.ts
  BY DEF IsBindings, Stamped
<1>5. CfgOf(d, cfg) = CfgOf(c, cfg)
  BY <1>2 DEF CfgOf
<1>6. name \in Name
  BY <1>1 DEF Reading
<1>7. \A g : Right(c, cfg, now, g) => Right(d, cfg, now, g)
  BY <1>2, <1>5 DEF Right
<1>8. Reading(d, cfg, now)
  <2>1. Right(d, cfg, now, << name, val >>)
    BY <1>1, <1>6, <1>7, ReadRight
  <2>2. d.reads \subseteq Name
    BY <1>1, <1>3 DEF Reading
  <2>3. \A g \in d.got : g[1] \in Name /\ Right(d, cfg, now, g)
    BY <1>1, <1>3, <1>6, <1>7, <2>1 DEF Reading
  <2>4. ASSUME NEW n \in d.set[d.at].reads
        PROVE  n \in d.reads \/ \E g \in d.got : g[1] = n
    <3>1. n \in c.reads \/ \E g \in c.got : g[1] = n
      BY <1>1, <1>2 DEF Reading
    <3>2. << name, val >> \in d.got /\ << name, val >>[1] = name
      BY <1>3
    <3>3. CASE n = name
      BY <3>2, <3>3
    <3>4. CASE n # name
      BY <1>3, <3>1, <3>4
    <3> QED  BY <3>3, <3>4
  <2> QED  BY <2>2, <2>3, <2>4 DEF Reading
<1>9. Current(d, e, cfg)
  BY <1>1, <1>2, <1>4, <1>5 DEF Current
<1>10. Placed(d, now) /\ (d.reducing => Dropped(d, d.at - 1))
  BY <1>1, <1>2 DEF Placed, Dropped
<1>11. CASE c.reducing
  <2>1. BoundReduce(d, e)
    BY <1>1, <1>2, <1>4, <1>11 DEF Bound, BoundReduce
  <2> QED  BY <1>2, <1>4, <1>8, <1>9, <1>10, <1>11, <2>1 DEF Fits, Bound
<1>12. CASE ~c.reducing
  <2>1. BoundEval(c, b, cfg, now) /\ OneTime(c) /\ b.nowFn = CfgOf(c, cfg).nowFn
    BY <1>1, <1>12 DEF Bound, Current
  <2>2. CASE name # "now" \/ b.nowFn = Unset
    <3>1. e.ts = b.ts /\ d.nows = c.nows
      BY <1>3, <1>4, <2>2 DEF ValueOf, NowOf
    <3>2. BoundEval(d, e, cfg, now) /\ OneTime(d)
      BY <1>2, <1>4, <1>5, <2>1, <3>1 DEF BoundEval, OneTime
    <3> QED  BY <1>2, <1>4, <1>8, <1>9, <1>10, <1>12, <3>2 DEF Fits, Bound
  <2>3. CASE name = "now" /\ b.nowFn # Unset
    <3>1. /\ e.ts = val
          /\ val = IF b.ts = Unset THEN << b.nowFn, now >> ELSE b.ts
          /\ d.nows \subseteq c.nows \cup {val}
          /\ val \in d.nows <=> val # Unset \/ val \in c.nows
      BY <1>3, <1>4, <2>3 DEF ValueOf, NowOf
    <3>2. now \in c.since .. now
      BY <1>1 DEF Placed
    <3>3. \E time \in c.since .. now : val = << CfgOf(c, cfg).nowFn, time >>
      BY <2>1, <3>1, <3>2 DEF BoundEval
    <3>4. \A x \in c.nows : x = val /\ b.ts # Unset
      BY <2>1, <3>1 DEF BoundEval
    <3>5. \A x \in d.nows : x = val /\ e.ts # Unset
      BY <1>3, <3>1, <3>4
    <3>6. val[2] >= c.since
      BY <3>3
    <3>7. BoundEval(d, e, cfg, now)
      BY <1>2, <1>4, <1>5, <2>1, <3>1, <3>3, <3>5 DEF BoundEval
    <3>8. OneTime(d)
      BY <1>2, <3>5, <3>6 DEF OneTime
    <3> QED  BY <1>2, <1>4, <1>8, <1>9, <1>10, <1>12, <3>7, <3>8 DEF Fits, Bound
  <2> QED  BY <2>2, <2>3
<1> QED  BY <1>11, <1>12

(* Evaluated, Reduced and KeepUnreduced go on to the next program or end.  *)
After(c, r, n) == [c EXCEPT !.at = n, !.residuals = r]
AfterAt(c, q) == IF q = "program" THEN c.at + 1 ELSE c.at

LEMMA AfterIs ==
    ASSUME NEW c, IsCall(c), NEW r, NEW n, NEW d, d = After(c, r, n)
    PROVE  /\ IsCall(d) /\ (d.reducing <=> c.reducing) /\ d.set = c.set
           /\ d.since = c.since /\ d.this = c.this
           /\ d.clone = c.clone /\ d.asked = c.asked
           /\ d.nows = c.nows /\ d.at = n /\ d.residuals = r
BY DEF IsCall, After

LEMMA NextEvalFits ==
    ASSUME NEW c, IsCall(c), ~c.reducing, NEW b, NEW cfg, NEW now \in Nat,
           Fits("resolve", c, b, cfg, now),
           NEW q \in {"program", "reset"}, q = "program" => c.at # Len(c.set)
    PROVE  /\ IsCall(After(c, c.residuals, AfterAt(c, q)))
           /\ Fits(q, After(c, c.residuals, AfterAt(c, q)),
                   b, cfg, now)
<1> DEFINE d == After(c, c.residuals, AfterAt(c, q))
<1>1. Placed(c, now) /\ BoundEval(c, b, cfg, now) /\ OneTime(c)
  BY DEF Fits, Holds, Bound
<1>2. /\ IsCall(d) /\ ~d.reducing /\ d.set = c.set /\ d.since = c.since
      /\ d.this = c.this /\ d.nows = c.nows
      /\ d.clone = c.clone /\ d.asked = c.asked
      /\ d.at = AfterAt(c, q)
  BY AfterIs
<1> HIDE DEF d
<1>3. Placed(d, now)
  BY <1>1, <1>2, Homogeneous DEF Placed, AfterAt
<1>4. CfgOf(d, cfg) = CfgOf(c, cfg)
  BY <1>2 DEF CfgOf
<1>5. BoundEval(d, b, cfg, now) /\ OneTime(d)
  BY <1>1, <1>2, <1>4 DEF BoundEval, OneTime
<1>6. Fits("reset", d, b, cfg, now)
  BY <1>2, <1>3, <1>5 DEF Fits
<1>7. Fits("program", d, b, cfg, now)
  BY <1>2, <1>3, <1>5 DEF Fits, Bound
<1> QED  BY <1>2, <1>6, <1>7 DEF d

LEMMA NextReduceFits ==
    ASSUME NEW c, IsCall(c), c.reducing, NEW b, NEW cfg, NEW now \in Nat,
           NEW p \in {"program", "resolve"}, Fits(p, c, b, cfg, now),
           NEW r, c.residuals \subseteq r,
           NEW q \in {"program", "reset"}, q = "program" <=> c.at # Len(c.set),
           c.at \notin r => Constant(c.set[c.at]) /\ c.set[c.at].holds
    PROVE  /\ IsCall(After(c, r, AfterAt(c, q)))
           /\ Fits(q, After(c, r, AfterAt(c, q)), b, cfg, now)
<1> SUFFICES ASSUME NEW d, d = After(c, r, AfterAt(c, q))
             PROVE  IsCall(d) /\ Fits(q, d, b, cfg, now)
  OBVIOUS
<1>1. Placed(c, now) /\ BoundReduce(c, b) /\ Dropped(c, c.at - 1)
  BY DEF Fits, Holds, Bound
<1>2. /\ IsCall(d) /\ (d.reducing <=> c.reducing) /\ d.set = c.set
      /\ d.since = c.since /\ d.residuals = r /\ d.at = AfterAt(c, q)
  BY AfterIs
<1>3. c.at \in Nat /\ c.at <= Len(c.set) /\ Len(c.set) \in Nat
  BY <1>1, Homogeneous DEF Placed
<1>4. Placed(d, now) /\ BoundReduce(d, b)
  <2>1. d.at \in DOMAIN d.set
    BY <1>1, <1>2, <1>3 DEF Placed, AfterAt
  <2>2. Placed(d, now)
    BY <1>1, <1>2, <2>1 DEF Placed
  <2>3. BoundReduce(d, b)
    BY <1>1, <1>2 DEF BoundReduce
  <2> QED  BY <2>2, <2>3
<1>5. Dropped(d, c.at)
  <2> SUFFICES ASSUME NEW i \in 1 .. c.at, i \notin r
               PROVE  Constant(c.set[i]) /\ c.set[i].holds
    BY <1>2 DEF Dropped
  <2>1. CASE i = c.at
    BY <2>1
  <2>2. CASE i # c.at
    <3>1. i \in 1 .. c.at - 1 /\ i \notin c.residuals
      BY <1>3, <2>2
    <3> QED  BY <1>1, <3>1 DEF Dropped
  <2> QED  BY <2>1, <2>2
<1>6. CASE c.at = Len(c.set)
  <2>1. Fits("reset", d, b, cfg, now)
    BY <1>2, <1>4, <1>5, <1>6 DEF Fits
  <2> QED  BY <1>2, <1>6, <2>1
<1>7. CASE c.at # Len(c.set)
  <2>1. Dropped(d, d.at - 1)
    BY <1>2, <1>3, <1>5, <1>7 DEF AfterAt
  <2>2. Fits("program", d, b, cfg, now)
    BY <1>2, <1>4, <2>1 DEF Fits, Bound
  <2> QED  BY <1>2, <1>7, <2>2
<1> QED  BY <1>6, <1>7

(* A program that passes without a message and a time passes always.       *)
LEMMA PassesAlways ==
    ASSUME NEW c, IsCall(c), c.reducing, NEW b, NEW cfg, NEW now \in Nat,
           Fits("resolve", c, b, cfg, now), c.reads = {},
           \A g \in c.got : g[1] \in c.set[c.at].needs => g[2] # Unset
    PROVE  Constant(c.set[c.at])
<1>1. Placed(c, now) /\ Reading(c, cfg, now)
  BY DEF Fits, Holds
<1>2. \A name \in c.set[c.at].reads : \E g \in c.got : g[1] = name
  BY <1>1 DEF Reading
<1>3. \A g \in c.got :
        /\ g[1] \in Name
        /\ g[1] \in c.set[c.at].needs => g[1] \notin {"this", "now"}
  BY <1>1 DEF Reading, Right, Name
<1>4. c.set[c.at].needs \subseteq c.set[c.at].reads
  BY <1>1, Homogeneous DEF Placed
<1> QED  BY <1>2, <1>3, <1>4 DEF Constant, Name

(* Reset.                                                                  *)
LEMMA ResetFits ==
    ASSUME NEW c, NEW b, NEW cfg, NEW now \in Nat, Fits("reset", c, b, cfg, now)
    PROVE  Fits("put", c, Blank, cfg, now)
BY DEF Fits, Holds

-----------------------------------------------------------------------------
(* Steps preserve the invariant.                                           *)

LEMMA InitInv == Init => IInv
<1> SUFFICES ASSUME Init PROVE IInv
  OBVIOUS
<1> USE DEF Init
<1>1. \A t \in Threads : pc[t] = "idle" /\ held[t] = Unset /\ call[t] = Idle
  OBVIOUS
<1>2. IsCall(Idle) /\ IsBindings(Blank) /\ ~Holds("idle") /\ "idle" \in PC
  BY DEF IsCall, Idle, IsBindings, Blank, Holds, PC
<1>3. Shape
  BY <1>1, <1>2 DEF Shape
<1>4. PoolClean
  BY <1>1 DEF PoolClean
<1>5. AllFit
  <2> SUFFICES ASSUME NEW u \in Threads
               PROVE  Fits(pc[u], call[u], heap[held[u]], shared, clock)
    BY DEF AllFit
  <2>1. ~Holds(pc[u])
    BY <1>1, <1>2
  <2> QED  BY <2>1, Free
<1>6. NoReduction
  BY <1>1 DEF NoReduction
<1> QED  BY <1>6, <1>3, <1>4, <1>5 DEF IInv

(* A goroutine works on the bindings it holds.                             *)
LEMMA InPlace ==
    ASSUME IInv, NEW t \in Threads, NEW q, NEW d, NEW e,
           Holds(pc[t]), Holds(q), IsCall(d), IsBindings(e),
           q = "put" => e = Blank,
           Fits(q, d, e, shared, clock),
           pc' = [pc EXCEPT ![t] = q],
           call' = [call EXCEPT ![t] = d],
           heap' = [heap EXCEPT ![held[t]] = e],
           UNCHANGED <<clock, shared, pool, held>>
    PROVE  IInv'
<1> USE DEF IInv
<1>1. held[t] \in Pointers /\ held[t] # Unset /\ q \in PC
  BY DEF Shape, Holds, PC
<1>2. /\ pc'[t] = q /\ call'[t] = d /\ heap'[held[t]] = e
      /\ \A u \in Threads \ {t} : pc'[u] = pc[u] /\ call'[u] = call[u]
      /\ \A a \in Pointers \ {held[t]} : heap'[a] = heap[a]
      /\ held' = held /\ pool' = pool /\ shared' = shared /\ clock' = clock
  BY <1>1 DEF Shape
<1>3. \A u \in Threads \ {t} : held[u] # held[t]
  BY <1>1 DEF PoolClean
<1>4. Shape'
  <2>1. heap' = [a \in Pointers |-> heap'[a]] /\ call' = [u \in Threads |-> call'[u]]
    BY <1>1 DEF Shape
  <2>2. \A a \in Pointers : IsBindings(heap'[a])
    BY <1>2 DEF Shape
  <2>3. pc' \in [Threads -> PC]
    BY <1>1 DEF Shape
  <2>4. \A u \in Threads : IsCall(call'[u])
    BY <1>2 DEF Shape
  <2>5. \A u \in Threads : held'[u] # Unset <=> Holds(pc'[u])
    BY <1>1, <1>2 DEF Shape
  <2> QED  BY <1>2, <2>1, <2>2, <2>3, <2>4, <2>5 DEF Shape
<1>5. PoolClean'
  <2>1. \A a \in pool : a # held[t]
    BY <1>1 DEF PoolClean
  <2>2. \A a \in pool' : heap'[a] = Blank
    BY <1>2, <2>1 DEF PoolClean, Shape
  <2>3. ASSUME NEW u \in Threads, NEW w \in Threads, held'[u] # Unset
        PROVE  held'[u] \notin pool' /\ (held'[u] = held'[w] => u = w)
    BY <1>2, <2>3 DEF PoolClean
  <2> QED  BY <2>2, <2>3 DEF PoolClean
<1>6. AllFit'
  <2> SUFFICES ASSUME NEW u \in Threads
               PROVE  Fits(pc'[u], call'[u], heap'[held'[u]], shared', clock')
    BY DEF AllFit
  <2>1. CASE u = t
    BY <1>2, <2>1
  <2>2. CASE u # t /\ ~Holds(pc[u])
    BY <1>2, <2>2, Free
  <2>3. CASE u # t /\ Holds(pc[u])
    <3>1. held[u] \in Pointers \ {held[t]}
      BY <1>3, <2>3 DEF Shape
    <3> QED  BY <1>2, <2>3, <3>1 DEF AllFit
  <2> QED  BY <2>1, <2>2, <2>3
<1>7. NoReduction'
  <2>1. q \notin {"options", "ready"}
    BY DEF Holds
  <2> QED  BY <1>2, <2>1 DEF NoReduction
<1> QED  BY <1>7, <1>4, <1>5, <1>6

(* A goroutine without bindings, before and after.                         *)
LEMMA Without ==
    ASSUME IInv, NEW t \in Threads, NEW q \in PC, NEW d,
           ~Holds(pc[t]), ~Holds(q), IsCall(d),
           q \in {"options", "ready"} => ~d.reducing,
           pc' = [pc EXCEPT ![t] = q],
           call' = [call EXCEPT ![t] = d],
           UNCHANGED <<clock, shared, heap, pool, held>>
    PROVE  IInv'
<1> USE DEF IInv
<1>1. /\ pc'[t] = q /\ call'[t] = d
      /\ \A u \in Threads \ {t} : pc'[u] = pc[u] /\ call'[u] = call[u]
      /\ held' = held /\ pool' = pool /\ shared' = shared /\ clock' = clock
      /\ heap' = heap
  BY DEF Shape
<1>2. Shape'
  <2>1. call' = [u \in Threads |-> call'[u]] /\ pc' \in [Threads -> PC]
    BY DEF Shape
  <2>2. \A u \in Threads : IsCall(call'[u]) /\ (held'[u] # Unset <=> Holds(pc'[u]))
    BY <1>1 DEF Shape
  <2> QED  BY <1>1, <2>1, <2>2 DEF Shape
<1>3. PoolClean'
  BY <1>1 DEF PoolClean
<1>4. AllFit'
  <2> SUFFICES ASSUME NEW u \in Threads
               PROVE  Fits(pc'[u], call'[u], heap'[held'[u]], shared', clock')
    BY DEF AllFit
  <2>1. CASE u = t
    BY <1>1, <2>1, Free
  <2>2. CASE u # t
    BY <1>1, <2>2 DEF AllFit
  <2> QED  BY <2>1, <2>2
<1>5. NoReduction'
  BY <1>1 DEF NoReduction
<1> QED  BY <1>5, <1>2, <1>3, <1>4

(* A goroutine takes bindings.                                             *)
LEMMA Taken ==
    ASSUME IInv, NEW t \in Threads, GetBindings(t), ~Holds(pc[t]), NEW d,
           IsCall(d), Fits("bind", d, Blank, shared, clock),
           call' = [call EXCEPT ![t] = d], UNCHANGED <<clock, shared>>
    PROVE  IInv'
<1> USE DEF IInv
<1>1. PICK a \in Pointers :
        /\ \A u \in Threads : held[u] # a
        /\ heap' = IF a \in pool THEN heap ELSE [heap EXCEPT ![a] = Blank]
        /\ pool' = pool \ {a}
        /\ held' = [held EXCEPT ![t] = a]
        /\ pc' = [pc EXCEPT ![t] = "bind"]
  BY DEF GetBindings
<1>2. /\ heap'[a] = Blank
      /\ \A x \in Pointers \ {a} : heap'[x] = heap[x]
      /\ heap' = [x \in Pointers |-> heap'[x]]
  BY <1>1 DEF Shape, PoolClean
<1>3. /\ pc'[t] = "bind" /\ call'[t] = d /\ held'[t] = a
      /\ \A u \in Threads \ {t} :
            pc'[u] = pc[u] /\ call'[u] = call[u] /\ held'[u] = held[u]
  BY <1>1 DEF Shape
<1>4. a # Unset /\ Holds("bind") /\ "bind" \in PC /\ IsBindings(Blank)
  BY BindingsAssumption DEF Holds, PC, IsBindings, Blank
<1>5. Shape'
  <2>1. call' = [u \in Threads |-> call'[u]] /\ pc' \in [Threads -> PC]
    BY <1>1, <1>4 DEF Shape
  <2>2. held' \in [Threads -> Pointers \cup {Unset}]
    BY <1>1 DEF Shape
  <2>3. \A u \in Threads : IsCall(call'[u]) /\ (held'[u] # Unset <=> Holds(pc'[u]))
    BY <1>3, <1>4 DEF Shape
  <2>4. \A x \in Pointers : IsBindings(heap'[x])
    BY <1>2, <1>4 DEF Shape
  <2>5. pool' \subseteq Pointers
    BY <1>1 DEF Shape
  <2> QED  BY <1>2, <2>1, <2>2, <2>3, <2>4, <2>5 DEF Shape
<1>6. PoolClean'
  <2>1. \A x \in pool' : heap'[x] = Blank
    BY <1>1, <1>2 DEF PoolClean, Shape
  <2>2. ASSUME NEW u \in Threads, held'[u] # Unset PROVE held'[u] \notin pool'
    BY <1>1, <1>3, <2>2 DEF PoolClean
  <2>3. ASSUME NEW u \in Threads, NEW w \in Threads, held'[u] # Unset,
               held'[u] = held'[w]
        PROVE  u = w
    BY <1>1, <1>3, <2>3 DEF PoolClean
  <2> QED  BY <2>1, <2>2, <2>3 DEF PoolClean
<1>7. AllFit'
  <2> SUFFICES ASSUME NEW u \in Threads
               PROVE  Fits(pc'[u], call'[u], heap'[held'[u]], shared', clock')
    BY DEF AllFit
  <2>1. CASE u = t
    BY <1>2, <1>3, <2>1
  <2>2. CASE u # t /\ ~Holds(pc[u])
    BY <1>3, <2>2, Free
  <2>3. CASE u # t /\ Holds(pc[u])
    <3>1. held[u] \in Pointers \ {a}
      BY <1>1, <2>3 DEF Shape
    <3> QED  BY <1>2, <1>3, <2>3, <3>1 DEF AllFit
  <2> QED  BY <2>1, <2>2, <2>3
<1>8. NoReduction'
  BY <1>3 DEF NoReduction
<1> QED  BY <1>8, <1>5, <1>6, <1>7

(* The locals of a goroutine outside its evaluations.                      *)
Asking(c, o, a, l) == [c EXCEPT !.options = o, !.asked = a, !.clone = l]
Applied(c, o, l) == [c EXCEPT !.options = o, !.clone = l]
Returned(a, l) == [Idle EXCEPT !.asked = a, !.clone = l]

LEMMA IdleIs == IsCall(Idle) /\ ~Idle.reducing
BY DEF IsCall, Idle

LEMMA AskingIs ==
    ASSUME NEW o, NEW a, NEW l, NEW d, d = Asking(Idle, o, a, l)
    PROVE  IsCall(d) /\ ~d.reducing
BY DEF IsCall, Asking, Idle

LEMMA AppliedIs ==
    ASSUME NEW c, IsCall(c), ~c.reducing, NEW o, NEW l, NEW d,
           d = Applied(c, o, l)
    PROVE  IsCall(d) /\ ~d.reducing
BY DEF IsCall, Applied

LEMMA ReturnedIs ==
    ASSUME NEW a, NEW l, NEW d, d = Returned(a, l)
    PROVE  IsCall(d) /\ ~d.reducing
BY DEF IsCall, Idle, Returned

(* A goroutine gives its bindings back.                                    *)
LEMMA Given ==
    ASSUME IInv, NEW t \in Threads, Put(t)
    PROVE  IInv'
<1> USE DEF IInv
<1>1. PICK q, d :
        /\ q = IF call[t].reducing THEN "idle" ELSE "ready"
        /\ d = IF call[t].reducing THEN Idle
               ELSE Returned(call[t].asked, call[t].clone)
        /\ pc[t] = "put" /\ pool' = pool \cup {held[t]}
        /\ held' = [held EXCEPT ![t] = Unset] /\ pc' = [pc EXCEPT ![t] = q]
        /\ call' = [call EXCEPT ![t] = d]
        /\ heap' = heap /\ clock' = clock /\ shared' = shared
  BY DEF Put, Returned
<1>2. /\ q \in {"idle", "ready"} /\ q \in PC /\ ~Holds(q) /\ Holds("put")
      /\ IsCall(d) /\ ~d.reducing
  <2>1. q \in {"idle", "ready"}
    BY <1>1
  <2>2. d = Idle \/ d = Returned(call[t].asked, call[t].clone)
    BY <1>1
  <2>3. ASSUME d = Idle PROVE IsCall(d) /\ ~d.reducing
    BY <2>3, IdleIs
  <2>4. IsCall(d) /\ ~d.reducing
    BY <2>2, <2>3, ReturnedIs
  <2> QED  BY <2>1, <2>4 DEF PC, Holds
<1>3. held[t] \in Pointers /\ held[t] # Unset /\ heap[held[t]] = Blank
  <2>1. held[t] \in Pointers /\ held[t] # Unset
    BY <1>1, <1>2 DEF Shape
  <2>2. Fits("put", call[t], heap[held[t]], shared, clock)
    BY <1>1 DEF AllFit
  <2> QED  BY <1>2, <2>1, <2>2 DEF Fits
<1>4. /\ pc'[t] = q /\ call'[t] = d /\ held'[t] = Unset
      /\ \A u \in Threads \ {t} :
            pc'[u] = pc[u] /\ call'[u] = call[u] /\ held'[u] = held[u]
  BY <1>1 DEF Shape
<1>5. Shape'
  <2>1. call' = [u \in Threads |-> call'[u]] /\ pc' \in [Threads -> PC]
    BY <1>1, <1>2 DEF Shape
  <2>2. held' \in [Threads -> Pointers \cup {Unset}] /\ pool' \subseteq Pointers
    BY <1>1, <1>3 DEF Shape
  <2>3. \A u \in Threads : IsCall(call'[u]) /\ (held'[u] # Unset <=> Holds(pc'[u]))
    BY <1>2, <1>4 DEF Shape
  <2> QED  BY <1>1, <2>1, <2>2, <2>3 DEF Shape
<1>6. PoolClean'
  <2>1. \A x \in pool' : heap'[x] = Blank
    BY <1>1, <1>3 DEF PoolClean
  <2>2. ASSUME NEW u \in Threads, held'[u] # Unset
        PROVE  /\ held'[u] \notin pool'
               /\ \A w \in Threads : held'[u] = held'[w] => u = w
    BY <1>1, <1>3, <1>4, <2>2 DEF PoolClean
  <2> QED  BY <2>1, <2>2 DEF PoolClean
<1>7. AllFit'
  <2> SUFFICES ASSUME NEW u \in Threads
               PROVE  Fits(pc'[u], call'[u], heap'[held'[u]], shared', clock')
    BY DEF AllFit
  <2>1. CASE u = t
    BY <1>2, <1>4, <2>1, Free
  <2>2. CASE u # t
    BY <1>1, <1>4, <2>2 DEF AllFit
  <2> QED  BY <2>1, <2>2
<1>8. NoReduction'
  BY <1>2, <1>4 DEF NoReduction
<1> QED  BY <1>8, <1>5, <1>6, <1>7

(* The steps of a call outside its evaluations.                            *)
LEMMA OutsideInv ==
    ASSUME IInv, NEW t \in Threads,
           \/ \E options \in Calls : Validate(t, options)
           \/ ApplyOption(t) \/ EvaluateMessage(t) \/ ReturnValidate(t)
    PROVE  IInv'
<1>1. /\ IsCall(call[t]) /\ call = [u \in Threads |-> call[u]]
      /\ \A q \in {"idle", "options", "ready"} : q \in PC /\ ~Holds(q)
      /\ pc = [u \in Threads |-> pc[u]]
  BY DEF IInv, Shape, PC, Holds
<1>2. ASSUME NEW options \in Calls, Validate(t, options) PROVE IInv'
  <2>1. PICK l : l = IF options = << >> THEN Unset ELSE shared
    OBVIOUS
  <2>2. PICK d : d = Asking(Idle, options, options, l)
    OBVIOUS
  <2>3. IsCall(d) /\ ~d.reducing
    BY <2>2, AskingIs
  <2>4. /\ pc[t] = "idle" /\ call' = [call EXCEPT ![t] = d]
        /\ pc' = [pc EXCEPT ![t] = "options"]
        /\ UNCHANGED <<clock, shared, heap, pool, held>>
    BY <1>2, <2>1, <2>2 DEF Validate, Asking
  <2> QED  BY <1>1, <2>3, <2>4, Without
<1>3. CASE ApplyOption(t)
  <2>1. PICK d : d = Applied(call[t], Tail(call[t].options),
                             Apply(call[t].clone, Head(call[t].options)))
    OBVIOUS
  <2>2. /\ pc[t] = "options" /\ call' = [call EXCEPT ![t] = d]
        /\ pc' = [pc EXCEPT ![t] = "options"]
        /\ UNCHANGED <<clock, shared, heap, pool, held>>
    BY <1>1, <1>3, <2>1 DEF ApplyOption, Applied
  <2>3. ~call[t].reducing
    BY <2>2 DEF IInv, NoReduction
  <2>4. IsCall(d) /\ ~d.reducing
    BY <1>1, <2>1, <2>3, AppliedIs
  <2> QED  BY <1>1, <2>2, <2>4, Without
<1>4. CASE EvaluateMessage(t)
  <2>1. /\ pc[t] = "options" /\ call' = [call EXCEPT ![t] = call[t]]
        /\ pc' = [pc EXCEPT ![t] = "ready"]
        /\ UNCHANGED <<clock, shared, heap, pool, held>>
    BY <1>1, <1>4 DEF EvaluateMessage
  <2>2. ~call[t].reducing
    BY <2>1 DEF IInv, NoReduction
  <2> QED  BY <1>1, <2>1, <2>2, Without
<1>5. CASE ReturnValidate(t)
  <2>1. IsCall(Idle)
    BY DEF IsCall, Idle
  <2>2. /\ pc[t] = "ready" /\ call' = [call EXCEPT ![t] = Idle]
        /\ pc' = [pc EXCEPT ![t] = "idle"]
        /\ UNCHANGED <<clock, shared, heap, pool, held>>
    BY <1>5 DEF ReturnValidate
  <2> QED  BY <1>1, <2>1, <2>2, Without
<1> QED  BY <1>2, <1>3, <1>4, <1>5

(* NextProgram in a loop that nothing stops.                               *)
LEMMA NextIs ==
    ASSUME NEW t, NEW r, NextProgram(t, FALSE, r)
    PROVE  \E q \in {"program", "reset"} :
             /\ pc' = [pc EXCEPT ![t] = q]
             /\ q = "reset" <=> call[t].at = Len(call[t].set)
             /\ call' = [call EXCEPT ![t] = After(call[t], r, AfterAt(call[t], q))]
<1> DEFINE q == IF FALSE \/ call[t].at = Len(call[t].set) THEN "reset"
                ELSE "program"
<1>1. /\ pc' = [pc EXCEPT ![t] = q]
      /\ call' = [call EXCEPT ![t] = After(call[t], r, AfterAt(call[t], q))]
  BY DEF NextProgram, After, AfterAt
<1>2. /\ q \in {"program", "reset"}
      /\ q = "reset" <=> call[t].at = Len(call[t].set)
  OBVIOUS
<1> HIDE DEF q
<1> QED  BY <1>1, <1>2

(* Reduced and KeepUnreduced.                                              *)
LEMMA Advance ==
    ASSUME IInv, NEW t \in Threads, pc[t] \in {"program", "resolve"},
           call[t].reducing, NEW r, NextProgram(t, FALSE, r),
           call[t].residuals \subseteq r,
           call[t].at \notin r => /\ Constant(call[t].set[call[t].at])
                                 /\ call[t].set[call[t].at].holds,
           UNCHANGED <<clock, shared, heap, pool, held>>
    PROVE  IInv'
<1> DEFINE c == call[t]
           b == heap[held[t]]
<1>1. /\ IsCall(c) /\ heap = [a \in Pointers |-> heap[a]] /\ clock \in Nat
      /\ Fits(pc[t], c, b, shared, clock)
      /\ Holds(pc[t]) /\ IsBindings(b)
      /\ Holds("program") /\ Holds("resolve") /\ Holds("reset")
  BY DEF IInv, Shape, AllFit, Holds
<1> HIDE DEF c, b
<1>2. PICK q \in {"program", "reset"} :
        /\ pc' = [pc EXCEPT ![t] = q]
        /\ q = "reset" <=> c.at = Len(c.set)
        /\ call' = [call EXCEPT ![t] = After(c, r, AfterAt(c, q))]
  BY NextIs DEF c
<1>3. PICK d : d = After(c, r, AfterAt(c, q))
  OBVIOUS
<1>4. heap' = [heap EXCEPT ![held[t]] = b]
  BY <1>1 DEF b
<1>5. IsCall(d) /\ Fits(q, d, b, shared, clock)
  BY <1>1, <1>2, <1>3, NextReduceFits DEF c
<1>6. Holds(q) /\ q # "put"
  BY <1>1, <1>2
<1> QED  BY <1>1, <1>2, <1>3, <1>4, <1>5, <1>6, InPlace

(* The steps of an evaluation.                                             *)
LEMMA InsideInv ==
    ASSUME IInv, NEW t \in Threads,
           \/ Bind(t) \/ EvalProgram(t) \/ ReduceProgram(t) \/ KeepUnreduced(t)
           \/ \E name \in Name : ResolveName(t, name)
           \/ \E verdict \in {"pass", "fail", "error"} :
                 Evaluated(t, verdict) \/ Reduced(t, verdict)
           \/ Reset(t)
    PROVE  IInv'
<1> DEFINE c == call[t]
           b == heap[held[t]]
           p == c.set[c.at]
<1>1. /\ IsCall(c) /\ call = [u \in Threads |-> call[u]]
      /\ heap = [a \in Pointers |-> heap[a]] /\ clock \in Nat
      /\ Fits(pc[t], c, b, shared, clock)
      /\ c.reducing \in BOOLEAN
  BY DEF IInv, Shape, AllFit, IsCall
<1>2. /\ \A q \in {"bind", "program", "resolve", "reset", "put"} : Holds(q)
      /\ Holds(pc[t]) => held[t] \in Pointers /\ IsBindings(b)
  BY DEF IInv, Shape, Holds
<1> HIDE DEF c, b, p
<1>3. CASE Bind(t)
  <2> DEFINE e == IF c.reducing THEN [b EXCEPT !.rules = c.set[1].rules]
                  ELSE [b EXCEPT !.this = c.this]
  <2>1. /\ pc[t] = "bind" /\ heap' = [heap EXCEPT ![held[t]] = e]
        /\ pc' = [pc EXCEPT ![t] = "program"]
        /\ call' = [call EXCEPT ![t] = c]
        /\ UNCHANGED <<clock, shared, pool, held>>
    BY <1>1, <1>3 DEF Bind, c, b
  <2>2. IsBindings(e) /\ Fits("program", c, e, shared, clock)
    BY <1>1, <2>1, BindFits
  <2> QED  BY <1>1, <1>2, <2>1, <2>2, InPlace
<1>4. CASE EvalProgram(t)
  <2>1. PICK d, e : d = Begun(c, p) /\ e = Rebound(c, b, shared, p)
    OBVIOUS
  <2>2. /\ pc[t] = "program" /\ ~c.reducing
        /\ heap' = [heap EXCEPT ![held[t]] = e]
        /\ pc' = [pc EXCEPT ![t] = "resolve"]
        /\ call' = [call EXCEPT ![t] = d]
        /\ UNCHANGED <<clock, shared, pool, held>>
    BY <1>4, <2>1 DEF EvalProgram, c, b, p, Cfg, CfgOf, Begun, Rebound
  <2>3. IsBindings(b) /\ p = c.set[c.at] /\ Fits("program", c, b, shared, clock)
    BY <1>1, <1>2, <2>2 DEF p
  <2>4. IsCall(d) /\ IsBindings(e) /\ Fits("resolve", d, e, shared, clock)
    <3>1. IsCall(c) /\ clock \in Nat /\ ~c.reducing
      BY <1>1, <2>2
    <3>2. PICK x, y, z, cfg, now :
             x = c /\ y = b /\ z = p /\ cfg = shared /\ now = clock
      OBVIOUS
    <3>3. /\ IsCall(x) /\ ~x.reducing /\ IsBindings(y) /\ now \in Nat
          /\ Fits("program", x, y, cfg, now) /\ z = x.set[x.at]
      BY <2>3, <3>1, <3>2
    <3>4. d = Begun(x, z) /\ e = Rebound(x, y, cfg, z)
      BY <2>1, <3>2
    <3>5. IsCall(d) /\ IsBindings(e) /\ Fits("resolve", d, e, cfg, now)
      BY ONLY <3>3, <3>4, EvalProgramFits
    <3> QED  BY <3>2, <3>5
  <2> QED  BY <1>1, <1>2, <2>2, <2>4, InPlace
<1>5. CASE ReduceProgram(t)
  <2>1. PICK d, e : /\ d = [c EXCEPT !.reads = p.reads, !.got = {}]
                    /\ e = [b EXCEPT !.rule = p.rule]
    OBVIOUS
  <2>2. /\ pc[t] = "program" /\ c.reducing
        /\ heap' = [heap EXCEPT ![held[t]] = e]
        /\ pc' = [pc EXCEPT ![t] = "resolve"]
        /\ call' = [call EXCEPT ![t] = d]
        /\ UNCHANGED <<clock, shared, pool, held>>
    BY <1>5, <2>1 DEF ReduceProgram, c, b, p
  <2>3. IsBindings(b) /\ p = c.set[c.at] /\ Fits("program", c, b, shared, clock)
    BY <1>1, <1>2, <2>2 DEF p
  <2>4. IsCall(d) /\ IsBindings(e) /\ Fits("resolve", d, e, shared, clock)
    BY <1>1, <2>1, <2>2, <2>3, ReduceProgramFits
  <2> QED  BY <1>1, <1>2, <2>2, <2>4, InPlace
<1>6. ASSUME NEW name \in Name, ResolveName(t, name) PROVE IInv'
  <2>1. PICK val, d, e :
          /\ val = ValueOf(b, name, clock)
          /\ d = Resolved(c, name, val)
          /\ e = Stamped(b, name, val)
    OBVIOUS
  <2>2. /\ pc[t] = "resolve" /\ name \in c.reads
        /\ heap' = IF name = "now" /\ b.nowFn # Unset
                   THEN [heap EXCEPT ![held[t]].ts = val] ELSE heap
        /\ call' = [call EXCEPT ![t] = d]
        /\ UNCHANGED <<clock, shared, pool, held, pc>>
    BY <1>6, <2>1 DEF ResolveName, Resolved, Now, NowOf, ValueOf, c, b
  <2>3. heap' = [heap EXCEPT ![held[t]] = e]
    BY <1>1, <2>1, <2>2 DEF b, Stamped
  <2>4. pc' = [pc EXCEPT ![t] = "resolve"]
    BY <2>2 DEF IInv, Shape
  <2>5. IsBindings(b) /\ Fits("resolve", c, b, shared, clock)
    BY <1>1, <1>2, <2>2
  <2>6. IsCall(d) /\ IsBindings(e) /\ Fits("resolve", d, e, shared, clock)
    <3>1. IsCall(c) /\ clock \in Nat /\ name \in c.reads
      BY <1>1, <2>2
    <3> QED  BY ONLY <2>1, <2>5, <3>1, ResolveFits
  <2>7. PICK q : q = "resolve"
    OBVIOUS
  <2>8. /\ Holds(pc[t]) /\ Holds(q) /\ q # "put" /\ IsCall(d) /\ IsBindings(e)
        /\ Fits(q, d, e, shared, clock)
    BY <1>2, <2>2, <2>6, <2>7
  <2>9. /\ pc' = [pc EXCEPT ![t] = q] /\ call' = [call EXCEPT ![t] = d]
        /\ heap' = [heap EXCEPT ![held[t]] = e]
        /\ UNCHANGED <<clock, shared, pool, held>>
    BY <2>2, <2>3, <2>4, <2>7
  <2> QED  BY <2>8, <2>9, InPlace
<1>7. ASSUME NEW verdict \in {"pass", "fail", "error"}, Evaluated(t, verdict)
      PROVE  IInv'
  <2> DEFINE stop == verdict = "error" \/ (verdict = "fail" /\ Cfg(t).failFast)
             q == IF stop \/ c.at = Len(c.set) THEN "reset" ELSE "program"
  <2>1. /\ pc' = [pc EXCEPT ![t] = q]
        /\ call' = [call EXCEPT ![t] = After(c, c.residuals, AfterAt(c, q))]
    BY <1>7 DEF Evaluated, NextProgram, After, AfterAt, c
  <2>2. q \in {"program", "reset"} /\ (q = "program" => c.at # Len(c.set))
    OBVIOUS
  <2> HIDE DEF q
  <2>3. /\ pc[t] = "resolve" /\ ~c.reducing
        /\ UNCHANGED <<clock, shared, heap, pool, held>>
    BY <1>7 DEF Evaluated, c
  <2>4. PICK d : d = After(c, c.residuals, AfterAt(c, q))
    OBVIOUS
  <2>5. heap' = [heap EXCEPT ![held[t]] = b]
    BY <1>1, <2>3 DEF b
  <2>6. IsCall(d) /\ Fits(q, d, b, shared, clock)
    BY <1>1, <2>2, <2>3, <2>4, NextEvalFits
  <2>7. IsBindings(b) /\ Holds(pc[t]) /\ Holds(q) /\ q # "put"
    BY <1>2, <2>2, <2>3
  <2> QED  BY <2>1, <2>3, <2>4, <2>5, <2>6, <2>7, InPlace
<1>8. ASSUME NEW verdict \in {"pass", "fail", "error"}, Reduced(t, verdict)
      PROVE  IInv'
  <2>1. PICK r :
          /\ r = c.residuals \cup (IF verdict # "pass" THEN {c.at} ELSE {})
          /\ NextProgram(t, FALSE, r)
    BY <1>8 DEF Reduced, c
  <2>2. /\ pc[t] = "resolve" /\ c.reducing /\ c.reads = {}
        /\ verdict \in Verdicts(t)
        /\ UNCHANGED <<clock, shared, heap, pool, held>>
    BY <1>8 DEF Reduced, c
  <2>3. c.at \notin r => Constant(p) /\ p.holds
    <3> SUFFICES ASSUME verdict = "pass" PROVE Constant(p) /\ p.holds
      BY <2>1
    <3>1. /\ \A g \in c.got : g[1] \in p.needs => g[2] # Unset
          /\ Constant(p) => p.holds
      BY <2>2 DEF Verdicts, c, p
    <3>2. Constant(p)
      BY <1>1, <2>2, <3>1, PassesAlways DEF p
    <3> QED  BY <3>1, <3>2
  <2>4. c.residuals \subseteq r
    BY <2>1
  <2> QED  BY <1>1, <2>1, <2>2, <2>3, <2>4, Advance DEF c, p
<1>9. CASE KeepUnreduced(t)
  <2>1. PICK r : r = c.residuals \cup {c.at} /\ NextProgram(t, FALSE, r)
    BY <1>9 DEF KeepUnreduced, c
  <2>2. /\ pc[t] = "program" /\ c.reducing
        /\ UNCHANGED <<clock, shared, heap, pool, held>>
    BY <1>9 DEF KeepUnreduced, c
  <2>3. c.residuals \subseteq r /\ c.at \in r
    BY <2>1
  <2> QED  BY <2>1, <2>2, <2>3, Advance DEF c
<1>10. CASE Reset(t)
  <2>1. /\ pc[t] = "reset" /\ heap' = [heap EXCEPT ![held[t]] = Blank]
        /\ pc' = [pc EXCEPT ![t] = "put"]
        /\ call' = [call EXCEPT ![t] = c]
        /\ UNCHANGED <<clock, shared, pool, held>>
    BY <1>1, <1>10 DEF Reset, c
  <2>2. IsBindings(Blank) /\ Fits("put", c, Blank, shared, clock)
    BY <1>1, <2>1, ResetFits DEF IsBindings, Blank
  <2> QED  BY <1>1, <1>2, <2>1, <2>2, InPlace
<1> QED  BY <1>3, <1>4, <1>5, <1>6, <1>7, <1>8, <1>9, <1>10

LEMMA TickInv ==
    ASSUME IInv, Tick
    PROVE  IInv'
<1>1. /\ clock \in Nat /\ clock' = clock + 1
      /\ shared' = shared /\ heap' = heap /\ pool' = pool /\ held' = held
      /\ pc' = pc /\ call' = call
  BY DEF IInv, Shape, Tick
<1>2. Shape'
  BY <1>1 DEF IInv, Shape
<1>3. PoolClean'
  BY <1>1 DEF IInv, PoolClean
<1>4. AllFit'
  <2> SUFFICES ASSUME NEW u \in Threads
               PROVE  Fits(pc'[u], call'[u], heap'[held'[u]], shared', clock')
    BY DEF AllFit
  <2>1. Fits(pc[u], call[u], heap[held[u]], shared, clock)
    BY DEF IInv, AllFit
  <2> QED  BY <1>1, <2>1, Later
<1>5. NoReduction'
  BY <1>1 DEF IInv, NoReduction
<1> QED  BY <1>5, <1>2, <1>3, <1>4 DEF IInv

LEMMA StutterInv ==
    ASSUME IInv, UNCHANGED vars
    PROVE  IInv'
<1>1. /\ clock' = clock /\ shared' = shared /\ heap' = heap /\ pool' = pool
      /\ held' = held /\ pc' = pc /\ call' = call
  BY DEF vars
<1>2. Shape'
  BY <1>1 DEF IInv, Shape
<1>3. PoolClean'
  BY <1>1 DEF IInv, PoolClean
<1>4. AllFit'
  BY <1>1 DEF IInv, AllFit
<1>5. NoReduction'
  BY <1>1 DEF IInv, NoReduction
<1> QED  BY <1>5, <1>2, <1>3, <1>4 DEF IInv

LEMMA NextInv ==
    ASSUME IInv, [Next]_vars
    PROVE  IInv'
<1>1. CASE Tick
  BY <1>1, TickInv
<1>2. ASSUME NEW t \in Threads, NEW set \in ProgramSets, NEW val \in Values,
             Eval(t, set, val)
      PROVE  IInv'
  <2>1. PICK d : d = [call[t] EXCEPT !.set = set, !.this = val, !.at = 1,
                        !.nows = {}, !.since = clock]
    OBVIOUS
  <2>2. /\ pc[t] = "ready" /\ GetBindings(t)
        /\ call' = [call EXCEPT ![t] = d] /\ UNCHANGED <<clock, shared>>
    BY <1>2, <2>1 DEF Eval
  <2>3. IsCall(call[t]) /\ clock \in Nat /\ ~Holds(pc[t])
    BY <2>2 DEF IInv, Shape, Holds
  <2>4. ~call[t].reducing
    BY <2>2 DEF IInv, NoReduction
  <2>5. IsCall(d) /\ Fits("bind", d, Blank, shared, clock)
    BY <2>1, <2>3, <2>4, EvalFits
  <2> QED  BY <2>2, <2>3, <2>5, Taken
<1>3. ASSUME NEW t \in Threads, NEW set \in ProgramSets, ReduceResiduals(t, set)
      PROVE  IInv'
  <2>1. PICK d : d = [Idle EXCEPT !.reducing = TRUE, !.set = set]
    OBVIOUS
  <2>2. /\ pc[t] = "idle" /\ GetBindings(t)
        /\ call' = [call EXCEPT ![t] = d] /\ UNCHANGED <<clock, shared>>
    BY <1>3, <2>1 DEF ReduceResiduals
  <2>3. clock \in Nat /\ ~Holds(pc[t])
    BY <2>2 DEF IInv, Shape, Holds
  <2>4. IsCall(d) /\ Fits("bind", d, Blank, shared, clock)
    BY <2>1, <2>3, ReduceFits
  <2> QED  BY <2>2, <2>3, <2>4, Taken
<1>4. ASSUME NEW t \in Threads, Put(t) PROVE IInv'
  BY <1>4, Given
<1>5. CASE UNCHANGED vars
  BY <1>5, StutterInv
<1> QED  BY <1>1, <1>2, <1>3, <1>4, <1>5, OutsideInv, InsideInv DEF Next


(* At every point of its evaluation, the bindings of a goroutine contain   *)
(* what is its own, and those in the pool nothing (bindings.go:63-71,      *)
(* program.go:40-102, ast.go:42-91).                                       *)
THEOREM Invariance == Spec => []IInv
<1>1. Init => IInv
  BY InitInv
<1>2. IInv /\ [Next]_vars => IInv'
  BY NextInv
<1> HIDE DEF IInv
<1> QED  BY <1>1, <1>2, PTL DEF Spec

-----------------------------------------------------------------------------
(* What follows for the properties of the runs.                            *)

(* Bindings in the pool are blank, and no goroutine has those of another   *)
(* (bindings.go:63-71: putBindings resets before it puts).                 *)
THEOREM PoolIsClean == Spec => []PoolClean
<1>1. IInv => PoolClean
  BY DEF IInv
<1> QED  BY <1>1, Invariance, PTL

(* What a program reads is the message, the rule and the time source of    *)
(* its own evaluation (bindings.go:36-53, program.go:48-102), and one that *)
(* is reduced reads neither a message nor the time (ast.go:54-79).         *)
THEOREM ReadsAreOwn == Spec => []OwnValues
<1>1. IInv => OwnValues
  <2> SUFFICES ASSUME IInv, NEW t \in Threads, pc[t] = "resolve",
                      NEW g \in call[t].got
               PROVE  IF g[1] = "now" /\ ~call[t].reducing /\ Cfg(t).nowFn # Unset
                      THEN \E time \in 0 .. clock : g[2] = << Cfg(t).nowFn, time >>
                      ELSE g[2] = Expected(t, g[1])
    BY DEF OwnValues
  <2>1. Fits("resolve", call[t], heap[held[t]], shared, clock)
    BY DEF IInv, AllFit
  <2>2. g[1] \in Name /\ Right(call[t], shared, clock, g)
    BY <2>1 DEF Fits, Reading, Holds
  <2>3. CfgOf(call[t], shared) = Cfg(t)
    BY DEF CfgOf, Cfg
  <2>4. CASE g[1] = "rules"
    BY <2>2, <2>4 DEF Right, Expected
  <2>5. CASE g[1] = "rule"
    BY <2>2, <2>5 DEF Right, Expected
  <2>6. CASE g[1] = "this"
    BY <2>2, <2>6 DEF Right, Expected
  <2>7. CASE g[1] = "now"
    BY <2>2, <2>3, <2>7 DEF Right, Expected
  <2> QED  BY <2>2, <2>4, <2>5, <2>6, <2>7 DEF Name
<1> QED  BY <1>1, Invariance, PTL

(* The programs of a set all see one time, which was asked for after the   *)
(* evaluation of the set began (bindings.go:45-51).                        *)
THEOREM TimeIsOne == Spec => []OneNow
<1>1. IInv => OneNow
  <2> SUFFICES ASSUME IInv, NEW t \in Threads, Holding(t), ~call[t].reducing
               PROVE  OneTime(call[t])
    BY DEF OneNow, OneTime
  <2>1. Fits(pc[t], call[t], heap[held[t]], shared, clock) /\ Holds(pc[t])
    BY DEF IInv, AllFit, Holding, Holds
  <2> QED  BY <2>1 DEF Fits
<1> QED  BY <1>1, Invariance, PTL

(* ReduceResiduals drops no program that could fail or have an error for   *)
(* some message (ast.go:58-91).                                            *)
THEOREM ReductionIsSound == Spec => []ResidualsSound
<1>1. IInv => ResidualsSound
  <2> SUFFICES ASSUME IInv, NEW t \in Threads, pc[t] \in {"reset", "put"},
                      call[t].reducing,
                      NEW i \in DOMAIN call[t].set \ call[t].residuals
               PROVE  Constant(call[t].set[i]) /\ call[t].set[i].holds
    BY DEF ResidualsSound
  <2>1. Fits(pc[t], call[t], heap[held[t]], shared, clock) /\ Holds(pc[t])
    BY DEF IInv, AllFit, Holds
  <2>2. Dropped(call[t], Len(call[t].set)) /\ call[t].set \in ProgramSets
    BY <2>1 DEF Fits, Placed
  <2>3. call[t].set \in Seq(Program)
    BY <2>2, BindingsAssumption
  <2>4. i \in 1 .. Len(call[t].set)
    BY <2>3
  <2> QED  BY <2>2, <2>4 DEF Dropped
<1> QED  BY <1>1, Invariance, PTL

-----------------------------------------------------------------------------
(* The configuration of a call: what its first n options make of the       *)
(* validator's.                                                            *)

LastAt(asked, at, default) ==
    IF at = {} THEN default
    ELSE asked[CHOOSE i \in at : \A j \in at : j <= i].val
LastTo(kind, asked, n, default) ==
    LastAt(asked, {i \in 1 .. n : asked[i].kind = kind}, default)

Effect(asked, n) ==
    LET filter == LastTo("filter", asked, n, Config.filter)
    IN  [failFast |-> LastTo("failFast", asked, n, Config.failFast),
         filter |-> IF filter = Unset THEN NopFilter ELSE filter,
         nowFn |-> LastTo("nowFunc", asked, n, Config.nowFn)]

(* While the options are applied, those left are the last ones.            *)
Applying(c) ==
    LET n == Len(c.asked) - Len(c.options)
    IN  /\ c.options \in Seq(Option)
        /\ n \in Nat
        /\ \A i \in 1 .. Len(c.options) : c.options[i] = c.asked[n + i]
        /\ c.asked # << >> => c.clone = Effect(c.asked, n)

Configured(p, c) ==
    /\ c.asked \in Calls \cup {<< >>}
    /\ p = "options" => Applying(c)
    /\ p \notin {"idle", "options"} /\ ~c.reducing /\ c.asked # << >>
          => c.clone = Effect(c.asked, Len(c.asked))

ConfigInv ==
    /\ shared = Config
    /\ \A t \in Threads : Configured(pc[t], call[t])

LEMMA LastNone ==
    ASSUME NEW kind, NEW asked, NEW default
    PROVE  LastTo(kind, asked, 0, default) = default
BY DEF LastTo, LastAt

(* One more option: it counts if it is of the kind.                        *)
LEMMA LastNext ==
    ASSUME NEW kind, NEW asked, NEW n \in Nat, NEW default
    PROVE  LastTo(kind, asked, n + 1, default) =
              IF asked[n + 1].kind = kind THEN asked[n + 1].val
              ELSE LastTo(kind, asked, n, default)
<1> DEFINE at(k) == {i \in 1 .. k : asked[i].kind = kind}
<1>1. 1 .. n + 1 = (1 .. n) \cup {n + 1}
  OBVIOUS
<1>2. \A k : LastTo(kind, asked, k, default) = LastAt(asked, at(k), default)
  BY DEF LastTo
<1>3. CASE asked[n + 1].kind = kind
  <2>1. n + 1 \in at(n + 1) /\ \A j \in at(n + 1) : j \in Nat /\ j <= n + 1
    BY <1>1, <1>3
  <2> HIDE DEF at
  <2>2. (CHOOSE i \in at(n + 1) : \A j \in at(n + 1) : j <= i) = n + 1
    <3>1. \A i \in at(n + 1) : (\A j \in at(n + 1) : j <= i) => i = n + 1
      BY <2>1
    <3> QED  BY <2>1, <3>1
  <2>3. at(n + 1) # {}
    BY <2>1
  <2> QED  BY <1>2, <1>3, <2>2, <2>3 DEF LastAt
<1>4. CASE asked[n + 1].kind # kind
  <2>1. at(n + 1) = at(n)
    BY <1>1, <1>4
  <2> HIDE DEF at
  <2> QED  BY <1>2, <1>4, <2>1
<1> QED  BY <1>3, <1>4

LEMMA EffectNone ==
    ASSUME NEW asked
    PROVE  Effect(asked, 0) = Config
<1>1. /\ Config = [failFast |-> Config.failFast, filter |-> Config.filter,
                   nowFn |-> Config.nowFn]
      /\ Config.filter # Unset
  BY BindingsAssumption
<1> QED  BY <1>1, LastNone DEF Effect

(* An option applied is one option more.                                   *)
LEMMA EffectNext ==
    ASSUME NEW asked, NEW n \in Nat, NEW o \in Option, o = asked[n + 1]
    PROVE  Apply(Effect(asked, n), o) = Effect(asked, n + 1)
<1> DEFINE e == Effect(asked, n)
           f == Effect(asked, n + 1)
           filter(k) == LastTo("filter", asked, k, Config.filter)
<1>1. \A kind, default : LastTo(kind, asked, n + 1, default) =
         IF o.kind = kind THEN o.val ELSE LastTo(kind, asked, n, default)
  BY LastNext
<1>2. /\ f.failFast = IF o.kind = "failFast" THEN o.val ELSE e.failFast
      /\ f.nowFn = IF o.kind = "nowFunc" THEN o.val ELSE e.nowFn
      /\ f.filter = IF filter(n + 1) = Unset THEN NopFilter ELSE filter(n + 1)
      /\ e.filter = IF filter(n) = Unset THEN NopFilter ELSE filter(n)
  BY <1>1 DEF Effect
<1>3. f.filter = IF o.kind = "filter"
                 THEN IF o.val = Unset THEN NopFilter ELSE o.val ELSE e.filter
  <2>1. filter(n + 1) = IF o.kind = "filter" THEN o.val ELSE filter(n)
    BY <1>1
  <2> QED  BY <1>2, <2>1
<1>4. /\ e = [failFast |-> e.failFast, filter |-> e.filter, nowFn |-> e.nowFn]
      /\ f = [failFast |-> f.failFast, filter |-> f.filter, nowFn |-> f.nowFn]
  BY DEF Effect
<1> SUFFICES Apply(e, o) = f
  OBVIOUS
<1> HIDE DEF e, f
<1>5. CASE o.kind = "failFast"
  <2>1. o.val = TRUE
    BY <1>5 DEF Option
  <2> QED  BY <1>2, <1>3, <1>4, <1>5, <2>1 DEF Apply
<1>6. CASE o.kind = "filter"
  BY <1>2, <1>3, <1>4, <1>6 DEF Apply
<1>7. CASE o.kind = "nowFunc"
  BY <1>2, <1>3, <1>4, <1>7 DEF Apply
<1>8. o.kind \in {"failFast", "filter", "nowFunc"}
  BY DEF Option
<1> QED  BY <1>5, <1>6, <1>7, <1>8

(* A step changes the locals of one goroutine.                             *)
LEMMA OnlyOne ==
    ASSUME Shape, ConfigInv, NEW t \in Threads, NEW q, NEW d,
           pc' = [pc EXCEPT ![t] = q], call' = [call EXCEPT ![t] = d],
           shared' = shared, Configured(q, d)
    PROVE  ConfigInv'
<1>1. /\ pc'[t] = q /\ call'[t] = d
      /\ \A u \in Threads \ {t} : pc'[u] = pc[u] /\ call'[u] = call[u]
  BY DEF Shape
<1>2. ASSUME NEW u \in Threads PROVE Configured(pc'[u], call'[u])
  <2>1. CASE u = t
    BY <1>1, <2>1
  <2>2. CASE u # t
    BY <1>1, <2>2 DEF ConfigInv
  <2> QED  BY <2>1, <2>2
<1> QED  BY <1>2 DEF ConfigInv

LEMMA ValidateConfig ==
    ASSUME Shape, ConfigInv, NEW t \in Threads, NEW options \in Calls,
           Validate(t, options)
    PROVE  ConfigInv'
<1>1. PICK d : d = [Idle EXCEPT !.options = options, !.asked = options,
                      !.clone = IF options = << >> THEN Unset ELSE shared]
  OBVIOUS
<1>2. /\ d.options = options /\ d.asked = options
      /\ options # << >> => d.clone = Config
  BY <1>1 DEF Idle, ConfigInv
<1>3. options \in Seq(Option)
  BY BindingsAssumption
<1>4. Applying(d)
  <2>1. Len(options) \in Nat /\ Len(options) - Len(options) = 0
    BY <1>3
  <2>2. \A i \in 1 .. Len(options) : options[i] = options[0 + i]
    BY <2>1
  <2> QED  BY <1>2, <1>3, <2>1, <2>2, EffectNone DEF Applying
<1>5. Configured("options", d)
  BY <1>2, <1>4 DEF Configured
<1>6. /\ pc' = [pc EXCEPT ![t] = "options"] /\ call' = [call EXCEPT ![t] = d]
      /\ shared' = shared
  BY <1>1 DEF Validate
<1> QED  BY <1>5, <1>6, OnlyOne

LEMMA ApplyConfig ==
    ASSUME Shape, ConfigInv, NEW t \in Threads, ApplyOption(t)
    PROVE  ConfigInv'
<1> DEFINE c == call[t]
           n == Len(c.asked) - Len(c.options)
<1>1. /\ pc[t] = "options" /\ c.options # << >> /\ shared' = shared
      /\ IsCall(c) /\ pc = [u \in Threads |-> pc[u]]
  BY DEF ApplyOption, Shape
<1>2. Configured("options", c)
  BY <1>1 DEF ConfigInv
<1>3. /\ c.asked \in Calls \cup {<< >>} /\ c.options \in Seq(Option) /\ n \in Nat
      /\ \A i \in 1 .. Len(c.options) : c.options[i] = c.asked[n + i]
      /\ c.asked # << >> => c.clone = Effect(c.asked, n)
  BY <1>2 DEF Configured, Applying
<1>4. PICK d : d = [c EXCEPT !.options = Tail(c.options),
                             !.clone = Apply(c.clone, Head(c.options))]
  OBVIOUS
<1>5. /\ d.options = Tail(c.options) /\ d.asked = c.asked
      /\ d.clone = Apply(c.clone, Head(c.options))
  BY <1>1, <1>4 DEF IsCall
<1>6. /\ Tail(c.options) \in Seq(Option)
      /\ Len(c.options) \in Nat \ {0}
      /\ Len(Tail(c.options)) = Len(c.options) - 1
      /\ \A i \in 1 .. Len(c.options) - 1 : Tail(c.options)[i] = c.options[i + 1]
      /\ Head(c.options) = c.options[1] /\ c.options[1] \in Option
  BY <1>1, <1>3
<1>7. Len(c.asked) \in Nat
  <2>1. << >> \in Seq(Option)
    OBVIOUS
  <2> QED  BY <1>3, <2>1, BindingsAssumption
<1>8. c.options[1] = c.asked[n + 1]
  <2>1. 1 \in 1 .. Len(c.options)
    BY <1>6
  <2> QED  BY <1>3, <2>1
<1>9. Len(d.asked) - Len(d.options) = n + 1
  <2>1. Len(d.options) = Len(c.options) - 1 /\ Len(d.asked) = Len(c.asked)
    BY <1>5, <1>6
  <2>2. \A x, y \in Nat : x - (y - 1) = (x - y) + 1
    OBVIOUS
  <2> QED  BY <1>6, <1>7, <2>1, <2>2
<1> HIDE DEF n
<1>10. \A i \in 1 .. Len(d.options) : d.options[i] = d.asked[(n + 1) + i]
  <2> SUFFICES ASSUME NEW i \in 1 .. Len(d.options)
               PROVE  d.options[i] = d.asked[(n + 1) + i]
    OBVIOUS
  <2>1. i \in 1 .. Len(c.options) - 1 /\ i + 1 \in 1 .. Len(c.options)
    BY <1>5, <1>6
  <2>2. d.options[i] = c.options[i + 1]
    BY <1>5, <1>6, <2>1
  <2>3. c.options[i + 1] = c.asked[n + (i + 1)]
    BY <1>3, <2>1
  <2>4. n + (i + 1) = (n + 1) + i
    BY <1>3, <2>1
  <2> QED  BY <1>5, <2>2, <2>3, <2>4
<1>11. d.asked # << >> => d.clone = Effect(d.asked, n + 1)
  <2> SUFFICES ASSUME d.asked # << >> PROVE d.clone = Effect(d.asked, n + 1)
    OBVIOUS
  <2>1. c.options[1] \in Option /\ c.clone = Effect(c.asked, n)
    BY <1>3, <1>5, <1>6
  <2>2. d.clone = Apply(Effect(c.asked, n), c.options[1])
    BY <1>5, <1>6, <2>1
  <2> HIDE DEF n
  <2> QED  BY <1>3, <1>5, <1>8, <2>1, <2>2, EffectNext
<1>12. Applying(d)
  <2>1. d.options \in Seq(Option) /\ n + 1 \in Nat
    BY <1>3, <1>5, <1>6
  <2> QED  BY <1>9, <1>10, <1>11, <2>1 DEF Applying
<1>13. Configured("options", d)
  BY <1>3, <1>5, <1>12 DEF Configured
<1>14. call' = [call EXCEPT ![t] = d] /\ pc' = [pc EXCEPT ![t] = "options"]
  BY <1>1, <1>4 DEF ApplyOption
<1> QED  BY <1>1, <1>13, <1>14, OnlyOne

(* All options are applied.                                                *)
LEMMA EvaluateConfig ==
    ASSUME Shape, ConfigInv, NEW t \in Threads, EvaluateMessage(t)
    PROVE  ConfigInv'
<1>1. /\ pc[t] = "options" /\ call[t].options = << >> /\ shared' = shared
      /\ pc' = [pc EXCEPT ![t] = "ready"] /\ call' = [call EXCEPT ![t] = call[t]]
  BY DEF EvaluateMessage, Shape
<1>2. Configured("options", call[t])
  BY <1>1 DEF ConfigInv
<1>3. call[t].asked # << >> => call[t].clone = Effect(call[t].asked, Len(call[t].asked))
  <2>1. /\ call[t].asked \in Calls \cup {<< >>}
        /\ call[t].asked # << >> =>
              call[t].clone = Effect(call[t].asked, Len(call[t].asked) - Len(call[t].options))
    BY <1>2 DEF Configured, Applying
  <2>2. Len(call[t].asked) \in Nat
    <3>1. << >> \in Seq(Option)
      OBVIOUS
    <3> QED  BY <2>1, <3>1, BindingsAssumption
  <2>3. Len(call[t].asked) - Len(call[t].options) = Len(call[t].asked)
    BY <1>1, <2>2
  <2> QED  BY <2>1, <2>3
<1>4. Configured("ready", call[t])
  BY <1>2, <1>3 DEF Configured
<1> QED  BY <1>1, <1>4, OnlyOne

(* What keeps the configuration of a goroutine that evaluates.             *)
LEMMA KeptConfigured ==
    ASSUME NEW p, NEW q, NEW c, NEW d, Configured(p, c),
           p \notin {"idle", "options"}, q # "options",
           d.asked = c.asked, d.clone = c.clone, d.reducing = c.reducing
    PROVE  Configured(q, d)
BY DEF Configured

LEMMA ReducingConfigured ==
    ASSUME NEW q, NEW d, q # "options", d.asked = << >>
    PROVE  Configured(q, d)
BY DEF Configured

LEMMA IdleConfigured == Configured("idle", Idle)
BY DEF Configured, Idle

(* Evaluations keep the options, and reductions have none.                 *)
LEMMA InsideConfig ==
    ASSUME IInv, ConfigInv, NEW t \in Threads,
           NEW q \in PC \ {"options"}, NEW d,
           pc[t] \notin {"idle", "options"},
           pc' = [pc EXCEPT ![t] = q], call' = [call EXCEPT ![t] = d],
           shared' = shared,
           d.asked = call[t].asked, d.clone = call[t].clone,
           d.reducing = call[t].reducing
    PROVE  ConfigInv'
<1>1. Configured(pc[t], call[t]) /\ Shape
  BY DEF ConfigInv, IInv
<1>2. q # "options"
  OBVIOUS
<1>3. Configured(q, d)
  BY <1>1, <1>2, KeptConfigured
<1> QED  BY <1>1, <1>3, OnlyOne

LEMMA NextConfig ==
    ASSUME IInv, ConfigInv, [Next]_vars
    PROVE  ConfigInv'
<1>1. Shape
  BY DEF IInv
<1>2. ASSUME pc' = pc, call' = call, shared' = shared PROVE ConfigInv'
  BY <1>2 DEF ConfigInv
<1>3. CASE Tick \/ UNCHANGED vars
  BY <1>2, <1>3 DEF Tick, vars
<1>4. ASSUME NEW t \in Threads, NEW options \in Calls, Validate(t, options)
      PROVE  ConfigInv'
  BY <1>1, <1>4, ValidateConfig
<1>5. ASSUME NEW t \in Threads, ApplyOption(t) PROVE ConfigInv'
  BY <1>1, <1>5, ApplyConfig
<1>6. ASSUME NEW t \in Threads, EvaluateMessage(t) PROVE ConfigInv'
  BY <1>1, <1>6, EvaluateConfig
<1>7. ASSUME NEW t \in Threads, ReturnValidate(t) PROVE ConfigInv'
  <2>1. /\ pc' = [pc EXCEPT ![t] = "idle"] /\ call' = [call EXCEPT ![t] = Idle]
        /\ shared' = shared
    BY <1>7 DEF ReturnValidate
  <2> QED  BY <1>1, <2>1, IdleConfigured, OnlyOne
<1>8. ASSUME NEW t \in Threads, NEW set \in ProgramSets, NEW val \in Values,
             Eval(t, set, val)
      PROVE  ConfigInv'
  <2>1. PICK d : d = [call[t] EXCEPT !.set = set, !.this = val, !.at = 1,
                        !.nows = {}, !.since = clock]
    OBVIOUS
  <2>2. /\ pc[t] = "ready" /\ pc' = [pc EXCEPT ![t] = "bind"]
        /\ call' = [call EXCEPT ![t] = d] /\ shared' = shared
    BY <1>8, <2>1 DEF Eval, GetBindings
  <2>3. d.asked = call[t].asked /\ d.clone = call[t].clone /\ d.reducing = call[t].reducing
    BY <1>1, <2>1 DEF Shape, IsCall
  <2> QED  BY <2>2, <2>3, InsideConfig DEF PC
<1>9. ASSUME NEW t \in Threads, NEW set \in ProgramSets, ReduceResiduals(t, set)
      PROVE  ConfigInv'
  <2>1. PICK d : d = [Idle EXCEPT !.reducing = TRUE, !.set = set]
    OBVIOUS
  <2>2. /\ pc' = [pc EXCEPT ![t] = "bind"] /\ call' = [call EXCEPT ![t] = d]
        /\ shared' = shared
    BY <1>9, <2>1 DEF ReduceResiduals, GetBindings
  <2>3. d.asked = << >>
    BY <2>1 DEF Idle
  <2> QED  BY <1>1, <2>2, <2>3, ReducingConfigured, OnlyOne
<1>10. ASSUME NEW t \in Threads, Bind(t) \/ Reset(t) PROVE ConfigInv'
  <2>1. PICK q : q = IF pc[t] = "bind" THEN "program" ELSE "put"
    OBVIOUS
  <2>2. /\ pc[t] \in {"bind", "reset"} /\ pc' = [pc EXCEPT ![t] = q]
        /\ call' = [call EXCEPT ![t] = call[t]] /\ shared' = shared
    BY <1>1, <1>10, <2>1 DEF Bind, Reset, Shape
  <2>3. q \in PC \ {"options"}
    BY <2>1 DEF PC
  <2> QED  BY <2>2, <2>3, InsideConfig
<1>11. ASSUME NEW t \in Threads, EvalProgram(t) \/ ReduceProgram(t) PROVE ConfigInv'
  <2>1. PICK d : d = [call[t] EXCEPT !.reads = call[t].set[call[t].at].reads, !.got = {}]
    OBVIOUS
  <2>2. /\ pc[t] = "program" /\ pc' = [pc EXCEPT ![t] = "resolve"]
        /\ call' = [call EXCEPT ![t] = d] /\ shared' = shared
    BY <1>11, <2>1 DEF EvalProgram, ReduceProgram
  <2>3. d.asked = call[t].asked /\ d.clone = call[t].clone /\ d.reducing = call[t].reducing
    BY <1>1, <2>1 DEF Shape, IsCall
  <2> QED  BY <2>2, <2>3, InsideConfig DEF PC
<1>12. ASSUME NEW t \in Threads, NEW name \in Name, ResolveName(t, name)
       PROVE  ConfigInv'
  <2>1. PICK val : val = IF name = "now" THEN Now(heap[held[t]]) ELSE heap[held[t]][name]
    OBVIOUS
  <2>2. PICK d : d = Resolved(call[t], name, val)
    OBVIOUS
  <2>3. /\ pc[t] = "resolve" /\ pc' = pc
        /\ call' = [call EXCEPT ![t] = d] /\ shared' = shared
    BY <1>12, <2>1, <2>2 DEF ResolveName, Resolved
  <2>4. d.asked = call[t].asked /\ d.clone = call[t].clone /\ d.reducing = call[t].reducing
    BY <1>1, <2>2 DEF Shape, IsCall, Resolved
  <2>5. pc' = [pc EXCEPT ![t] = "resolve"]
    BY <1>1, <2>3 DEF Shape
  <2> QED  BY <2>3, <2>4, <2>5, InsideConfig DEF PC
<1>13. ASSUME NEW t \in Threads, NEW stop \in BOOLEAN, NEW r,
              NextProgram(t, stop, r), pc[t] \in {"program", "resolve"},
              shared' = shared
       PROVE  ConfigInv'
  <2>1. PICK q : q = IF stop \/ call[t].at = Len(call[t].set) THEN "reset" ELSE "program"
    OBVIOUS
  <2>2. PICK d : d = [call[t] EXCEPT
          !.at = IF q = "program" THEN call[t].at + 1 ELSE call[t].at,
          !.residuals = r]
    OBVIOUS
  <2>3. pc' = [pc EXCEPT ![t] = q] /\ call' = [call EXCEPT ![t] = d]
    BY <1>13, <2>1, <2>2 DEF NextProgram
  <2>4. d.asked = call[t].asked /\ d.clone = call[t].clone /\ d.reducing = call[t].reducing
    BY <1>1, <2>2 DEF Shape, IsCall
  <2>5. q \in PC \ {"options"}
    BY <2>1 DEF PC
  <2> QED  BY <1>13, <2>3, <2>4, <2>5, InsideConfig
<1>14. ASSUME NEW t \in Threads, NEW verdict \in {"pass", "fail", "error"},
              Evaluated(t, verdict) \/ Reduced(t, verdict)
       PROVE  ConfigInv'
  BY <1>13, <1>14 DEF Evaluated, Reduced
<1>15. ASSUME NEW t \in Threads, KeepUnreduced(t) PROVE ConfigInv'
  BY <1>13, <1>15 DEF KeepUnreduced
<1>16. ASSUME NEW t \in Threads, Put(t) PROVE ConfigInv'
  <2>1. pc[t] = "put" /\ shared' = shared
    BY <1>16 DEF Put
  <2>2. CASE call[t].reducing
    <3>1. pc' = [pc EXCEPT ![t] = "idle"] /\ call' = [call EXCEPT ![t] = Idle]
      BY <1>16, <2>2 DEF Put
    <3> QED  BY <1>1, <2>1, <3>1, IdleConfigured, OnlyOne
  <2>3. CASE ~call[t].reducing
    <3>1. PICK d : d = [Idle EXCEPT !.asked = call[t].asked, !.clone = call[t].clone]
      OBVIOUS
    <3>2. pc' = [pc EXCEPT ![t] = "ready"] /\ call' = [call EXCEPT ![t] = d]
      BY <1>16, <2>3, <3>1 DEF Put
    <3>3. d.asked = call[t].asked /\ d.clone = call[t].clone /\ d.reducing = FALSE
      BY <3>1 DEF Idle
    <3>4. d.reducing = call[t].reducing
      BY <1>1, <2>3, <3>3 DEF Shape, IsCall
    <3> QED  BY <2>1, <3>2, <3>3, <3>4, InsideConfig DEF PC
  <2> QED  BY <2>2, <2>3
<1> QED
  BY <1>3, <1>4, <1>5, <1>6, <1>7, <1>8, <1>9, <1>10, <1>11, <1>12, <1>14,
     <1>15, <1>16 DEF Next

(* A call runs with the validator's configuration and its own options on   *)
(* top of it, the last of each kind, whatever options other calls have     *)
(* (validator.go:112-118: they are applied to a clone).                    *)
THEOREM ConfigIsOwn == Spec => []OwnConfig
<1>1. Init => ConfigInv
  <2> SUFFICES ASSUME Init, NEW t \in Threads PROVE Configured(pc[t], call[t])
    BY DEF Init, ConfigInv
  <2>1. pc[t] = "idle" /\ call[t] = Idle
    BY DEF Init
  <2> QED  BY <2>1, IdleConfigured
<1>2. IInv /\ ConfigInv /\ [Next]_vars => ConfigInv'
  BY NextConfig
<1>3. ConfigInv => OwnConfig
  <2> SUFFICES ASSUME ConfigInv, NEW t \in Threads, Evaluating(t), ~call[t].reducing
               PROVE  LET asked == call[t].asked
                          filter == LastOf("filter", asked, Config.filter)
                      IN  Cfg(t) =
                            [failFast |-> LastOf("failFast", asked, Config.failFast),
                             filter |-> IF filter = Unset THEN NopFilter ELSE filter,
                             nowFn |-> LastOf("nowFunc", asked, Config.nowFn)]
    BY DEF OwnConfig
  <2> SUFFICES Cfg(t) = Effect(call[t].asked, Len(call[t].asked))
    <3>1. call[t].asked \in Seq(Option)
      <4>1. << >> \in Seq(Option)
        OBVIOUS
      <4> QED  BY <4>1, BindingsAssumption DEF ConfigInv, Configured
    <3>2. DOMAIN call[t].asked = 1 .. Len(call[t].asked)
      BY <3>1
    <3>3. \A kind, default : LastOf(kind, call[t].asked, default) =
                LastTo(kind, call[t].asked, Len(call[t].asked), default)
      BY <3>2 DEF LastOf, LastTo, LastAt
    <3> QED  BY <3>3 DEF Effect
  <2>1. Configured(pc[t], call[t]) /\ pc[t] \notin {"idle", "options"}
    BY DEF ConfigInv, Evaluating
  <2>2. CASE call[t].asked = << >>
    <3>1. Cfg(t) = Config /\ Len(call[t].asked) = 0
      BY <2>2 DEF Cfg, ConfigInv
    <3> QED  BY <3>1, EffectNone
  <2>3. CASE call[t].asked # << >>
    BY <2>1, <2>3 DEF Cfg, Configured
  <2> QED  BY <2>2, <2>3
<1> HIDE DEF IInv, ConfigInv, OwnConfig
<1> QED  BY <1>1, <1>2, <1>3, Invariance, PTL DEF Spec

=============================================================================
