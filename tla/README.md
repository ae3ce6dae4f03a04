# A specification of protovalidate-go

protovalidate-go validates protobuf messages against rules annotated on their
descriptors.  A `Validator` compiles the rules of a message type into a tree of
evaluators, once and on first use, and walks that tree over every message it is
given.  This directory models that program in TLA+, checks the models with TLC
on small instances, and proves with TLAPS what matters most about one call of
`Validate` - which violations it reports, where and how often - and about the
state that goroutines and validators share: the evaluator cache, the rule
messages and the rule cache, the pooled variables of CEL programs, the tree of
type registries, the global rule paths and the pooled maps of `unique`.

Paths without a directory (`builder.go:96`) are relative to `src/`.

## 1. The system

| Component | State | Operations | What makes it correct |
|---|---|---|---|
| Evaluator builder (`builder.go`) | a mutex, an atomic pointer to a copy-on-write map from descriptor to `*message` | `newBuilder` with seeds, `load`, `loadOrBuild`, `build` and its nine rule steps | readers without the lock see only finished, closed, immutable evaluators; one evaluator per descriptor; it has exactly the descriptor's rules and errors |
| Rule resolution and standard rule cache (`resolve.go`, `cache.go`, `ast.go`, `compile.go`) | compiled ASTs per rule; *and* the rule messages of the descriptors, which are changed in place | `ResolveFieldRules`, `Build`, `reparseUnrecognized`, `loadOrCompileStandardRule`, `ReduceResiduals` | a field's programs depend on its descriptor and the options only; no rule is lost silently |
| Evaluators (`message.go`, `field.go`, `value.go`, `repeated.go`, `map.go`, `cel.go`, `program.go`, `any.go`, `enum.go`, `oneof.go`, `message_oneof.go`) | none; the error under construction travels on the call stack | `Evaluate`, `EvaluateMessage` | every violated rule is reported once, no matter the order |
| Error merging and paths (`error_utils.go`, `base.go`) | the violations' field paths, built back to front; rule paths, of which some are global messages | `mergeViolations`, `updateViolationPaths`, `prefixRulePath`, `markViolationForKey`, `finalizeViolationPaths` | fatal errors win, failFast stops at the first violation, a path leads from the root to the fault; nobody writes a global rule path |
| Validator and options (`validator.go`, `option.go`, `filter.go`) | the builder, the shared configuration, a lazily made global validator | `New`, `Validate`, `Validator` options and per-call options | options of a call do not leak; failFast and filters do not change verdicts they should not |
| CEL variable pools (`bindings.go`, `program.go`) | a `sync.Pool` of variables | `getBindings`, `ResolveName`, `putBindings` | an evaluation never sees another's values |
| Type registry (`registry.go`) | a tree of registries with known files and types | `extendEnv`, `Copy`, `RegisterDescriptor`, lookups | registries that are read are not written; what an environment was extended with is what it sees; a failed extension leaves nothing behind |
| Proto values for CEL (`map_value.go`, `lookups.go`, `cel/lookups.go`) | none | key lookup, conversion, `Equal` | numeric keys meet exactly if they are the same number |
| CEL library (`cel/library.go`) | cursors of hand-written parsers; two `sync.Pool`s of maps | `isIP`, `isIPPrefix`, `isURI`, `isURIRef`, `isHostname`, `isHostAndPort`, `unique`, ... | a parser accepts the language its RFC defines; a pooled map is empty |
| Conformance executor, generated code | - | - | - |

How they interact.  `Validate` calls `builder.Load` for the message's
descriptor, which returns an evaluator from the published map or builds it:
`build` puts an empty evaluator into a private copy of the map, fills it in and
calls itself for embedded messages.  On the way it resolves the rules of each
field (`resolve.go`), extends the CEL environment and with it the tree of
registries, compiles custom rules with `compile.go` and standard rules with
`cache.Build`, whose programs it reduces on pooled variables.  All of that
happens under the builder's mutex; the finished copy replaces the published map
with one atomic store.  `Validate` then walks the evaluator without any lock,
on variables from the pool the reductions of other goroutines use, with
registries they may be extending, and with rule paths that all violations of a
rule point to.  Two `Validator`s share no mutex, but they share descriptors and
therefore the rule messages that `cache.Build` reparses.

What is hard to test: goroutines that miss at once; the recursion of `build`
through messages it has not finished; one broken field among good ones; rule
messages shared by validators; options in forms that are copied and forms that
are not; random map order together with early exits; paths appended to
violations that are later merged, or to global messages; pooled memory that
carries something over; names that two registries of a chain define; parsers
that go back; numbers at the end of their range.  `PROJECT.json` lists these
hazards at their lines with the properties aimed at them; each has one.

## 2. The modules

`Schema` - descriptors and rules as the builder sees them.  A group of rules is
reduced to what compiling it yields (nothing, programs, an error).  `FieldPlan`
flattens the recursion of `buildValue` through map keys, map values and list
items into the sequence of steps it performs; the conditions under which each
of the nine steps does anything are the conditions of `ValuePlan`.

`Builder` - `builder.go` as a concurrent program.  Pointers are explicit:
`evals` is the heap of `*message`, `caches` the heap of maps, `published` the
atomic pointer, `cache[t]` the map a goroutine works on, `stack[t]` its
recursive `build` calls.  The lock-free read, `Lock`, the second read, the
clone, every step of `buildMessage`, the atomic store and the deferred unlock
are actions of their own, so that every interleaving of goroutines is explored.

| Code | Action |
|---|---|
| `newBuilder` 75-80 | `Seed`, `Publish` |
| `load` 86-91, `loadOrBuild` 97-99 | `LoadHit`, `LoadUnknown`, `LoadMiss` |
| `loadOrBuild` 100-109 | `Lock`, `Recheck`, `Clone`, `Store`, `Unlock` |
| `build` 112-123 | `StartBuild` (in `Seed`, `CloneAndBuild`, `EnterEmbedded`), `ReturnBuild` |
| `processMessageExpressions`, `processMessageOneofRules`, `processOneofRules` | actions of these names |
| `processFields`, `buildField`, `buildValue` | `BuildField`, `CompileRules`, `FailRules`, `FinishField` |
| `processEmbeddedMessage` | `EnterEmbedded`, `EmbedMessage` |

`EvaluatorStore` - what the builder promises, without a builder: a memo that
grows by closed sets of evaluators, in which the evaluator of a descriptor is
`Meaning(d)`, a function of the descriptors alone.  `BuilderRefinement`
instantiates it with the published cache read through its pointers (`Memo`) and
what each loader has asked and been answered (`Request`, `Reply`).

`RuleCache` - how fields get their standard rules, for several validators and
fields.  `ResolveFieldRules` is `resolve.go:42-81`: rules that the options have
as the library's own message are used as they are, and shared by all validators
of the process; those in a dynamic message or in bytes are parsed anew, into a
message of the validator's own (`copy`); if that fails, the caller goes on
without rules.  Then `cache.Build`: `ResolveRules`, `GetUnknown`,
`ClearUnknown`, an `Unmarshal` per rule, `Unmarshalled`, `CheckUnknown`, a
`CompileRule` per rule in any order, `ReduceResiduals`.  Taking the unknown
bytes out of a message, clearing them and merging each rule back are separate
actions, because another validator can run between them.

`Evaluation` - one call of `Validate`: an explicit stack of `Evaluate` calls
over a tree of evaluators; `Merge` is `mergeViolations`, `Located` the path
work every evaluator does on what it called, before it merges, `Agenda` what a
node calls, `Immediate` the returns before it calls anything.  A node is one
call of `Evaluate` on one value: a list has a node per element, and an evaluator
that two fields share has a node under each.  So a node has one caller and is
called once, which is what `Tree` says, together with what calls nobody
(`Leaves`) and what `Validate` looks up (`Roots`), and that a message oneof is
nested in a message, as `builder.go:209` appends it.  So it is called when the
filter has turned the message down, and asks the filter about it itself
(`MessageOneofResult`, by its `Caller`).  What ought to be reported
(`Covered`, `Faults`, `Unable`, `WayTo`, `InKey`) is defined from the rules and
the message alone, by recursion from a node to its caller.

`RulePaths` - the rule paths of violations.  A violation points to a message:
to the global one of its rule if it is found outside lists and maps and its
rule is no CEL expression, to one of its own otherwise.  `Report` is the
evaluator that finds it, with `prefixRulePath`; `LeavePart` and `LeaveMessage`
are the levels it climbs through, each of which calls `updateViolationPaths`
with the prefix it has; callers keep the violation while goroutines validate
other messages.  `Evaluation` has the field paths, which are nobody else's.

`Bindings` - the variables CEL programs run on.  They come from one `sync.Pool`,
and every goroutine of the process uses them, to validate (`programSet.Eval`)
or to reduce the programs of a field that is being built (`ReduceResiduals`).
`heap` is the memory of the variables, `held[t]` what a goroutine has taken,
`call[t]` its locals, `shared` the configuration of the validator, which a call
with options copies.

| Code | Action |
|---|---|
| `Validate` `validator.go:105-124` | `Validate`, `ApplyOption`, `EvaluateMessage`, `ReturnValidate` |
| `getBindings` and `This =`, `Rules =` | `Eval` or `ReduceResiduals`, then `Bind` |
| an iteration of `programSet.Eval` | `EvalProgram`, `ResolveName`s, `Evaluated` |
| an iteration of `ReduceResiduals` | `ReduceProgram`, `ResolveName`s, `Reduced`; or `KeepUnreduced` |
| `bindings.ResolveName` | `ResolveName`, with `Now` |
| `putBindings` | `Reset`, `Put` |

The actions of one goroutine interleave with those of another between any two
accesses to the variables, and with the clock.

`Registry` - the tree of type registries.  `NewRegistry` makes the root of the
linked files; `Extend` copies the registry of an environment that is in use
into a child and then registers the files of the options one by one
(`RegisterDescriptor`), which an ancestor that knows a file makes it skip;
`ExtendFails` stops in the middle of a file, `HandOut` gives the environment to
its users.  Readers walk the chain of parents a registry at a time (`Ask`,
`Look`, `Return`) while the tree grows.  `Delegate` is the parent that each of
the registry's questions falls through to.

`Unique` - the function `unique`, with its loop and its two pools of maps.  A
map's keys are what Go's maps have: NaN is equal to nothing and has a key of
its own each time, so that deleting by key would not empty the map, which is
why `Clear` is `clear`.

`Library` composes one call of any other function that has a parser or a loop,
from these modules:

* `Text` - the characters they tell apart, and `Split`; `IpLanguage` - what an
  address is: eight groups, or two lists of them around a double colon, the
  last of which may end with a dotted quad;
* `IpAddress` - `isIP` and `isIPPrefix`: a cursor into a string and an action
  per thing that is found there (an octet, a group, a single or double colon, a
  zone id, dotted notation, the end of the loop, a prefix length).  Version 0
  runs one parser after the other; dotted notation in an IPv6 address runs the
  IPv4 parser.  `IpGrammar` compares it with `IpLanguage`;
* `Uri` - `isURI` and `isURIRef`.  A rule of RFC 3986 is an operator that gives
  the cursor after what it takes, or `Fail` where the code returns false and
  puts the cursor back; `ParseURI` and `ParseRelativeRef` are actions, because
  `uri()` does not always put it back.  `UriGrammar` is the RFC's grammar on
  whole strings;
* `HostPort` - `isHostname`, `isHostAndPort`, `isPort`, next to what their
  comments say;
* `ProtoMap` - `Find`, `Contains`, `Size` and `Equal` of protobuf maps, with
  keys of every native kind and doubles of a few bits, which round.

`IpLanguage`, `IpGrammar`, `UriGrammar` and the reference definitions in
`HostPort` and `ProtoMap` model no code: they are what the code is compared
with.

Modules named `..._proofs` hold the theorems (section 4), modules named `MC...`
the small instances.

## 3. What TLC checks

| Run | Distinct states | Shows |
|---|---|---|
| `builder` | 186 000 | two loaders and the constructor over schemas of three messages: mutually recursive ones with none, one or both broken; bad message oneofs; a field broken in each of nine ways between two healthy ones; wrappers; with three seed lists, lazy and not.  `PublishedClosed`, `SameEvaluator`, `BuiltOnce`, `CacheGrows`, `PublishedImmutable`, `NoBuildWhenDisabled`; the builder implements `EvaluatorStore` (`ImplementsStore`); every `Load` returns (`LoadReturns`) |
| `rule_cache` | 2 895 000 | one or two validators, each with its resolver and options, and two fields that share rules: in the options as the wanted message, as a dynamic one, as bytes, as bytes that do not parse; known, on the wire, unresolvable or malformed; of every kind.  `OwnOutcome`, `RulesConserved` |
| `evaluation` | 266 000 | trees of up to 26 evaluators with every combination of the options that matter, up to two nodes turned down by the filter, failFast on and off: `ReportsAll`, `PathsLead`, `FailFastAgrees`, `FailFastReportsOne` |
| `bindings` | 1 843 000 | two goroutines validate, with five lists of options, or reduce, on two variables, with a clock: pooled variables are blank and nobody's (`PoolClean`), a program reads what is its own (`OwnValues`), a set of programs sees one time (`OneNow`), reducing drops only what always passes (`ResidualsSound`), a call runs with its own options (`OwnConfig`) |
| `library` | 749 000 | the parsers and the map operations: they end (`Terminates`) and agree with grammars and numbers (`AddressExact`, `PrefixExact`, `URIExact`, `ReferenceExact`, `HostnameExact`, `HostAndPortExact`, `FindExact`, `EqualSymmetric`), save the cases of findings 4 to 9 |
| `unique` | 775 000 | two goroutines, three maps, every list of up to three members that matters: pooled maps are empty and nobody's (`PoolClean`), and every verdict is its list's (`VerdictExact`) |
| `registry` | 228 000 | a root, two extensions of it or of one another with any files that one pool may hold, failures in the middle of a file, a reader: `LookupExact`, `KnownRegistered`, `OwnTypesSeen`, `NoWriteShared` |
| `rule_paths` | 1 288 000 | two goroutines find violations at six sites, up to three messages deep, and keep them: `StaticIntact`, `RuleExact` |
| `repeated_wrapper` | violation | finding 1 (`WrapperRulesKept`) |
| `reparse_race` | violation | finding 2 (`NoRuleSilentlyDropped`) |
| `malformed_rules` | violation | finding 3 (`UnreadableRefused`) |
| `formats` | violation | findings 4 to 9, each a conjunct of `FormatsFollowRules` that fails by itself, too |

`builder`, `rule_cache`, `evaluation` and `library` check a type invariant
(`TypeOK`) as well; those of the others are conjuncts of what is proved.

Bounds.

* `builder`: two goroutines are enough for the races of a double-checked lock
  (one publishes between the other's two reads), with the constructor before
  them.  Two mutually recursive messages and a wrapper reach every branch of
  `processEmbeddedMessage`: a hit on a finished evaluator, a hit on an
  unfinished one, a miss.  The schemas leave out one shape, rules on a repeated
  wrapper field itself: there the builder does not implement `EvaluatorStore`,
  which is finding 1, and the run `repeated_wrapper` has exactly that shape.
  `MCBuilder` states this (`Whole`) in the words of the theorem's hypothesis.
* `rule_cache`: two predefined rules on the wire, so that the first can be
  merged when the second fails; two fields, so that one is built with what the
  other left in the cache and in the options; two validators, so that one finds
  what another has reparsed.  `OwnOutcome` and `RulesConserved` say nothing of a
  field whose rules two validators can reparse at the same time (`Contended`):
  that is finding 2.
* `evaluation`: lists and maps of two elements, so that a violation has a
  sibling before and after it; a message oneof, required or not, with none, one
  or two fields set, in a message that the filter may turn down; `MaxRejected` bounds the nodes a filter turns
  down to two, a message and something in it.
* `bindings`: two goroutines and two variables are enough for variables that
  are taken again after a put, by the same or by the other goroutine, and for
  both to hold some at once.  The clock ticks once (`MaxTime`), which tells a
  read before the tick from one after it.  The sets have two programs, custom
  ones that ask for the time twice and standard ones with different rule values.
* `library`, addresses: up to nine groups with double colons at none, one or two
  of two places, every way to begin and end with colons, and every kind of end;
  a second set varies one number (its length, leading zeros, the largest value
  and the next one, a character that is no digit); a third has one bit set and
  prefix lengths at, before and after it, around each border of 16, 32 and 64
  bits.  URIs: every sequence of up to four of thirteen pieces, of up to three
  after the beginning of a URI or an authority, and hosts of every kind,
  encoded characters at the limits of UTF-8 among them.  Hosts: every string of
  up to five of five characters and of up to nine letters and dots, for which a
  name is seven characters (`MaxName`, for 253) and a label three (`MaxLabel`,
  for 63).  Maps: `IntMax` is 15, `Int32Max` 3, and a double has a mantissa of
  three bits (`Mantissa` is 8, for 2^53), so that integers at both ends of each
  type are rounded, as those beyond 2^53 are; keys are all numbers of each type,
  `Quanta` are the distances between neighbouring doubles and bound them.  `Platforms` are the two things Go's
  conversion of a double that does not fit does on the processors it runs on.
* `unique`: three maps for two goroutines, so that one can stay in the pool.
* `registry`: `MaxRegistries` is 3, a chain of three or two siblings; the files
  are two linked ones, a second version of one of them with a field less, and
  one with names of its own and one of the root's.  `rule_paths`: the depth two
  is where a prefix given by the wrong level shows.

What is left to larger instances is covered by the proofs, which fix no number,
but for four of the properties of `library`.

Fairness.  `builder`: `WF_vars(Run(t))` per goroutine and for the constructor's
`Seed` and `Publish`: the Go scheduler runs what is runnable.  Weak fairness is
enough for `Lock` although the mutex is taken and given back by others in
between: each loader takes it only on a miss, every miss adds an entry, and a
finite schema has finitely many, so from some point on nobody else takes the
lock.  Nobody is obliged to call `Load`, and `Call` is not fair.  `library`:
`WF_vars(Looping /\ Next)`, a function that has been called goes on; the others
have no loop of their own that could fail to end.

Deadlock is checked in `builder`, `bindings`, `rule_paths` and `unique`.  It is
not in the others: when all fields are built, `Validate` or a function has
returned, or there are as many registries as there may be and none is being
read, nothing is left to do.

## 4. What is proved

All theorems hold for every number of goroutines, messages, fields, rules,
files, variables and maps, and for evaluators of any depth and breadth, under
assumptions that mostly give the constants their types (`SchemaAssumption`,
`BuilderAssumption` and `RefinementAssumption`, `RuleCacheAssumption`,
`EvaluationAssumption`, `BindingsAssumption`, `RegistryAssumption`,
`RulePathsAssumption`, `UniqueAssumption`, `LibraryAssumption`); what they say
beyond that is named below.  Each rests on an inductive invariant, since none of the properties is
inductive by itself.

`Builder_proofs`: `Invariance` (`Spec => []IInv`), `TypeCorrect` (no cache map
dangles), `OneBuilder` (the critical section has one goroutine, the lock's
holder), `OneEvaluator` (`SameEvaluator`), `NoDoubleBuild` (`BuiltOnce`),
`NoEntryLost` (`CacheGrows`), `NeverWrittenAgain` (`PublishedImmutable`).
`BuiltOnce` says nothing about where the evaluators are, so a state with an
evaluator that no map names would satisfy it and allow a second one to be
built.  `IInv` adds: the lock's holder is the one loader in the critical section
(`LockInv`); until `New` returns nobody else runs (`NewInv`); a map's entry is
the evaluator of its key (`EntryInv`); the map being filled is not the published
one but contains it (`CloneInv`); what is on a stack is not published
(`StackInv`); every evaluator is in the published map or the one being filled
(`OwnedInv`); what a loader is about to return is in the map it is about to
publish (`ResultInv`).  The proof has a lemma per kind of step - those that
touch no heap, those that fill in an evaluator, those that start one, `Store`,
`Unlock` - and under it a step per conjunct.

In the same module, `ReachableIsPublished` (`PublishedClosed`).  `ClosedInv`
goes with `IInv`: the published map and the one being filled contain every
evaluator that theirs embed, and the one being filled also those that the build
calls on the stack are about to embed.  A map that is cloned, extended or
filled in only grows (`Grown`), so what it contained it still does
(`PointedKept`, `ClosedKept`), and only one goroutine fills a map at a time
(`FillsAlone`).

There too, `Refinement` (`Spec => ImplementsStore`) and `DisabledBuildsNothing`
(`Spec => NoBuildWhenDisabled`).  The refinement has one
hypothesis, `AllCarried`: no schema has standard rules on a list of wrapped
values.  The code loses these (finding 1), and with them the statement is false.
The argument has three parts.

* What an evaluator means.  `MeaningInv` says of every evaluator that no build
  call is still filling that its rules, errors, fields and embedded messages are
  those of its descriptor (`Complete`), and of every frame of a build stack how
  much of that is done (`Progress`): of the steps of the current field, those
  that are not ahead any more found no error and have left what they compiled.
  The flattened plan of a field enters by the set of its steps (`Steps`), and
  `FieldPlanSteps` and `PlanHas` say that these are the live slots with their
  rules, which is what `Meaning` has.  A step of one goroutine keeps the
  progress of the others because evaluators are appended to the heap and only
  the frame that owns one fills it in (`HeapGrows`, `ProgressKept`).
* What a loader has.  `LoaderInv`: nobody gets past the lock-free read unless
  building is lazy; the one that is building has a message the published map
  lacks; and there is an answer when the lock is given back.  `DisabledBuildsNothing` follows from the first of these.
* The simulation.  `StoreInv` follows from `IInv`, `ClosedInv` and `MeaningInv`:
  the memo is `Meaning(d)` for what is published and absent otherwise, the memo
  has the targets of what it has, and a reply is the meaning of what was asked.
  `InitMapped` maps the initial states.  Of the steps, `Publish` and `Store` are
  the store's `Construct` and `BuildFor`, of everything one call of `load` has
  built at once (`PublishMapped`, `StoreIsBuild`); a loader's last step is
  `Answer` or `Refuse`; a call is `Call`; all others are stutters
  (`QuietMapped`).

`RuleCache_proofs`: `TypeCorrect`, `OutcomesOwn` (`OwnOutcome`),
`RulesAreConserved` (`RulesConserved`).  The assumption says that a rule is in a
rule message once, parsed or not: field numbers are distinct.  `AtInv` says for
each point of a `Build` of a field nobody else reparses what the rule message
is: as declared until its bytes are taken; then, with the bytes still to merge,
all that the validator's resolver makes of the declaration (`Parsed`); and from
`rules.Range` on, that nothing was refused and the ASTs are those of the rules
gone through.  It holds at the beginning of a `Build` because options nobody has
written are as declared (`WrittenInv`), and two validators that could both have
written them contend for them.  `Conserved` is the same without a resolver:
message and bytes together have all rules, once.  What a step of one validator
leaves alone (`StepOf`) is proved once to keep the invariant for the others
(`FrameKeeps`), so that each action's lemma speaks of its own validator only.

`Evaluation_proofs`: `WalkTypes` (`TypeOK`), `EveryFaultOnce` (`ReportsAll`),
`PathsFromRoot` (`PathsLead`), `FailFastSameVerdict` (`FailFastAgrees`),
`FailFastFirst` (`FailFastReportsOne`).  The properties speak of the end of a
validation and of the whole tree; `EInv` speaks of each call in progress and of
the part of the tree that it has seen.

* `Below(n)` is what is called on behalf of a node, a least set and not a
  recursion.  It is the node and what is below its callees (`BelowIs`); what is
  below different callees is apart (`BelowApart`); nothing below a node that is
  not validated is (`UncoveredBelow`); and everything is below the root
  (`BelowRoot`).  The recursive definitions of the properties enter by what they
  say of a node and its caller (`WayIs`, `InKeyIs`, `CoveredIs`), each from one
  lemma that such a function exists (`Inherited`), proved by the least node at
  which it would not.
* `Tells(e, nodes)`: the error has exactly the faults among these nodes, each
  once, and none of them was unable to tell.  A call that is working has an
  error that tells of all that is below the evaluators it called (`Rests`), one
  that waits for an answer of all but the evaluator it waits for (`Waits`).
  Because this is about the set of those called, a map may be ranged over in any
  order.
* `Leads(e, n)`: the path of a violation, turned around, leads on from node n to
  where it was found, and its mark is what the mark of n lacks.  `LocatedTells`
  is the step from a node to its caller, and needs that a node adds one element
  at most: a path that is turned around as a whole must have been put together
  from elements that are their own reverse.
* `Verdict(e, n)` is what node n may return: a fatal error, and then something
  could not tell; or an error that tells of all below n; or, with failFast, some
  fault.  `ImmediateTells` shows it for what returns at once, `MergeTells` for
  `mergeViolations` that stops, `FrameEnds` for a call that has called all: what
  it skipped, the rules of a message the filter turned down, is not covered.
  With failFast a call that goes on has no error yet, which is why one violation
  is all that is reported.

`Bindings_proofs`: `Invariance`, `PoolIsClean` (`PoolClean`), `ReadsAreOwn`
(`OwnValues`), `TimeIsOne` (`OneNow`), `ReductionIsSound` (`ResidualsSound`),
`ConfigIsOwn` (`OwnConfig`).  The assumption says that the rules of a set come
from one message and all of its programs have a rule value or none has:
`cache.Build` gives every standard rule its value with `WithRuleValues`
(`ast.go:114`), and `compile.go` gives custom rules none.  `OwnValues` speaks of
what has been read already, and is preserved by the next read only because of
what the variables contain at that moment, which depends on where the goroutine
is.  `Fits` says that for each point of an evaluation: blank after they are
taken and before they are put back; `Bound` between two programs, where the rule
of the last program may still be there, but the rules are unset or those of the
set, and the time is unset or one since the evaluation began, of the call's own
source; `Current` while a program runs.  For a reduction it adds that message,
time and its source are unset, which is why a program that passes needs none of
them (`PassesAlways`), and that what was dropped so far passes always
(`Dropped`).  Because no two goroutines hold the same variables, a step of one
preserves `Fits` of the other (`InPlace`).  `ConfigIsOwn` has an invariant of
its own (`ConfigInv`): the validator's configuration is as `New` made it, and
the copy of a call is that with the options applied so far.

`Registry_proofs`: `TypeCorrect`, `LookupsExact` (`LookupExact`),
`KnownIsRegistered` (`KnownRegistered`), `OwnTypesAreSeen` (`OwnTypesSeen`),
`SharedNeverWritten` (`NoWriteShared`).  The assumption says that the linked
files define a name once, and `Extend` takes files that do: a protobuf pool
refuses anything else.  `Chain` is a least set, not a recursion, and the lemmas
about it (`ChainStep`, `ChainBound`, `ChainStable`) say that the chain of a
registry is itself and its parent's, goes up only, and does not change as the
tree grows.  The invariant ties a lookup under way to the registries it has
passed, which do not have the type with the field asked for (`Passed`), and a registry to the files it
was asked for: registered whole, or known to an ancestor, or still to do
(`Whole`).

`RulePaths_proofs`: `StaticStaysIntact` (`StaticIntact`), `RulesStayExact`
(`RuleExact`).  A goroutine's violation points to a global message or to one of
its own that no caller has, and already has the path it will have at the end,
since no level above it gives a prefix (`Found`, `Kept`).

`Unique_proofs`: `PoolIsClean` (`PoolClean`), `VerdictsExact` (`VerdictExact`).
In the loop, the map has exactly the members before the index, which are all
different (`Fits`).

`Library_proofs`: `TypeCorrect` (`TypeOK`), `EqualIsSymmetric`
(`EqualSymmetric`), `FindIsExact` (`FindExact`), `HostnamesAreExact`
(`HostnameExact`), `HostsAndPortsAreExact` (`HostAndPortExact`).
`LibraryAssumption` says of strings that they are strings and of limits that
they are positive; of `MaxPort` that it has five digits at most, since the ports
that strings are compared with have five and `isPort` counts no digits; of maps and keys that they are maps and keys
(`IsMap`, `CelKey`); of the doubles that each of the `Quanta` divides those
above it, that they are even but for 1, and that one more than the greatest
integer of each type is a double, as 2^63 and 2^64 are.

* Cursors (`TypeOK`).  The parser of addresses is a state machine, and each of
  its actions is shown to leave its cursor in the string and its pieces and
  octets in their widths (`IpTypes`).  The parser of URIs is a recursive
  descent, and each rule has a lemma that says that it gives a cursor in the
  string or `Fail` when it gets one (`SpanIs` to `RestCursor`); this is what
  keeps `uriReference`, which goes on from wherever `uri()` stopped, inside the
  string.
* Equality of maps.  `MapInv` says that what `Range` has still to visit is all
  that may differ: an entry that was visited is held by the other map too.  So
  the answer is whether the other map holds all (`HeldEntries`), and of two maps
  of one size each holds the other's entries if one of them does, because an
  injection between finite sets of one size is onto (`HeldBothWays`).
* Keys.  A number is rounded to the nearest multiple of the quantum of its size,
  ties to even.  A double is nearest to itself, rounding does not carry a number
  past a double, and an integer rounded is an even number of halves
  (`QuantumIs`, `NearestIs`, `FloatIs`).  Hence a conversion that comes back to
  the number it started from has lost nothing (`IntIs`, `UintIs`), whatever Go
  makes of a double that does not fit, except for those of `Beyond`.
* Names.  `Split` is a fold; `SplitCuts` says that what it gives are the pieces
  between the places of the character, so that what the code says of labels is
  what the comment says of the positions of dots and hyphens (`NameLabels`,
  `LabelsName`).  For `isHostAndPort` it remains that no address and no name has
  a colon outside its brackets (`HostIs`, `NameCharacters`, `Ip4Characters`), so
  that the last colon is the only one that can be before a port.  What an
  address is, is `IpLanguage`'s word in both; a name of `MaxName` characters and
  a dot is left out (finding 9).

A function that a definition gives by recursion is shown to satisfy its
equation by a least-element argument of our own (`Upwards`, `Recursion`), since
the library's induction theorems cannot be used: for the folds of `Split`, for
`Number` and for `Span`.

Only model-checked: liveness (`LoadReturns`, `Terminates`), which needs
fairness and `ENABLED`; and `AddressExact`, `PrefixExact`, `URIExact` and
`ReferenceExact`, which compare parsers with grammars.  Both sides of them
quantify over the ways a whole string may be divided, rule within rule, and for
the addresses the run shows also where the parser departs from the grammar; a
proof would have to follow every rule of RFC 3986 on both sides.
`NoRuleSilentlyDropped`, `WrapperRulesKept` and `FormatsFollowRules` are not
proved because they do not hold (findings 1 to 9).

## 5. Findings

1. **A repeated wrapper field loses its list rules** (`builder.go:461`).
   `processWrapperRules` skips lists, `processStandardRules` skips fields whose
   message is a wrapper; `repeated.min_items` on a `repeated
   google.protobuf.Int32Value` is compiled by neither.
2. **Two validators race on a rule message** (`cache.go:231`).  The window
   between `SetUnknown(nil)` and the end of `Unmarshal` lets another validator
   build the field without a predefined rule, with no error, although it does
   not allow unknown fields.
3. **Rules that cannot be resolved are dropped silently** (`builder.go:240`, and
   `builder.go:129`, `builder.go:222`, `cache.go:183`).  The error of
   `ResolveFieldRules` is discarded, and the field is built without rules, where
   `Validate` promises an error if the logic cannot be built
   (`validator.go:46-50`).
4. **A single colon before a prefix length is accepted** (`cel/library.go:808`):
   `isIpPrefix("::1:/64")` is true.  The test for a colon at the end asks for
   the end of the string, not of the address.
5. **Dotted notation after too many groups is accepted**
   (`cel/library.go:787`): `isIp("1:1:1:1:1:1::1.2.0.4")` is true.  That branch
   returns without the count of pieces the other exits make.
6. **A zone id after dotted notation is refused** (`cel/library.go:787`):
   `isIp("::1.2.0.4%a")` is false.
7. **A failed fragment is parsed again from the middle**
   (`cel/library.go:1132`): `isUriRef("a:##")` is true.  `uri()` does not put
   the cursor back, and `relativeRef` goes on behind the first `#`.
8. **An address in dotted notation is refused in a URI**
   (`cel/library.go:1388`): `isUri("a://[::1.2.0.4]")` is false, and
   `isIp("::1.2.0.4")` true.
9. **A name of 253 characters and a dot is refused** (`cel/library.go:1023`),
   although the comment excludes the dot from the limit.

Met on the way, and not a matter of behaviour a run could show:
`WithAllowUnknownFields` is documented the wrong way round (`option.go:72-74`
against `option.go:76-77` and `cache.go:64`); the comment at
`resolve.go:139-142` promises an answer for an extension whose value is no
message, where `resolve.go:149-150` would panic; `FindStructFieldType`
(`registry.go:86`) asks the parent for a field that the type it has lacks, and
may answer with a field of another type of that name, while `FindStructType`
stays with the first.  `LookupExact` says what a question about a field gets,
and so when this happens: exactly if the type the environment sees lacks the
field and a type of that name further up has it.

## 6. Abstractions

* A rule is what compiling it yields; what a CEL program computes on a value is
  `pass`, `fail` or `error`.  cel-go is not modelled.
* Builder: the order of map iteration and the addresses of evaluators do not
  matter; heaps never free.  The capacity of a heap is not bounded: a schema is
  finite and every message is built once.
* RuleCache: rules of a message have distinct numbers, so merging is set union;
  the bytes of one rule are atomic.  Fields in a message oneof get clones of
  their rules (`builder.go:255-258`) and behave as those with a dynamic message.
  A field is built once by a validator.
* Evaluation: the filter is a pure function of message and descriptor.  The
  nested `evaluators` slices of a value are flattened into its node, which
  changes nothing because `mergeViolations` is associative on what reaches it.
  The texts are left out.
* ProtoMap: maps are compared with maps; anything else is unequal to one at once
  (`map_value.go:103-106`).
* RulePaths: one violation at a time climbs through a goroutine's evaluators; a
  caller keeps the last one.  Violations of a message's own CEL rules have no
  rule path of a field and are left out.
* Bindings: a program is the names it reads, in any order, the part of them its
  result depends on, and whether it passes if that part has no message and no
  time in it.  `sync.Pool` may drop what it holds, so a new variable may be made
  at any time.  `ReduceResiduals` for a rule message with no rule set reads
  nothing and is left out.  The residual of a program stands for the program.
* Registry: types and fields stand for enumerations and their values as well,
  which are looked up by the same conditions; a name is defined by a file or
  not.  Readers hold no registry that was not handed out.
* Unique: values are equal or not; the two pools differ in what a member must
  be.
* Library: a character is its value as a hexadecimal digit, one of the
  separators, a letter, or a representative of the class the parser puts it in;
  upper and lower case are one.  Functions without a loop of their own around
  other parsers are operators on the string and the cursor.  NaN and the
  infinities convert to nothing and are no keys.  On processors that saturate,
  the doubles 2^63 and 2^64 convert to an integer that rounds back to them:
  `FindExact` leaves these two out (`Beyond`).

## 7. Not modelled

* Generated code (`internal/gen`, `*.pb.go`): message types for the conformance
  cases and tests, nine tenths of the repository's lines.  There is no behaviour
  of this program in them.
* The conformance executor: it reads a request, calls the library and writes a
  response.
* The global validator: `sync.OnceValues` around `New`, whose behaviour is that
  of the Go library; it is one of the validators of `RuleCache` and `Bindings`.
* `isEmail`, which is one regular expression; functions of the library that are
  one call (`isNan`, `isInf`, `startsWith` and so on).
* The rest of `map_value.go` (`Iterator`, `ConvertToNative`, `ConvertToType`,
  `Type`, `Value`): loops and type switches over what cel-go asks for, without
  state.  `lookups.go` is tables.
* `RegisterMessage` and `RegisterType`, which are there for cel-go's interface
  and are not called by the program.
* Texts of errors and violations.

What could still be added: resolution of message, oneof and predefined rules as
actions of their own next to `ResolveFieldRules`; rule paths of the violations
of message rules; proofs that the parsers of addresses and URIs accept what their
grammars have; a run and a proof that the walk of `Evaluation` ends, by a measure
on the tree.
