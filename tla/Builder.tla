------------------------------- MODULE Builder -------------------------------
(***************************************************************************)
(* The build-through cache of message evaluators (builder.go).  Any number *)
(* of goroutines call Load; a hit is served from the published cache       *)
(* without a lock, a miss takes the mutex, copies the cache, builds the    *)
(* message and everything it embeds into the copy, and publishes it.  The  *)
(* recursion of build is an explicit stack, one action per step of it.     *)
(*                                                                         *)
(* Evaluators and cache maps live in heaps, as a Go pointer sees them: a   *)
(* cache maps descriptors to indices of `evals', `published' and `cache'   *)
(* are indices of `caches'.                                                *)
(***************************************************************************)
EXTENDS Schema

CONSTANTS
    Loaders,      \* goroutines that call Load
    Constructor,  \* the goroutine that runs newBuilder
    Unknown,      \* an unknownMessage evaluator
    Schemas,      \* the schemas a behaviour may start with
    SeedLists     \* the seedDesc arguments newBuilder may be given

ASSUME BuilderAssumption ==
    /\ Constructor \notin Loaders
    /\ Unknown \notin Nat
    /\ Schemas \subseteq [Messages -> Message]
    /\ SeedLists \subseteq Seq(Messages)

Threads == Loaders \cup {Constructor}

VARIABLES
    schema,     \* the descriptors of this behaviour
    lazy,       \* ~disableLazy: Load is loadOrBuild, otherwise load
    seeds,      \* seeds the constructor has still to build
    mtx,        \* holder of builder.mtx, {} or one thread
    published,  \* builder.cache: index of the published map, 0 before New
    caches,     \* heap of cache maps: descriptor -> index of evals, 0 if none
    evals,      \* heap of message evaluators
    pc,         \* where each thread is
    desc,       \* the argument of its Load
    cache,      \* the cache map it works on
    stack,      \* its build calls, innermost last
    result      \* the evaluator its last Load returned

vars == <<schema, lazy, seeds, mtx, published, caches, evals, pc, desc,
          cache, stack, result>>

-----------------------------------------------------------------------------
(* The values of the heaps.                                                *)

None == 0          \* a nil pointer

(* embeds is the pointer an embeddedMessage holds, None if there is none.  *)
FieldEvaluator == [index : Nat, err : BOOLEAN, required : BOOLEAN,
                   ignore : Ignore, parts : SUBSET Part, embeds : Nat]

(* `of' is the descriptor it was built for.  rules: it has CEL programs.   *)
(* oneofs, required: the message oneof rules and the oneof declarations it *)
(* has an evaluator for.                                                   *)
Evaluator == [of : Messages, err : BOOLEAN, rules : BOOLEAN,
              oneofs : SUBSET Nat, required : SUBSET Nat,
              fields : Seq(FieldEvaluator)]

EmptyMessage(d) ==
    [of |-> d, err |-> FALSE, rules |-> FALSE, oneofs |-> {}, required |-> {},
     fields |-> << >>]

Cache == [Messages -> Nat]
EmptyCache == [d \in Messages |-> None]

(* One call of build: the evaluator it fills in, the step it is at, and    *)
(* for the field it is at (`next') what is left to do and what it has.     *)
BuildStep == {"expressions", "messageOneofs", "oneofs", "fields", "value"}
Frame == [id : Nat, at : BuildStep, next : Nat, todo : Seq(Step),
          parts : SUBSET Part, embeds : Nat]

NewFrame(id) ==
    [id |-> id, at |-> "expressions", next |-> 1, todo |-> << >>,
     parts |-> {}, embeds |-> None]

PC == {"seed", "idle", "fast", "lock", "check", "build", "store", "unlock"}

Init ==
    /\ schema \in Schemas
    /\ lazy \in BOOLEAN
    /\ seeds \in SeedLists
    /\ mtx = {}
    /\ published = None
    /\ caches = << EmptyCache >>
    /\ evals = << >>
    /\ pc = [t \in Threads |-> IF t = Constructor THEN "seed" ELSE "idle"]
    /\ desc = [t \in Threads |-> NoMessage]
    /\ cache = [t \in Threads |-> IF t = Constructor THEN 1 ELSE None]
    /\ stack = [t \in Threads |-> << >>]
    /\ result = [t \in Threads |-> None]

-----------------------------------------------------------------------------
(* build: a hit returns the evaluator in the cache; otherwise a            *)
(* placeholder is put there first, which is what ends the recursion.       *)

(* The evaluator is put into the heap only when it is filled in.           *)
StartBuildMutant(t, c, d) ==
    /\ caches' = [caches EXCEPT ![c][d] = Len(evals) + 1]
    /\ stack' = [stack EXCEPT ![t] = Append(@, NewFrame(Len(evals) + 1))]
    /\ UNCHANGED evals

StartBuild(t, c, d) ==
    /\ caches' = [caches EXCEPT ![c][d] = Len(evals) + 1]
    /\ evals' = Append(evals, EmptyMessage(d))
    /\ stack' = [stack EXCEPT ![t] = Append(@, NewFrame(Len(evals) + 1))]

(* newBuilder builds its seeds into one map and publishes it without       *)
(* taking the mutex: nobody else has the builder yet.                      *)
Seed ==
    /\ pc[Constructor] = "seed"
    /\ seeds # << >>
    /\ seeds' = Tail(seeds)
    /\ desc' = [desc EXCEPT ![Constructor] = Head(seeds)]
    /\ IF caches[cache[Constructor]][Head(seeds)] # None
       THEN UNCHANGED <<caches, evals, pc, stack>>
       ELSE /\ StartBuild(Constructor, cache[Constructor], Head(seeds))
            /\ pc' = [pc EXCEPT ![Constructor] = "build"]
    /\ UNCHANGED <<schema, lazy, mtx, published, cache, result>>

Publish ==
    /\ pc[Constructor] = "seed"
    /\ seeds = << >>
    /\ published' = cache[Constructor]
    /\ cache' = [cache EXCEPT ![Constructor] = None]
    /\ pc' = [pc EXCEPT ![Constructor] = "idle"]
    /\ UNCHANGED <<schema, lazy, seeds, mtx, caches, evals, desc, stack,
                   result>>

(* A goroutine calls Load for some message, once New has returned.         *)
Call(t) ==
    /\ t \in Loaders
    /\ pc[t] = "idle"
    /\ published # None
    /\ \E d \in Messages : desc' = [desc EXCEPT ![t] = d]
    /\ pc' = [pc EXCEPT ![t] = "fast"]
    /\ result' = [result EXCEPT ![t] = None]
    /\ UNCHANGED <<schema, lazy, seeds, mtx, published, caches, evals, cache,
                   stack>>

(* The lock-free read both load and loadOrBuild start with.                *)
LoadHit(t) ==
    /\ pc[t] = "fast"
    /\ caches[published][desc[t]] # None
    /\ result' = [result EXCEPT ![t] = caches[published][desc[t]]]
    /\ pc' = [pc EXCEPT ![t] = "idle"]
    /\ UNCHANGED <<schema, lazy, seeds, mtx, published, caches, evals, desc,
                   cache, stack>>

LoadUnknown(t) ==
    /\ pc[t] = "fast"
    /\ ~lazy
    /\ caches[published][desc[t]] = None
    /\ result' = [result EXCEPT ![t] = Unknown]
    /\ pc' = [pc EXCEPT ![t] = "idle"]
    /\ UNCHANGED <<schema, lazy, seeds, mtx, published, caches, evals, desc,
                   cache, stack>>

(* A miss that does not look at disableLazy.                               *)
LoadMissMutant(t) ==
    /\ pc[t] = "fast"
    /\ caches[published][desc[t]] = None
    /\ cache' = [cache EXCEPT ![t] = published]
    /\ pc' = [pc EXCEPT ![t] = "lock"]
    /\ UNCHANGED <<schema, lazy, seeds, mtx, published, caches, evals, desc,
                   stack, result>>

LoadMiss(t) ==
    /\ pc[t] = "fast"
    /\ lazy
    /\ caches[published][desc[t]] = None
    /\ cache' = [cache EXCEPT ![t] = published]
    /\ pc' = [pc EXCEPT ![t] = "lock"]
    /\ UNCHANGED <<schema, lazy, seeds, mtx, published, caches, evals, desc,
                   stack, result>>

Lock(t) ==
    /\ pc[t] = "lock"
    /\ mtx = {}
    /\ mtx' = {t}
    /\ pc' = [pc EXCEPT ![t] = "check"]
    /\ UNCHANGED <<schema, lazy, seeds, published, caches, evals, desc, cache,
                   stack, result>>

(* The hit under the lock returns without unlocking.                       *)
RecheckMutant(t) ==
    /\ pc[t] = "check"
    /\ caches[published][desc[t]] # None
    /\ cache' = [cache EXCEPT ![t] = None]
    /\ result' = [result EXCEPT ![t] = caches[published][desc[t]]]
    /\ pc' = [pc EXCEPT ![t] = "idle"]
    /\ UNCHANGED <<schema, lazy, seeds, mtx, published, caches, evals, desc,
                   stack>>

(* Under the lock the published cache is read again: another goroutine may *)
(* have built the message meanwhile.                                       *)
Recheck(t) ==
    /\ pc[t] = "check"
    /\ caches[published][desc[t]] # None
    /\ cache' = [cache EXCEPT ![t] = published]
    /\ result' = [result EXCEPT ![t] = caches[published][desc[t]]]
    /\ pc' = [pc EXCEPT ![t] = "unlock"]
    /\ UNCHANGED <<schema, lazy, seeds, mtx, published, caches, evals, desc,
                   stack>>

(* The message is built in the map itself.                                 *)
CloneAndBuildMutant(t, c) ==
    /\ caches' = [caches EXCEPT ![c][desc[t]] = Len(evals) + 1]
    /\ cache' = [cache EXCEPT ![t] = c]
    /\ evals' = Append(evals, EmptyMessage(desc[t]))
    /\ stack' = [stack EXCEPT ![t] = << NewFrame(Len(evals) + 1) >>]

(* The map at index c is cloned, and the build of the message started in   *)
(* the clone.                                                              *)
CloneAndBuild(t, c) ==
    /\ caches' = Append(caches,
                        [caches[c] EXCEPT ![desc[t]] = Len(evals) + 1])
    /\ cache' = [cache EXCEPT ![t] = Len(caches) + 1]
    /\ evals' = Append(evals, EmptyMessage(desc[t]))
    /\ stack' = [stack EXCEPT ![t] = << NewFrame(Len(evals) + 1) >>]

(* The message is built even if another goroutine has just done so ...     *)
CloneMutant(t) ==
    /\ pc[t] = "check"
    /\ CloneAndBuild(t, published)
    /\ pc' = [pc EXCEPT ![t] = "build"]
    /\ UNCHANGED <<schema, lazy, seeds, mtx, published, desc, result>>

(* ... or in a clone of the map that was read before the lock was taken.   *)
CloneStaleMutant(t) ==
    /\ pc[t] = "check"
    /\ caches[cache[t]][desc[t]] = None
    /\ CloneAndBuild(t, cache[t])
    /\ pc' = [pc EXCEPT ![t] = "build"]
    /\ UNCHANGED <<schema, lazy, seeds, mtx, published, desc, result>>

Clone(t) ==
    /\ pc[t] = "check"
    /\ caches[published][desc[t]] = None
    /\ CloneAndBuild(t, published)
    /\ pc' = [pc EXCEPT ![t] = "build"]
    /\ UNCHANGED <<schema, lazy, seeds, mtx, published, desc, result>>

(* The clone replaces the published cache in one atomic store.             *)
Store(t) ==
    /\ pc[t] = "store"
    /\ published' = cache[t]
    /\ pc' = [pc EXCEPT ![t] = "unlock"]
    /\ UNCHANGED <<schema, lazy, seeds, mtx, caches, evals, desc, cache,
                   stack, result>>

(* The deferred Unlock, on every return of loadOrBuild that has the lock.  *)
Unlock(t) ==
    /\ pc[t] = "unlock"
    /\ mtx' = {}
    /\ cache' = [cache EXCEPT ![t] = None]
    /\ pc' = [pc EXCEPT ![t] = "idle"]
    /\ UNCHANGED <<schema, lazy, seeds, published, caches, evals, desc, stack,
                   result>>

-----------------------------------------------------------------------------
(* buildMessage: the steps of the innermost build call of a thread.        *)

Top(t) == stack[t][Len(stack[t])]
Top1(t, frame) == [stack EXCEPT ![t][Len(stack[t])] = frame]
Building(t, step) ==
    pc[t] = "build" /\ stack[t] # << >> /\ Top(t).at = step

Described(t) == schema[evals[Top(t).id].of]

(* The fields a build step never touches.                                  *)
BuildFrame == UNCHANGED <<schema, lazy, seeds, mtx, published, desc, cache>>

(* A step of buildMessage that writes the evaluator and moves on.          *)
FillIn(t, evaluator, next) ==
    /\ evals' = [evals EXCEPT ![Top(t).id] = evaluator]
    /\ stack' = Top1(t, [Top(t) EXCEPT !.at = next])
    /\ UNCHANGED <<caches, pc, result>>
    /\ BuildFrame

ProcessMessageExpressions(t) ==
    /\ Building(t, "expressions")
    /\ LET e == evals[Top(t).id]
           exprs == Described(t).exprs
       IN  FillIn(t, [e EXCEPT !.err = (exprs = "error"),
                               !.rules = (exprs = "some")],
                  "messageOneofs")

(* Every oneof rule before the first bad one has been appended when the    *)
(* bad one ends the step with an error.                                    *)
ProcessMessageOneofRules(t) ==
    /\ Building(t, "messageOneofs")
    /\ LET e == evals[Top(t).id]
           oneofs == Described(t).oneofs
           bad == {i \in DOMAIN oneofs : ~oneofs[i]}
           good == {i \in DOMAIN oneofs : \A j \in bad : i < j}
       IN  FillIn(t, [e EXCEPT !.err = @ \/ bad # {},
                               !.oneofs = good],
                  "oneofs")

ProcessOneofRules(t) ==
    /\ Building(t, "oneofs")
    /\ LET e == evals[Top(t).id]
           oneofs == Described(t).protoOneofs
       IN  FillIn(t, [e EXCEPT !.required = {i \in DOMAIN oneofs : oneofs[i]}],
                  "fields")

(* processFields: the next field, or the end of the build call.            *)
BuildField(t) ==
    /\ Building(t, "fields")
    /\ Top(t).next <= Len(Described(t).fields)
    /\ stack' = Top1(t, [Top(t) EXCEPT
                            !.at = "value", !.parts = {}, !.embeds = None,
                            !.todo = FieldPlan(Described(t).fields[Top(t).next])])
    /\ UNCHANGED <<caches, evals, pc, result>>
    /\ BuildFrame

(* The field's evaluator is appended unless it is a tautology.             *)
AppendField(t, err, parts) ==
    LET f == Described(t).fields[Top(t).next]
        fieldEval == [index |-> Top(t).next, err |-> err,
                      required |-> f.required, ignore |-> FieldIgnore(f),
                      parts |-> parts,
                      embeds |-> IF \E p \in parts : p.op = "embed"
                                 THEN Top(t).embeds ELSE None]
        tautology == ~f.required /\ parts = {} /\ ~err
    IN  /\ evals' = IF tautology THEN evals
                    ELSE [evals EXCEPT ![Top(t).id].fields =
                                            Append(@, fieldEval)]
        /\ stack' = Top1(t, [Top(t) EXCEPT !.at = "fields", !.todo = << >>,
                                           !.next = @ + 1])
        /\ UNCHANGED <<caches, pc, result>>
        /\ BuildFrame

(* What an error leaves of a value: the keys and the items of a map or     *)
(* list, and the rules of an unwrapped value, are appended at the end.     *)
Kept(parts) ==
    {p \in parts : p.slot = "value" /\ p.op # "unwrapped cel"}

FinishField(t) ==
    /\ Building(t, "value")
    /\ Top(t).todo = << >>
    /\ AppendField(t, FALSE, Top(t).parts)

(* A group of rules that compiles: what there is of it joins the value.    *)
CompileRules(t) ==
    /\ Building(t, "value")
    /\ Top(t).todo # << >>
    /\ LET step == Head(Top(t).todo)
       IN  /\ step.part.op # "embed"
           /\ step.outcome # "error"
           /\ stack' = Top1(t, [Top(t) EXCEPT
                  !.todo = Tail(@),
                  !.parts = IF step.outcome = "some"
                            THEN @ \cup {step.part} ELSE @])
    /\ UNCHANGED <<caches, evals, pc, result>>
    /\ BuildFrame

(* The first error ends the field and becomes the evaluator's Err.         *)
FailRules(t) ==
    /\ Building(t, "value")
    /\ Top(t).todo # << >>
    /\ Head(Top(t).todo).part.op # "embed"
    /\ Head(Top(t).todo).outcome = "error"
    /\ AppendField(t, TRUE, Kept(Top(t).parts))

(* processEmbeddedMessage calls build for the field's message, which       *)
(* pushes a frame on a miss and returns an evaluator, finished or not, on  *)
(* a hit ...                                                               *)
EnterEmbedded(t) ==
    /\ Building(t, "value")
    /\ Top(t).todo # << >>
    /\ LET step == Head(Top(t).todo)
       IN  /\ step.part.op = "embed"
           /\ caches[cache[t]][step.target] = None
           /\ StartBuild(t, cache[t], step.target)
    /\ UNCHANGED <<pc, result>>
    /\ BuildFrame

(* The Err of an evaluator that is still being built is not looked at.     *)
EmbedMessageMutant(t) ==
    /\ Building(t, "value")
    /\ Top(t).todo # << >>
    /\ LET step == Head(Top(t).todo)
           id == caches[cache[t]][step.target]
           building == {stack[t][k].id : k \in DOMAIN stack[t]}
       IN  /\ step.part.op = "embed"
           /\ id # None
           /\ IF evals[id].err /\ id \notin building
              THEN AppendField(t, TRUE, Kept(Top(t).parts))
              ELSE /\ stack' = Top1(t, [Top(t) EXCEPT
                          !.todo = Tail(@), !.embeds = id,
                          !.parts = @ \cup {step.part}])
                   /\ UNCHANGED <<caches, evals, pc, result>>
                   /\ BuildFrame

(* ... and then looks at the Err of what build returned.                   *)
EmbedMessage(t) ==
    /\ Building(t, "value")
    /\ Top(t).todo # << >>
    /\ LET step == Head(Top(t).todo)
           id == caches[cache[t]][step.target]
       IN  /\ step.part.op = "embed"
           /\ id # None
           /\ IF evals[id].err
              THEN AppendField(t, TRUE, Kept(Top(t).parts))
              ELSE /\ stack' = Top1(t, [Top(t) EXCEPT
                          !.todo = Tail(@), !.embeds = id,
                          !.parts = @ \cup {step.part}])
                   /\ UNCHANGED <<caches, evals, pc, result>>
                   /\ BuildFrame

(* The innermost build call returns; the outermost one to newBuilder's     *)
(* loop or to loadOrBuild, which has the evaluator it will return.         *)
ReturnBuild(t) ==
    /\ Building(t, "fields")
    /\ Top(t).next > Len(Described(t).fields)
    /\ stack' = [stack EXCEPT ![t] = SubSeq(@, 1, Len(@) - 1)]
    /\ IF Len(stack[t]) > 1
       THEN UNCHANGED <<pc, result>>
       ELSE IF t = Constructor
       THEN /\ pc' = [pc EXCEPT ![t] = "seed"]
            /\ UNCHANGED result
       ELSE /\ pc' = [pc EXCEPT ![t] = "store"]
            /\ result' = [result EXCEPT ![t] = Top(t).id]
    /\ UNCHANGED <<caches, evals>>
    /\ BuildFrame

Build(t) ==
    \/ ProcessMessageExpressions(t) \/ ProcessMessageOneofRules(t)
    \/ ProcessOneofRules(t) \/ BuildField(t) \/ FinishField(t)
    \/ CompileRules(t) \/ FailRules(t) \/ EnterEmbedded(t)
    \/ EmbedMessage(t) \/ ReturnBuild(t)

(* What a thread does once it has been called.                             *)
Run(t) ==
    \/ LoadHit(t) \/ LoadUnknown(t) \/ LoadMiss(t)
    \/ Lock(t) \/ Recheck(t) \/ Clone(t) \/ Store(t) \/ Unlock(t)
    \/ Build(t)

Next ==
    \/ Seed
    \/ Publish
    \/ \E t \in Threads : Call(t) \/ Run(t)

Spec == Init /\ [][Next]_vars

(* The Go scheduler runs every goroutine that can run, and sync.Mutex lets *)
(* a waiter in when it is free.  Nobody has to call Load.                  *)
Fairness ==
    /\ WF_vars(Seed \/ Publish)
    /\ \A t \in Threads : WF_vars(Run(t))

FairSpec == Spec /\ Fairness

-----------------------------------------------------------------------------
(* Properties.                                                             *)

(* Every variable has its type, and no pointer dangles: a cache map never  *)
(* names an evaluator that is not in the heap (builder.go:119-120).        *)
TypeOK ==
    /\ schema \in [Messages -> Message]
    /\ lazy \in BOOLEAN
    /\ seeds \in Seq(Messages)
    /\ mtx \in SUBSET Threads
    /\ published \in Nat
    /\ caches \in Seq(Cache)
    /\ evals \in Seq(Evaluator)
    /\ pc \in [Threads -> PC]
    /\ desc \in [Threads -> Messages \cup {NoMessage}]
    /\ cache \in [Threads -> Nat]
    /\ stack \in [Threads -> Seq(Frame)]
    /\ result \in [Threads -> Nat \cup {Unknown}]
    /\ \A c \in DOMAIN caches, d \in Messages :
           caches[c][d] # None => caches[c][d] \in DOMAIN evals

PublishedEvals ==
    IF published = None THEN {}
    ELSE {caches[published][d] : d \in Messages} \ {None}

(* A reader that takes an evaluator from the published cache, without the  *)
(* lock, gets one no build call is still filling in, and every message an  *)
(* evaluator points to is the published evaluator of its own descriptor:   *)
(* what New or loadOrBuild stores is closed (builder.go:75-79, 106-108).   *)
PublishedClosed ==
    \A id \in PublishedEvals :
        /\ \A t \in Threads :
               \A k \in DOMAIN stack[t] : stack[t][k].id # id
        /\ \A i \in DOMAIN evals[id].fields :
               LET e == evals[id].fields[i].embeds
               IN  e # None => caches[published][evals[e].of] = e

(* One descriptor has one evaluator object: whoever called Load for it,    *)
(* before or after, raced or not, holds the pointer the cache holds.       *)
SameEvaluator ==
    \A t \in Loaders :
        (pc[t] = "idle" /\ result[t] \notin {None, Unknown})
            => caches[published][desc[t]] = result[t]

(* However many goroutines miss at once, no message is built twice.        *)
BuiltOnce ==
    \A i, j \in DOMAIN evals : evals[i].of = evals[j].of => i = j

(* A published map only ever grows: storing a clone loses no entry that    *)
(* another goroutine published, and no entry is ever replaced.             *)
CacheGrows ==
    [][published # None =>
          \A d \in Messages :
             caches[published][d] # None
                => caches'[published'][d] = caches[published][d]]_vars

(* What has been published is never written again, neither the map (Go     *)
(* maps must not be written while they are read) nor an evaluator in it.   *)
PublishedImmutable ==
    [][published # None =>
          /\ caches'[published] = caches[published]
          /\ \A id \in PublishedEvals : evals'[id] = evals[id]]_vars

(* With lazy building disabled nothing is built after New returned: an     *)
(* unknown message gets no evaluator, however often it is asked for        *)
(* (builder.go:83-91).                                                     *)
NoBuildWhenDisabled ==
    [][(published # None /\ ~lazy)
          => UNCHANGED <<published, caches, evals>>]_vars

(* Every Load returns: the build of a recursive message ends, the lock is  *)
(* given back on every path.                                               *)
LoadReturns ==
    \A t \in Loaders : (pc[t] = "fast") ~> (pc[t] = "idle")

-----------------------------------------------------------------------------
(* The inductive invariant behind the safety properties.                   *)

Critical == {"check", "build", "store", "unlock"}
Owns(t) == pc[t] \in {"build", "store"}

(* The lock is held by the loader in the critical section, which is alone. *)
LockInv ==
    /\ mtx # {} => \E t \in Loaders : mtx = {t}
    /\ \A t \in Loaders : pc[t] \in Critical <=> mtx = {t}

(* Until New returns nobody else runs, and there is one map.               *)
NewInv ==
    /\ pc[Constructor] \in {"seed", "build", "idle"}
    /\ pc[Constructor] = "idle" <=> published # None
    /\ pc[Constructor] # "idle" =>
          /\ cache[Constructor] = 1
          /\ Len(caches) = 1
          /\ mtx = {}
          /\ \A t \in Loaders : pc[t] = "idle" /\ result[t] = None
    /\ \A t \in Loaders : pc[t] # "idle" => desc[t] \in Messages
    /\ \A t \in Loaders : pc[t] # "seed"

(* An entry of a map is the evaluator of its own key.                      *)
EntryInv ==
    \A c \in DOMAIN caches, d \in Messages :
        caches[c][d] # None => evals[caches[c][d]].of = d

(* The map being filled is private, and has all that is published.         *)
CloneInv ==
    /\ published # None => published \in DOMAIN caches
    /\ \A t \in Threads : Owns(t) =>
          /\ cache[t] \in DOMAIN caches
          /\ cache[t] # published
          /\ published # None =>
                \A d \in Messages :
                    caches[published][d] # None
                        => caches[cache[t]][d] = caches[published][d]

FieldInRange(frame) ==
    /\ frame.next # 0
    /\ frame.at = "value" =>
          frame.next \in DOMAIN schema[evals[frame.id].of].fields

(* An evaluator being filled in is in the private map and in no other; the *)
(* first call on a loader's stack is for the message it was asked for.     *)
StackInv ==
    \A t \in Threads :
        /\ pc[t] # "build" => stack[t] = << >>
        /\ pc[t] = "build" => stack[t] # << >>
        /\ pc[t] = "seed" => t = Constructor
        /\ \A k \in DOMAIN stack[t] :
              /\ stack[t][k].id \in DOMAIN evals
              /\ stack[t][k].id \notin PublishedEvals
              /\ FieldInRange(stack[t][k])
        /\ (pc[t] = "build" /\ t # Constructor)
              => stack[t][1].id = caches[cache[t]][desc[t]]

(* Every evaluator is in the published map or in the one being filled.     *)
OwnedInv ==
    \A i \in DOMAIN evals :
        \/ published # None /\ caches[published][evals[i].of] = i
        \/ pc[Constructor] # "idle" /\ caches[1][evals[i].of] = i
        \/ \E t \in Loaders : Owns(t) /\ caches[cache[t]][evals[i].of] = i

(* A loader holds the evaluator of the published map, or of the map it is  *)
(* about to publish.                                                       *)
ResultInv ==
    \A t \in Loaders :
        /\ (pc[t] \in {"idle", "unlock"} /\ result[t] \notin {None, Unknown})
              => /\ published # None
                 /\ desc[t] \in Messages
                 /\ caches[published][desc[t]] = result[t]
        /\ pc[t] = "store" => /\ result[t] # None
                              /\ result[t] = caches[cache[t]][desc[t]]

IInv ==
    /\ TypeOK /\ LockInv /\ NewInv /\ EntryInv /\ CloneInv
    /\ StackInv /\ OwnedInv /\ ResultInv

==============================================================================
