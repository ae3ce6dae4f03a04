------------------------------- MODULE Registry -------------------------------
(***************************************************************************)
(* The tree of type registries behind CEL environments (registry.go).  An  *)
(* environment is extended, one at a time under the builder's mutex, with  *)
(* a child registry that asks its parent for what it does not have; the    *)
(* goroutines that evaluate walk the same registries without a lock.       *)
(* Registries are numbered as they are made, 0 is none, 1 the root.        *)
(***************************************************************************)
EXTENDS Integers, FiniteSets

CONSTANTS
    Files,        \* file descriptors, compared as pointers
    GlobalFiles,  \* those linked into the program
    Types,        \* names of message types
    FieldNames,
    Message,      \* the types a file defines
    FieldsOf,     \* the fields a file gives a type it defines
    Readers,      \* goroutines that evaluate
    MaxRegistries \* how many registries are made

(* Files of one set of options come out of one pool, which defines a name  *)
(* once (the linked files are one, a message's file and its imports too).  *)
Pool(fs) == \A f, g \in fs : f # g => Message[f] \cap Message[g] = {}

ASSUME RegistryAssumption ==
    /\ GlobalFiles \subseteq Files
    /\ Message \in [Files -> SUBSET Types]
    /\ FieldsOf \in [Files -> [Types -> SUBSET FieldNames]]
    /\ MaxRegistries \in Nat
    /\ Pool(GlobalFiles)

Registries == 1 .. MaxRegistries

VARIABLES
    count,     \* registries made so far
    parent,
    known,     \* knownFiles
    local,     \* what the local registry has: <<file, type>>
    asked,     \* the files of the extension a registry was made for
    building,  \* the registry of the extension under way, or 0
    todo,      \* files it has still to register
    used,      \* registries of environments that were handed out
    pc,        \* of each reader
    asks,      \* its question
    at,        \* the registry it has come to
    answer     \* the files whose definition it was given, one or none

tree == <<count, parent, known, local, asked>>
readers == <<pc, asks, at, answer>>
vars == <<tree, building, todo, used, readers>>

(* FindStructType, FieldNames, FindIdent, EnumValue, NewValue and the      *)
(* conversion of a message ask for a type; an element is a message in a    *)
(* list or a map that was converted at registry `from'.                    *)
Question == [kind : {"type", "element", "field"}, from : Registries,
             type : Types, field : FieldNames]

-----------------------------------------------------------------------------
(* Extending environments.                                                 *)

Init ==
    /\ count = 0
    /\ parent = [r \in Registries |-> 0]
    /\ known = [r \in Registries |-> {}]
    /\ local = [r \in Registries |-> {}]
    /\ asked = [r \in Registries |-> {}]
    /\ building = 0
    /\ todo = {}
    /\ used = {}
    /\ pc = [g \in Readers |-> "idle"]
    /\ asks \in [Readers -> {q \in Question : q.from = 1 /\ q.kind = "type"}]
    /\ at = [g \in Readers |-> 0]
    /\ answer = [g \in Readers |-> {}]

Make(p, fs) ==
    /\ building = 0
    /\ count < MaxRegistries
    /\ count' = count + 1
    /\ parent' = [parent EXCEPT ![count + 1] = p]
    /\ asked' = [asked EXCEPT ![count + 1] = fs]
    /\ building' = count + 1
    /\ todo' = fs
    /\ UNCHANGED <<known, local, used, readers>>

(* newRegistry, and the library's TypeDescs.                               *)
NewRegistry == count = 0 /\ Make(0, GlobalFiles)

(* The options are applied to the registry of the environment itself.      *)
ExtendMutant ==
    \E r \in used, fs \in SUBSET Files :
        /\ Pool(fs)
        /\ building = 0
        /\ building' = r
        /\ todo' = fs
        /\ asked' = [asked EXCEPT ![r] = @ \cup fs]
        /\ UNCHANGED <<count, parent, known, local, used, readers>>

(* extendEnv: Copy comes first, then the options.                          *)
Extend == \E r \in used, fs \in SUBSET Files : Pool(fs) /\ Make(r, fs)

(* r and its ancestors, what a lookup that begins at r may reach: the      *)
(* least set that has r and every registry's parent, given by p.           *)
Ascends(p, s) == \A r \in s : p[r] \in s \cup {0}
Chain(p, r) ==
    {a \in Registries : \A s \in SUBSET Registries : r \in s /\ Ascends(p, s) => a \in s}

Ancestors(r) == Chain(parent, r)

(* A file whose types are all visible is taken to be registered.           *)
RegisterDescriptorMutant ==
    \E f \in todo :
        /\ todo' = todo \ {f}
        /\ IF \A t \in Message[f] : \E r \in Ancestors(building), g \in Files :
                  <<g, t>> \in local[r]
           THEN UNCHANGED <<known, local>>
           ELSE /\ known' = [known EXCEPT ![building] = @ \cup {f}]
                /\ local' = [local EXCEPT ![building] = @ \cup ({f} \X Message[f])]
        /\ UNCHANGED <<count, parent, asked, building, used, readers>>

(* RegisterDescriptor; the files of a message come in the order of a map.  *)
RegisterDescriptor ==
    \E f \in todo :
        /\ todo' = todo \ {f}
        /\ IF \E r \in Ancestors(building) : f \in known[r]
           THEN UNCHANGED <<known, local>>
           ELSE /\ known' = [known EXCEPT ![building] = @ \cup {f}]
                /\ local' = [local EXCEPT ![building] = @ \cup ({f} \X Message[f])]
        /\ UNCHANGED <<count, parent, asked, building, used, readers>>

(* The registry of a failed extension is used none the less.               *)
ExtendFailsMutant ==
    \E f \in todo : \E ts \in SUBSET Message[f] :
        /\ \A r \in Ancestors(building) : f \notin known[r]
        /\ known' = [known EXCEPT ![building] = @ \cup {f}]
        /\ local' = [local EXCEPT ![building] = @ \cup ({f} \X ts)]
        /\ building' = 0
        /\ todo' = {}
        /\ used' = used \cup {building}
        /\ UNCHANGED <<count, parent, asked, readers>>

(* The local registry refuses a file after some of its types: Extend       *)
(* returns an error and the environment with its registry is dropped.      *)
ExtendFails ==
    \E f \in todo : \E ts \in SUBSET Message[f] :
        /\ \A r \in Ancestors(building) : f \notin known[r]
        /\ known' = [known EXCEPT ![building] = @ \cup {f}]
        /\ local' = [local EXCEPT ![building] = @ \cup ({f} \X ts)]
        /\ building' = 0
        /\ todo' = {}
        /\ UNCHANGED <<count, parent, asked, used, readers>>

HandOut ==
    /\ building # 0
    /\ todo = {}
    /\ used' = used \cup {building}
    /\ building' = 0
    /\ UNCHANGED <<tree, todo, readers>>

-----------------------------------------------------------------------------
(* Lookups.                                                                *)

(* The fields a definition has to have for it to answer a question.        *)
Wanted(q) == IF q.kind = "field" THEN {q.field} ELSE {}

(* The definition the local registry answers a question with.              *)
Local(r, q) ==
    {f \in Files : <<f, q.type>> \in local[r] /\ Wanted(q) \subseteq FieldsOf[f][q.type]}

(* The adapter of a list is the registry's local one.                      *)
DelegateMutant(r, q) == IF q.kind = "element" THEN 0 ELSE parent[r]

(* Whom to ask next.                                                       *)
Delegate(r, q) == parent[r]

Ask(g) ==
    /\ pc[g] = "idle"
    /\ \E q \in Question :
          /\ q.from \in used
          /\ asks' = [asks EXCEPT ![g] = q]
          /\ at' = [at EXCEPT ![g] = q.from]
    /\ answer' = [answer EXCEPT ![g] = {}]
    /\ pc' = [pc EXCEPT ![g] = "looking"]
    /\ UNCHANGED <<tree, building, todo, used>>

Look(g) ==
    /\ pc[g] = "looking"
    /\ LET found == Local(at[g], asks[g])
           next == Delegate(at[g], asks[g])
       IN  IF found # {} \/ next = 0
           THEN /\ answer' = [answer EXCEPT ![g] = found]
                /\ pc' = [pc EXCEPT ![g] = "answered"]
                /\ UNCHANGED at
           ELSE /\ at' = [at EXCEPT ![g] = next]
                /\ UNCHANGED <<answer, pc>>
    /\ UNCHANGED <<tree, building, todo, used, asks>>

Return(g) ==
    /\ pc[g] = "answered"
    /\ pc' = [pc EXCEPT ![g] = "idle"]
    /\ UNCHANGED <<tree, building, todo, used, asks, at, answer>>

Next ==
    \/ NewRegistry \/ Extend \/ RegisterDescriptor \/ ExtendFails \/ HandOut
    \/ \E g \in Readers : Ask(g) \/ Look(g) \/ Return(g)

Spec == Init /\ [][Next]_vars

-----------------------------------------------------------------------------
(* Properties.                                                             *)

(* Every variable has its type.                                            *)
TypeOK ==
    /\ count \in 0 .. MaxRegistries
    /\ parent \in [Registries -> 0 .. MaxRegistries]
    /\ known \in [Registries -> SUBSET Files]
    /\ local \in [Registries -> SUBSET (Files \X Types)]
    /\ asked \in [Registries -> SUBSET Files]
    /\ building \in 0 .. count
    /\ todo \in SUBSET Files
    /\ used \subseteq 1 .. count
    /\ pc \in [Readers -> {"idle", "looking", "answered"}]
    /\ asks \in [Readers -> Question]
    /\ at \in [Readers -> 0 .. MaxRegistries]
    /\ \A g \in Readers : pc[g] = "looking" => at[g] \in 1 .. count
    /\ answer \in [Readers -> SUBSET Files]

(* The registry of an environment that was handed out, which goroutines    *)
(* read without a lock, is never written (registry.go:26-38).              *)
NoWriteShared ==
    [][\A r \in used : /\ known'[r] = known[r]
                       /\ local'[r] = local[r]
                       /\ parent'[r] = parent[r]]_vars

(* A registry has a type with these fields.                                *)
Has(r, t, fs) == \E f \in Files : <<f, t>> \in local[r] /\ fs \subseteq FieldsOf[f][t]

(* The definition of a type with these fields that an environment sees: the*)
(* one in the nearest registry that has any (registries grow towards the   *)
(* leaves).                                                                *)
Seen(r, t, fs) ==
    {f \in Files : \E s \in Ancestors(r) :
        /\ <<f, t>> \in local[s] /\ fs \subseteq FieldsOf[f][t]
        /\ \A u \in Ancestors(r) : u > s => ~Has(u, t, fs)}

(* Whatever is being extended meanwhile and wherever the walk was begun, a *)
(* lookup ends with the one definition its environment sees: a question    *)
(* about a type with the nearest definition of it; one about a field with  *)
(* the nearest that has the field, which is of another file only if the    *)
(* nearest of all lacks it (registry.go:74-159).                           *)
LookupExact ==
    \A g \in Readers :
        pc[g] = "answered" =>
            answer[g] = Seen(asks[g].from, asks[g].type, Wanted(asks[g]))

(* Skipping a file because it is known is right: what knows a file has all *)
(* of its types, in every environment that is used (registry.go:189-200).  *)
KnownRegistered ==
    \A r \in used : \A f \in known[r] : {f} \X Message[f] \subseteq local[r]

(* An environment that extends the root sees the very types it was         *)
(* extended with, whatever the root has under their names                  *)
(* (registry.go:189-200, the test TestRegistryTypeShadowing).              *)
OwnTypesSeen ==
    \A r \in used : parent[r] \in {0, 1} =>
        \A f \in asked[r] : \A t \in Message[f] : Seen(r, t, {}) = {f}

==============================================================================
