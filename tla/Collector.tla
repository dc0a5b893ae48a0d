------------------------------ MODULE Collector ------------------------------
(***************************************************************************)
(* The garbage collector of the Delta virtual machine: the counters and    *)
(* referrers of a container (DeltaCollectableContainer.cpp), the delayed   *)
(* collector (ContainerDelayedCollector.cpp) and what a table adds to them,*)
(* its delegates and delegators (DeltaTable.cpp).                          *)
(*                                                                         *)
(* A value refers to at most one container.  It lives on the stack of the  *)
(* virtual machine (Stacked), in C++ code (Internal) or in a field of a    *)
(* container (Contained).  A container whose last path from the stack, from*)
(* C++ code or from an external count is cut is garbage, and with it       *)
(* whatever refers to it: a reference from garbage to garbage would keep   *)
(* every cycle.  Garbage is marked as dying, then destroyed (its fields are*)
(* dropped one by one, and each may make garbage of something else), and   *)
(* its memory is freed when the outermost collection ends.                 *)
(*                                                                         *)
(* The calls the collector has still to make are the sequence work: a call *)
(* that makes other calls puts them in front.  Instructions are executed   *)
(* when it is empty.  Forced collection, which only the end of the program *)
(* uses (DeltaTableFactory::CollectAllUncollected), is left out, and with  *)
(* it collectedWhileCommitting: containers are destroyed before they are   *)
(* freed, so freeing them collects nothing.                                *)
(***************************************************************************)
EXTENDS Integers, Sequences, FiniteSets

CONSTANTS Container,    \* the memory for tables and other containers
          StackSlot,    \* values on the stack of the virtual machine
          NativeSlot,   \* values held by C++ code
          FieldName,    \* the fields a container may have
          NoContainer,  \* what a value without a container refers to
          MaxExternal,  \* containers with an external count, and delegations
          MaxDelegations \* (bounds of the model)

Field == Container \X FieldName
Value == StackSlot \cup NativeSlot \cup Field

ASSUME ResidencyAssumption ==
    /\ NoContainer \notin Container
    /\ StackSlot \cap NativeSlot = {}
    /\ (StackSlot \cup NativeSlot) \cap Field = {}

VARIABLES
    phase,          \* dyingState, and whether the memory is in use
    refers,         \* the container a value refers to
    referrers,      \* the values a container counts
    external,       \* the containers with an external count
    myDelegates,
    myDelegators,
    nesting,        \* collectionNesting
    forCollection,
    work,           \* what the collector has still to do
    orphans         \* history: delegates whose delegator was collected

values     == <<refers, referrers, external>>
delegation == <<myDelegates, myDelegators, orphans>>
collector  == <<phase, nesting, forCollection>>
vars       == <<values, delegation, collector, work>>

Collected(c) == phase[c] \in {"dying", "destroyed"}
Alive(c)     == phase[c] = "alive"

(***************************************************************************)
(* What a container hangs from.  refs and exts are referrers and external  *)
(* with one reference taken away.                                          *)
(***************************************************************************)
Holders(refs, c)  == {x \in Container : \E f \in FieldName : <<x, f>> \in refs[c]}
Referring(refs, c) == Holders(refs, c) \cup myDelegators[c]

\* The containers a search from c through referrers and delegators visits: it
\* does not go beyond one that is collected.
Closed(refs, S) == \A x \in S : Alive(x) => Referring(refs, x) \subseteq S
Above(refs, c)  == {x \in Container :
                       \A S \in SUBSET Container : c \in S /\ Closed(refs, S) => x \in S}

\* Fault: counts without a value are not looked at.
IsOnStack(refs, exts, c) == \E s \in StackSlot : s \in refs[c]

IsDirectlyReferencable(refs, exts, c) ==
    c \in exts \/ \E s \in StackSlot : s \in refs[c]

\* Fault: any reference counts, as in plain reference counting.
IsCounted(refs, exts, c) == c \in exts \/ refs[c] # {} \/ myDelegators[c] # {}

IsReferencable(refs, exts, c) ==
    \E x \in Above(refs, c) :
        \/ IsDirectlyReferencable(refs, exts, x)
        \/ Alive(x) /\ \E n \in NativeSlot : n \in refs[x]

Garbage(refs, c) == {x \in Above(refs, c) : Alive(x)}

-----------------------------------------------------------------------------
(***************************************************************************)
(* The calls of the collector.                                             *)
(***************************************************************************)
Drop(v)     == <<[call |-> "CollectGarbage", values |-> {v}]>>
DropAll(V)  == IF V = {} THEN <<>> ELSE <<[call |-> "CollectGarbage", values |-> V]>>
Refer(v, c) == <<[call |-> "FromTable", to |-> v, container |-> c]>>
Read(v, s)  == <<[call |-> "Assign", to |-> v, from |-> s]>>
DestroyAll(C) == IF C = {} THEN <<>> ELSE <<[call |-> "ExplicitDestructor", containers |-> C]>>
Complete(c) == <<[call |-> "SetCompleted", container |-> c]>>
Exit(depth) == <<[call |-> "Exiting", depth |-> depth]>>   \* depth: the nesting it ends

Todo == Head(work)

\* Fields of garbage keep what is reached through them alive.
Fields(c) == {v \in Field : v[1] = c /\ refers[v] # NoContainer}

(***************************************************************************)
(* The end of DecRefCounter, after the reference was taken away: c is      *)
(* collected, with all that refers to it, when it cannot be reached any    *)
(* more.  later is what is left to do then.                                *)
(***************************************************************************)
TestReferencable(c, later) ==
    IF IsReferencable(referrers', external', c)
    THEN work' = later /\ UNCHANGED collector
    ELSE LET garbage == Garbage(referrers', c)
         IN  /\ phase' = [x \in Container |-> IF x \in garbage THEN "dying" ELSE phase[x]]
             /\ forCollection' = forCollection \cup garbage
             /\ nesting' = nesting + 1
             /\ work' = DestroyAll({c}) \o DestroyAll(garbage \ {c}) \o Exit(nesting + 1) \o later

\* Fault: only the referrers on the stack are taken out.
DecStackReferrers(c, v, later) ==
    IF Collected(c)
    THEN work' = later /\ UNCHANGED <<referrers, collector>>
    ELSE /\ referrers' = [referrers EXCEPT ![c] = @ \ ({v} \cap StackSlot)]
         /\ TestReferencable(c, later)

\* What is being collected does not count any more.
DecRefCounter(c, v, later) ==
    IF Collected(c)
    THEN work' = later /\ UNCHANGED <<referrers, collector>>
    ELSE /\ referrers' = [referrers EXCEPT ![c] = @ \ {v}]
         /\ TestReferencable(c, later)

\* A value is dropped.  Nobody finds it while it is: whether it is made undefined
\* before the call of its container or after it makes no difference.
CollectGarbage ==
    /\ Todo.call = "CollectGarbage"
    /\ UNCHANGED <<external, delegation>>
    /\ \E v \in Todo.values :
          LET later == DropAll(Todo.values \ {v}) \o Tail(work)
          IN  /\ refers' = [refers EXCEPT ![v] = NoContainer]
              /\ IF refers[v] = NoContainer
                 THEN work' = later /\ UNCHANGED <<referrers, collector>>
                 ELSE DecRefCounter(refers[v], v, later)

\* v refers to c, and to nothing before.
IncRefCounter(v, c) ==
    /\ refers' = [refers EXCEPT ![v] = c]
    /\ referrers' = IF c = NoContainer THEN referrers
                    ELSE [referrers EXCEPT ![c] = @ \cup {v}]

FromTable ==
    /\ Todo.call = "FromTable"
    /\ IncRefCounter(Todo.to, Todo.container)
    /\ work' = Tail(work)
    /\ UNCHANGED <<external, delegation, collector>>

\* The value that is assigned is read after the old one was dropped.
Assign ==
    /\ Todo.call = "Assign"
    /\ IncRefCounter(Todo.to, refers[Todo.from])
    /\ work' = Tail(work)
    /\ UNCHANGED <<external, delegation, collector>>

\* A table leaves its delegates and its delegators, then drops its fields.
ExplicitDestructor ==
    /\ Todo.call = "ExplicitDestructor"
    /\ \E c \in Todo.containers :
          /\ myDelegators' = [x \in Container |-> IF x = c THEN {} ELSE
                                 IF x \in myDelegates[c] THEN myDelegators[x] \ {c}
                                                         ELSE myDelegators[x]]
          /\ myDelegates' = [x \in Container |-> IF x = c THEN {} ELSE
                                 IF x \in myDelegators[c] THEN myDelegates[x] \ {c}
                                                          ELSE myDelegates[x]]
          /\ orphans' = orphans \cup myDelegates[c]
          /\ work' = DropAll(Fields(c)) \o Complete(c)
                        \o DestroyAll(Todo.containers \ {c}) \o Tail(work)
    /\ UNCHANGED <<values, collector>>

SetCompleted ==
    /\ Todo.call = "SetCompleted"
    /\ phase' = [phase EXCEPT ![Todo.container] = "destroyed"]
    /\ referrers' = [referrers EXCEPT ![Todo.container] = {}]
    /\ work' = Tail(work)
    /\ UNCHANGED <<refers, external, delegation, nesting, forCollection>>

\* Fault: every collection frees what was collected.
ExitingAtOnce ==
    /\ Todo.call = "Exiting"
    /\ nesting' = nesting - 1
    /\ phase' = [x \in Container |-> IF x \in forCollection THEN "free" ELSE phase[x]]
    /\ forCollection' = {}
    /\ orphans' = orphans \ forCollection
    /\ work' = Tail(work)
    /\ UNCHANGED <<values, myDelegates, myDelegators>>

\* The outermost collection frees what was collected.
Exiting ==
    /\ Todo.call = "Exiting"
    /\ nesting' = nesting - 1
    /\ IF nesting = 1
       THEN /\ phase' = [x \in Container |-> IF x \in forCollection THEN "free" ELSE phase[x]]
            /\ forCollection' = {}
            /\ orphans' = orphans \ forCollection
       ELSE UNCHANGED <<phase, forCollection, orphans>>
    /\ work' = Tail(work)
    /\ UNCHANGED <<values, myDelegates, myDelegators>>

Collect == /\ work # <<>>
           /\ \/ CollectGarbage \/ FromTable \/ Assign
              \/ ExplicitDestructor \/ SetCompleted \/ Exiting
-----------------------------------------------------------------------------
(***************************************************************************)
(* What instructions and library functions ask for.  They find containers  *)
(* by what is on the stack.                                                *)
(***************************************************************************)
Ask(todo) == /\ work = <<>>
             /\ work' = todo

\* s := a new table.
New(s, c) ==
    /\ phase[c] = "free"
    /\ Ask(Drop(s) \o Refer(s, c))
    /\ phase' = [phase EXCEPT ![c] = "alive"]
    /\ UNCHANGED <<values, delegation, nesting, forCollection>>

\* v := s, where v is a variable or a field of a table.
Copy(v, s) ==
    /\ v # s
    /\ v \in Field => \E t \in StackSlot : refers[t] = v[1]
    /\ Ask(Drop(v) \o Read(v, s))
    /\ UNCHANGED <<values, delegation, collector>>

\* s := t.f, where t is another variable.
Get(s, t, f) ==
    /\ refers[t] # NoContainer
    /\ s # t
    /\ Ask(Drop(s) \o Read(s, <<refers[t], f>>))
    /\ UNCHANGED <<values, delegation, collector>>

\* Fault: t is assigned from its own field without a copy.
GetIntoPlain(t, f, n) ==
    /\ refers[t] # NoContainer
    /\ refers[n] = NoContainer
    /\ Ask(Drop(t) \o Read(t, <<refers[t], f>>))
    /\ UNCHANGED <<values, delegation, collector>>

\* t := t.f, with a copy of t in a C++ value until t is assigned.
GetInto(t, f, n) ==
    /\ refers[t] # NoContainer
    /\ refers[n] = NoContainer
    /\ Ask(Drop(t) \o Read(t, <<refers[t], f>>) \o Drop(n))
    /\ IncRefCounter(n, refers[t])
    /\ UNCHANGED <<external, delegation, collector>>

\* A variable or a field of a table is made undefined.
Undefine(v) ==
    /\ refers[v] # NoContainer
    /\ v \in Field => \E t \in StackSlot : refers[t] = v[1]
    /\ Ask(Drop(v))
    /\ UNCHANGED <<values, delegation, collector>>

\* Fault: the block is left without having entered the collector.
DoExitBlockBare(S) ==
    /\ S # {}
    /\ Ask(DropAll(S) \o Exit(nesting + 1))
    /\ UNCHANGED <<values, delegation, collector>>

\* The variables S go, at the end of a block or a function.
DoExitBlock(S) ==
    /\ S # {}
    /\ Ask(DropAll(S) \o Exit(nesting + 1))
    /\ nesting' = nesting + 1
    /\ UNCHANGED <<values, delegation, phase, forCollection>>

\* The containers x delegates to, directly or not, are left out of a cycle.
DelegatesOf(x) == {y \in Container :
    \A S \in SUBSET Container :
        (myDelegates[x] \subseteq S /\ \A z \in S : myDelegates[z] \subseteq S) => y \in S}

Delegate(a, b) ==
    /\ Cardinality({p \in Container \X Container : p[2] \in myDelegates[p[1]]}) < MaxDelegations
    /\ a # b /\ b \notin DelegatesOf(a) /\ a \notin DelegatesOf(b)
    /\ \A x \in {a, b} : \E t \in StackSlot : refers[t] = x
    /\ Ask(<<>>)
    /\ myDelegates' = [myDelegates EXCEPT ![a] = @ \cup {b}]
    /\ myDelegators' = [myDelegators EXCEPT ![b] = @ \cup {a}]
    /\ UNCHANGED <<orphans, values, collector>>

Undelegate(a, b) ==
    /\ b \in myDelegates[a]
    /\ \A x \in {a, b} : \E t \in StackSlot : refers[t] = x
    /\ Ask(<<>>)
    /\ myDelegates' = [myDelegates EXCEPT ![a] = @ \ {b}]
    /\ myDelegators' = [myDelegators EXCEPT ![b] = @ \ {a}]
    /\ UNCHANGED <<orphans, values, collector>>

\* C++ code counts a reference to c without a value, and takes it back.
IncExternal(c) ==
    /\ c \notin external /\ Cardinality(external) < MaxExternal
    /\ \E t \in StackSlot : refers[t] = c
    /\ Ask(<<>>)
    /\ external' = external \cup {c}
    /\ UNCHANGED <<refers, referrers, delegation, collector>>

DecExternal(c) ==
    /\ c \in external
    /\ work = <<>>
    /\ external' = external \ {c}
    /\ UNCHANGED <<refers, referrers>>
    /\ TestReferencable(c, <<>>)
    /\ UNCHANGED delegation

Init ==
    /\ phase = [c \in Container |-> "free"]
    /\ refers = [v \in Value |-> NoContainer]
    /\ referrers = [c \in Container |-> {}]
    /\ external = {}
    /\ myDelegates = [c \in Container |-> {}]
    /\ myDelegators = [c \in Container |-> {}]
    /\ nesting = 0
    /\ forCollection = {}
    /\ work = <<>>
    /\ orphans = {}

Program ==
    \/ \E s \in StackSlot, c \in Container : New(s, c)
    \/ \E v \in StackSlot \cup Field, s \in StackSlot : Copy(v, s)
    \/ \E s, t \in StackSlot, f \in FieldName : Get(s, t, f)
    \/ \E t \in StackSlot, f \in FieldName, n \in NativeSlot : GetInto(t, f, n)
    \/ \E v \in StackSlot \cup Field : Undefine(v)
    \/ \E S \in SUBSET StackSlot : DoExitBlock(S)
    \/ \E a, b \in Container : Delegate(a, b) \/ Undelegate(a, b)
    \/ \E c \in Container : IncExternal(c) \/ DecExternal(c)

Next == Program \/ Collect
Spec == Init /\ [][Next]_vars
-----------------------------------------------------------------------------
(***************************************************************************)
(* What is relied on.                                                      *)
(***************************************************************************)
HolderOf(v) == {x \in Container : \E f \in FieldName : v = <<x, f>>}

\* The containers a pending call touches.
Touched(todo) ==
    CASE todo.call = "CollectGarbage"     -> UNION {HolderOf(v) : v \in todo.values}
      [] todo.call = "FromTable"          -> HolderOf(todo.to) \cup ({todo.container} \ {NoContainer})
      [] todo.call = "Assign"             -> HolderOf(todo.to) \cup HolderOf(todo.from)
      [] todo.call = "ExplicitDestructor" -> todo.containers
      [] todo.call = "SetCompleted"       -> {todo.container}
      [] todo.call = "Exiting"            -> {}

Call == [call : {"CollectGarbage"}, values : SUBSET Value]
        \cup [call : {"FromTable"}, to : Value, container : Container \cup {NoContainer}]
        \cup [call : {"Assign"}, to : Value, from : Value]
        \cup [call : {"ExplicitDestructor"}, containers : SUBSET Container]
        \cup [call : {"SetCompleted"}, container : Container]
        \cup [call : {"Exiting"}, depth : Nat]

TypeOK ==
    /\ phase \in [Container -> {"free", "alive", "dying", "destroyed"}]
    /\ refers \in [Value -> Container \cup {NoContainer}]
    /\ referrers \in [Container -> SUBSET Value]
    /\ external \in SUBSET Container
    /\ myDelegates \in [Container -> SUBSET Container]
    /\ myDelegators \in [Container -> SUBSET Container]
    /\ nesting \in Nat
    /\ forCollection \in SUBSET Container
    /\ work \in Seq(Call)
    /\ orphans \in SUBSET Container

\* The referrers a container that is not being collected counts are the values
\* that refer to it, in the middle of a collection too
\* (DASSERT(refCounter == referrers.size()), and RemoveReference's).  The lists of
\* delegates and delegators are each other's inverse, and the delegators of what
\* is collected are collected (DASSERT in DeltaTable::ExplicitDestructor).
CountersAgree ==
    /\ \A c \in Container : Alive(c) => referrers[c] = {v \in Value : refers[v] = c}
    /\ \A a, b \in Container :
          /\ b \in myDelegates[a] <=> a \in myDelegators[b]
          /\ a \in myDelegators[b] /\ Collected(b) => Collected(a)

\* What the program can reach, computed from its variables downwards, is alive at
\* every step of every collection: the search from a dropped container upwards
\* never takes what is in use, and never leaves a variable that dangles.
Targets(c) == ({refers[<<c, f>>] : f \in FieldName} \cup myDelegates[c]) \ {NoContainer}
ReachableFrom(R) ==
    {x \in Container : \A S \in SUBSET Container :
                          R \subseteq S /\ (\A y \in S : Targets(y) \subseteq S) => x \in S}
Roots == (external \cup {refers[v] : v \in StackSlot \cup NativeSlot}) \ {NoContainer}

ReachableIsAlive == \A c \in ReachableFrom(Roots) : Alive(c)

\* Memory that was freed is not referred to, delegated to, or about to be touched
\* by a call that is still to be made: why collection is delayed.
NothingFreedIsUsed ==
    \A c \in Container :
        phase[c] = "free" =>
            /\ \A v \in Value : refers[v] # c
            /\ \A x \in Container : c \notin myDelegates[x] \cup myDelegators[x]
            /\ \A i \in DOMAIN work : c \notin Touched(work[i])

\* When an instruction is over, what the program cannot reach is freed, cycles
\* included.  The exception is what hangs from a delegate whose delegator was
\* collected (see CollectorClaims).
NoGarbageLeft ==
    work = <<>> => \A c \in Container :
                      phase[c] = "free" \/ c \in ReachableFrom(Roots \cup orphans)

\* Memory is freed after all destructors of the collection have run, and
\* containers die once.
DiesInOrder ==
    [][\A c \in Container :
          phase'[c] # phase[c] =>
             <<phase[c], phase'[c]>> \in {<<"free", "alive">>, <<"alive", "dying">>,
                                          <<"dying", "destroyed">>, <<"destroyed", "free">>}]_vars
=============================================================================
