-------------------------- MODULE Collector_proofs --------------------------
(***************************************************************************)
(* Proofs about Collector for every set of containers, values and fields   *)
(* and both bounds: counters and referrers agree in the middle of every    *)
(* collection, what the program reaches is alive, what was freed is not    *)
(* touched, containers die in order, and nothing the program cannot reach  *)
(* is left when an instruction is over.                                    *)
(*                                                                         *)
(* The invariant IInv says of the values and containers (Sound) that the   *)
(* living hold only the living, and of the calls of the collector that are *)
(* still to be made (Nested, Pending) that every container that is dying   *)
(* will be destroyed before a collection ends, its fields being dropped    *)
(* first, and that a call that drops or assigns a field finds its          *)
(* container: a variable holds it, or it is dying.  NoLeak (at the end)    *)
(* says that no collection in progress loses what is alive.                *)
(***************************************************************************)
EXTENDS Collector, TLAPS

\* The values that are in no container.
Slot == StackSlot \cup NativeSlot

\* What a pending call drops and destroys.
Dropped(todo) == IF todo.call = "CollectGarbage" THEN todo.values ELSE {}
Kills(todo) ==
    CASE todo.call = "ExplicitDestructor" -> todo.containers
      [] todo.call = "SetCompleted"       -> {todo.container}
      [] OTHER                            -> {}
Exits(todo)   == todo.call = "Exiting"
Assigns(todo) == todo.call \in {"FromTable", "Assign"}
Completes(todo, c) == todo.call = "SetCompleted" /\ todo.container = c

(* The values and containers.                                              *)
\* The referrers of the living are the values that refer to them.
Counted(rf, rr, ph) ==
    \A c \in Container : /\ ph[c] = "alive" => rr[c] = {v \in Value : rf[v] = c}
                         /\ ph[c] \in {"free", "destroyed"} => rr[c] = {}
\* Delegates and delegators are each other's inverse.
Mutual(md, mr) == \A a, b \in Container : b \in md[a] <=> a \in mr[b]
\* What is held is alive.
Rooted(rf, ex, ph) ==
    /\ \A u \in Slot : rf[u] # NoContainer => ph[rf[u]] = "alive"
    /\ \A c \in ex : ph[c] = "alive"
\* The living hold the living.
Kept(rf, md, ph) ==
    \A c \in Container : ph[c] = "alive" =>
        /\ \A f \in FieldName : rf[<<c, f>>] # NoContainer => ph[rf[<<c, f>>]] = "alive"
        /\ \A d \in md[c] : ph[d] = "alive"
\* What is gone holds nothing, and nothing refers to what is freed.
Gone(rf, md, mr, ph) ==
    \A c \in Container : ph[c] \in {"free", "destroyed"} =>
        /\ \A f \in FieldName : rf[<<c, f>>] = NoContainer
        /\ md[c] = {} /\ mr[c] = {}
        /\ ph[c] = "free" => \A v \in Value : rf[v] # c
Sound(rf, rr, ex, md, mr, ph) ==
    /\ Counted(rf, rr, ph) /\ Mutual(md, mr) /\ Rooted(rf, ex, ph)
    /\ Kept(rf, md, ph) /\ Gone(rf, md, mr, ph)

(* The calls still to be made.                                             *)
\* n collections are under way, the innermost one ends first.
Nested(w, n) ==
    /\ \A i \in DOMAIN w : Exits(w[i]) => w[i].depth \in 1..n
    /\ \A d \in 1..n : \E i \in DOMAIN w : Exits(w[i]) /\ w[i].depth = d
    /\ \A i, j \in DOMAIN w : i < j /\ Exits(w[i]) /\ Exits(w[j]) => w[i].depth > w[j].depth
\* What is destroyed is dying, once, and before the end of a collection.
Ordered(w, ph) ==
    /\ \A i \in DOMAIN w : Kills(w[i]) # {} => \E j \in DOMAIN w : i < j /\ Exits(w[j])
    /\ \A i \in DOMAIN w : \A c \in Kills(w[i]) : ph[c] = "dying"
    /\ \A i, j \in DOMAIN w : Kills(w[i]) \cap Kills(w[j]) # {} => i = j
\* c will be destroyed, and its field f will be dropped by then.
Covers(w, c) == \E i \in DOMAIN w : c \in Kills(w[i])
Empties(w, c, f) ==
    \E i \in DOMAIN w :
       /\ c \in Kills(w[i])
       /\ Completes(w[i], c) => \E j \in DOMAIN w : j < i /\ <<c, f>> \in Dropped(w[j])
\* A container that is about to be completed has left its delegates and delegators.
Left(w, md, mr) ==
    \A i \in DOMAIN w : \A c \in Container : Completes(w[i], c) => md[c] = {} /\ mr[c] = {}
\* A variable or a C++ value holds c, and no call up to the i-th drops it.
Held(w, rf, i, c) ==
    \E u \in Slot : /\ rf[u] = c
                    /\ \A j \in DOMAIN w : j <= i => u \notin Dropped(w[j])
\* Whose field is dropped is dying, or held.
FieldsDropped(w, rf) ==
    \A i \in DOMAIN w : \A c \in Container, f \in FieldName :
        <<c, f>> \in Dropped(w[i]) =>
            \/ \E j \in DOMAIN w : i < j /\ Completes(w[j], c)
            \/ Held(w, rf, i, c)
\* A new container, before it is assigned.
Fresh(c, rf, ex, md, mr, ph) ==
    /\ ph[c] = "alive" /\ c \notin ex /\ md[c] = {} /\ mr[c] = {}
    /\ \A v \in Value : rf[v] # c
    /\ \A f \in FieldName : rf[<<c, f>>] = NoContainer
\* What is assigned was dropped before, and is held where it is in a field.
Assigned(w, rf, ex, md, mr, ph) ==
    /\ \A i, j \in DOMAIN w : Assigns(w[i]) /\ Assigns(w[j]) => i = j
    /\ \A i \in DOMAIN w : Assigns(w[i]) =>
         /\ rf[w[i].to] # NoContainer => \E j \in DOMAIN w : j < i /\ w[i].to \in Dropped(w[j])
         /\ \A c \in Container, f \in FieldName :
               \/ w[i].to = <<c, f>>
               \/ w[i].call = "Assign" /\ w[i].from = <<c, f>>
               => Held(w, rf, i, c)
         /\ w[i].call = "FromTable" =>
               /\ w[i].to \in StackSlot /\ w[i].container \in Container
               /\ Fresh(w[i].container, rf, ex, md, mr, ph)
Rest(w, rf, ex, md, mr, ph) ==
    /\ Ordered(w, ph) /\ Left(w, md, mr)
    /\ FieldsDropped(w, rf) /\ Assigned(w, rf, ex, md, mr, ph)
Pending(w, rf, ex, md, mr, ph) ==
    /\ Rest(w, rf, ex, md, mr, ph)
    /\ \A c \in Container : ph[c] = "dying" =>
          /\ Covers(w, c)
          /\ \A f \in FieldName : rf[<<c, f>>] # NoContainer => Empties(w, c, f)

IInv ==
    /\ TypeOK
    /\ Sound(refers, referrers, external, myDelegates, myDelegators, phase)
    /\ Nested(work, nesting)
    /\ Pending(work, refers, external, myDelegates, myDelegators, phase)
    /\ forCollection = {c \in Container : Collected(c)}
-----------------------------------------------------------------------------
\* The rest of the calls.
LEMMA TailFacts ==
    ASSUME NEW w \in Seq(Call), w # <<>>
    PROVE  /\ Tail(w) \in Seq(Call)
           /\ 1 \in DOMAIN w /\ Head(w) = w[1] /\ w[1] \in Call
           /\ \A i \in DOMAIN w : i \in Nat /\ i >= 1
           /\ \A i \in DOMAIN Tail(w) : i \in Nat /\ i >= 1 /\ i + 1 \in DOMAIN w /\ Tail(w)[i] = w[i + 1]
           /\ \A i \in DOMAIN w : i # 1 => i - 1 \in DOMAIN Tail(w) /\ Tail(w)[i - 1] = w[i]
  OBVIOUS

\* Calls in front of others.
LEMMA FrontFacts ==
    ASSUME NEW p \in Seq(Call), NEW t \in Seq(Call)
    PROVE  /\ p \o t \in Seq(Call) /\ Len(p \o t) = Len(p) + Len(t)
           /\ \A i \in DOMAIN p : i \in Nat /\ i >= 1 /\ i \in DOMAIN (p \o t) /\ (p \o t)[i] = p[i]
           /\ \A i \in DOMAIN t : i \in Nat /\ i >= 1 /\ i + Len(p) \in DOMAIN (p \o t) /\ (p \o t)[i + Len(p)] = t[i]
           /\ \A i \in DOMAIN (p \o t) :
                 \/ i \in DOMAIN p /\ (p \o t)[i] = p[i]
                 \/ \E j \in DOMAIN t : i = j + Len(p) /\ (p \o t)[i] = t[j]
  <1>1. /\ p \o t \in Seq(Call) /\ Len(p \o t) = Len(p) + Len(t) /\ Len(p) \in Nat /\ Len(t) \in Nat
        /\ DOMAIN (p \o t) = 1..(Len(p) + Len(t)) /\ DOMAIN p = 1..Len(p) /\ DOMAIN t = 1..Len(t)
    OBVIOUS
  <1>2. \A i \in 1..Len(p) : (p \o t)[i] = p[i]
    OBVIOUS
  <1>3. \A i \in 1..Len(t) : (p \o t)[i + Len(p)] = t[i]
    OBVIOUS
  <1>4. \A i \in 1..(Len(p) + Len(t)) : i \notin 1..Len(p) => i - Len(p) \in 1..Len(t) /\ i = (i - Len(p)) + Len(p)
    BY <1>1
  <1> DEFINE q == p \o t
             k == Len(p)
             l == Len(t)
  <1>5. ASSUME NEW i \in DOMAIN q, i \notin DOMAIN p
        PROVE  \E j \in DOMAIN t : i = j + k /\ q[i] = t[j]
    <2>1. i - k \in 1..l /\ i = (i - k) + k
      BY <1>1, <1>4, <1>5
    <2>2. q[(i - k) + k] = t[i - k]
      BY <1>3, <2>1
    <2> QED
      BY <1>1, <2>1, <2>2
  <1>6. \A i \in DOMAIN t : i \in Nat /\ i >= 1 /\ i + k \in DOMAIN q
    BY <1>1
  <1>7. \A i \in DOMAIN p : i \in Nat /\ i >= 1 /\ i \in DOMAIN q
    BY <1>1
  <1> QED
    BY <1>1, <1>2, <1>3, <1>5, <1>6, <1>7

\* The first call is over.
LEMMA TailNested ==
    ASSUME NEW w \in Seq(Call), w # <<>>, NEW n \in Nat, ~Exits(w[1]), Nested(w, n)
    PROVE  Nested(Tail(w), n)
  <1> DEFINE t == Tail(w)
  <1>1. /\ \A i \in DOMAIN w : i \in Nat /\ i >= 1
        /\ \A i \in DOMAIN t : i \in Nat /\ i >= 1 /\ i + 1 \in DOMAIN w /\ t[i] = w[i + 1]
        /\ \A i \in DOMAIN w : i # 1 => i - 1 \in DOMAIN t /\ t[i - 1] = w[i]
    BY TailFacts
  <1> HIDE DEF t
  <1>2. \A d \in 1..n : \E i \in DOMAIN t : Exits(t[i]) /\ t[i].depth = d
    <2> TAKE d \in 1..n
    <2>1. PICK i \in DOMAIN w : Exits(w[i]) /\ w[i].depth = d
      BY DEF Nested
    <2> QED
      BY <1>1, <2>1
  <1>3. ASSUME NEW i \in DOMAIN t, NEW j \in DOMAIN t, i < j, Exits(t[i]), Exits(t[j])
        PROVE  t[i].depth > t[j].depth
    <2>1. i + 1 < j + 1
      BY <1>1, <1>3
    <2> QED
      BY <1>1, <1>3, <2>1 DEF Nested
  <1>4. \A i \in DOMAIN t : Exits(t[i]) => t[i].depth \in 1..n
    BY <1>1 DEF Nested
  <1>5. Nested(t, n)
    BY <1>2, <1>3, <1>4 DEF Nested
  <1> QED
    BY <1>5 DEF t

\* What the first call drops is dropped: the rest is as it should be.
LEMMA TailKeeps ==
    ASSUME NEW w \in Seq(Call), w # <<>>,
           NEW rf, NEW ex, NEW md, NEW mr, NEW ph,
           \A v \in Dropped(w[1]) : rf[v] = NoContainer,
           Rest(w, rf, ex, md, mr, ph)
    PROVE  /\ Rest(Tail(w), rf, ex, md, mr, ph)
           /\ \A c \in Container : Covers(w, c) => c \in Kills(w[1]) \/ Covers(Tail(w), c)
           /\ \A c \in Container, f \in FieldName :
                 Empties(w, c, f) /\ rf[<<c, f>>] # NoContainer =>
                    c \in Kills(w[1]) \/ Empties(Tail(w), c, f)
  <1> DEFINE t == Tail(w)
  <1>1. /\ \A i \in DOMAIN w : i \in Nat /\ i >= 1
        /\ \A i \in DOMAIN t : i \in Nat /\ i >= 1 /\ i + 1 \in DOMAIN w /\ t[i] = w[i + 1]
        /\ \A i \in DOMAIN w : i # 1 => i - 1 \in DOMAIN t /\ t[i - 1] = w[i]
    BY TailFacts
  <1> HIDE DEF t
  <1>2. Ordered(t, ph)
    <2>1. ASSUME NEW i \in DOMAIN t, Kills(t[i]) # {}
          PROVE  \E j \in DOMAIN t : i < j /\ Exits(t[j])
      <3>1. PICK j \in DOMAIN w : i + 1 < j /\ Exits(w[j])
        BY <1>1, <2>1 DEF Rest, Ordered
      <3>2. j - 1 \in DOMAIN t /\ t[j - 1] = w[j] /\ i < j - 1
        BY <1>1, <3>1
      <3> QED
        BY <3>1, <3>2
    <2>2. \A i \in DOMAIN t : \A c \in Kills(t[i]) : ph[c] = "dying"
      BY <1>1 DEF Rest, Ordered
    <2>3. ASSUME NEW i \in DOMAIN t, NEW j \in DOMAIN t, Kills(t[i]) \cap Kills(t[j]) # {}
          PROVE  i = j
      <3>1. i + 1 = j + 1
        BY <1>1, <2>3 DEF Rest, Ordered
      <3> QED
        BY <1>1, <3>1
    <2> QED
      BY <2>1, <2>2, <2>3 DEF Ordered
  <1>3. Left(t, md, mr)
    BY <1>1 DEF Rest, Left
  <1>4. ASSUME NEW c \in Container, Covers(w, c), c \notin Kills(w[1])
        PROVE  Covers(t, c)
    <2>1. PICK i \in DOMAIN w : c \in Kills(w[i])
      BY <1>4 DEF Covers
    <2> QED
      BY <1>1, <1>4, <2>1 DEF Covers
  <1>5. ASSUME NEW c \in Container, NEW f \in FieldName, Empties(w, c, f),
               rf[<<c, f>>] # NoContainer, c \notin Kills(w[1])
        PROVE  Empties(t, c, f)
    <2>1. PICK i \in DOMAIN w :
             /\ c \in Kills(w[i])
             /\ Completes(w[i], c) => \E j \in DOMAIN w : j < i /\ <<c, f>> \in Dropped(w[j])
      BY <1>5 DEF Empties
    <2>2. i - 1 \in DOMAIN t /\ t[i - 1] = w[i]
      BY <1>1, <1>5, <2>1
    <2>3. ASSUME NEW j \in DOMAIN w, j < i, <<c, f>> \in Dropped(w[j])
          PROVE  \E m \in DOMAIN t : m < i - 1 /\ <<c, f>> \in Dropped(t[m])
      <3>1. j # 1
        BY <1>5, <2>3
      <3>2. j - 1 \in DOMAIN t /\ t[j - 1] = w[j] /\ j - 1 < i - 1
        BY <1>1, <2>3, <3>1
      <3> QED
        BY <2>3, <3>2
    <2> QED
      BY <2>1, <2>2, <2>3 DEF Empties
  <1>6. ASSUME NEW i \in DOMAIN t, NEW c, Held(w, rf, i + 1, c)
        PROVE  Held(t, rf, i, c)
    BY <1>1, <1>6 DEF Held
  <1>7. FieldsDropped(t, rf)
    <2>1. ASSUME NEW i \in DOMAIN t, NEW c \in Container, NEW f \in FieldName,
                 <<c, f>> \in Dropped(t[i])
          PROVE  (\E j \in DOMAIN t : i < j /\ Completes(t[j], c)) \/ Held(t, rf, i, c)
      <3>1. (\E j \in DOMAIN w : i + 1 < j /\ Completes(w[j], c)) \/ Held(w, rf, i + 1, c)
        BY <1>1, <2>1 DEF Rest, FieldsDropped
      <3>2. ASSUME NEW j \in DOMAIN w, i + 1 < j, Completes(w[j], c)
            PROVE  \E m \in DOMAIN t : i < m /\ Completes(t[m], c)
        <4>1. j - 1 \in DOMAIN t /\ t[j - 1] = w[j] /\ i < j - 1
          BY <1>1, <3>2
        <4> QED
          BY <3>2, <4>1
      <3> QED
        BY <1>6, <3>1, <3>2
    <2> QED
      BY <2>1 DEF FieldsDropped
  <1>8. Assigned(t, rf, ex, md, mr, ph)
    <2>1. ASSUME NEW i \in DOMAIN t, NEW j \in DOMAIN t, Assigns(t[i]), Assigns(t[j])
          PROVE  i = j
      <3>1. i + 1 = j + 1
        BY <1>1, <2>1 DEF Rest, Assigned
      <3> QED
        BY <1>1, <3>1
    <2>2. ASSUME NEW i \in DOMAIN t, Assigns(t[i])
          PROVE  /\ rf[t[i].to] # NoContainer => \E j \in DOMAIN t : j < i /\ t[i].to \in Dropped(t[j])
                 /\ \A c \in Container, f \in FieldName :
                       \/ t[i].to = <<c, f>>
                       \/ t[i].call = "Assign" /\ t[i].from = <<c, f>>
                       => Held(t, rf, i, c)
                 /\ t[i].call = "FromTable" =>
                       /\ t[i].to \in StackSlot /\ t[i].container \in Container
                       /\ Fresh(t[i].container, rf, ex, md, mr, ph)
      <3>1. i + 1 \in DOMAIN w /\ t[i] = w[i + 1]
        BY <1>1
      <3>2. /\ rf[w[i + 1].to] # NoContainer => \E j \in DOMAIN w : j < i + 1 /\ w[i + 1].to \in Dropped(w[j])
            /\ \A c \in Container, f \in FieldName :
                       \/ w[i + 1].to = <<c, f>>
                       \/ w[i + 1].call = "Assign" /\ w[i + 1].from = <<c, f>>
                       => Held(w, rf, i + 1, c)
            /\ w[i + 1].call = "FromTable" =>
                       /\ w[i + 1].to \in StackSlot /\ w[i + 1].container \in Container
                       /\ Fresh(w[i + 1].container, rf, ex, md, mr, ph)
        BY <2>2, <3>1 DEF Rest, Assigned
      <3>3. ASSUME rf[t[i].to] # NoContainer, NEW j \in DOMAIN w, j < i + 1, t[i].to \in Dropped(w[j])
            PROVE  \E m \in DOMAIN t : m < i /\ t[i].to \in Dropped(t[m])
        <4>1. j # 1
          BY <3>3
        <4>2. j - 1 \in DOMAIN t /\ t[j - 1] = w[j] /\ j - 1 < i
          BY <1>1, <3>3, <4>1
        <4> QED
          BY <3>3, <4>2
      <3> QED
        BY <1>6, <3>1, <3>2, <3>3
    <2> QED
      BY <2>1, <2>2 DEF Assigned
  <1>9. Rest(t, rf, ex, md, mr, ph)
    BY <1>2, <1>3, <1>7, <1>8 DEF Rest
  <1> QED
    BY <1>4, <1>5, <1>9 DEF t

\* Calls of the collector p are put in front of t.
Prefix(p, t, md, mr, ph) ==
    /\ \A i \in DOMAIN p :
          /\ ~Assigns(p[i]) /\ Dropped(p[i]) \cap Slot = {}
          /\ Kills(p[i]) # {} => \/ \E j \in DOMAIN p : i < j /\ Exits(p[j])
                                 \/ \E j \in DOMAIN t : Exits(t[j])
          /\ \A c \in Kills(p[i]) : ph[c] = "dying" /\ ~Covers(t, c)
          /\ \A c \in Container : Completes(p[i], c) => md[c] = {} /\ mr[c] = {}
          /\ \A c \in Container, f \in FieldName : <<c, f>> \in Dropped(p[i]) =>
                \E j \in DOMAIN p : i < j /\ Completes(p[j], c)
    /\ \A i, j \in DOMAIN p : Kills(p[i]) \cap Kills(p[j]) # {} => i = j

\* What is put in front keeps the rest as it should be, and what it covers.
LEMMA FrontKeeps ==
    ASSUME NEW p \in Seq(Call), NEW t \in Seq(Call),
           NEW rf, NEW ex, NEW md, NEW mr, NEW ph,
           Rest(t, rf, ex, md, mr, ph), Prefix(p, t, md, mr, ph)
    PROVE  /\ Rest(p \o t, rf, ex, md, mr, ph)
           /\ \A c \in Container : Covers(p, c) \/ Covers(t, c) => Covers(p \o t, c)
           /\ \A c \in Container, f \in FieldName :
                 Empties(p, c, f) \/ Empties(t, c, f) => Empties(p \o t, c, f)
  <1> DEFINE q == p \o t
             k == Len(p)
  <1>0. k \in Nat /\ DOMAIN p = 1..k
    OBVIOUS
  <1>1. /\ \A i \in DOMAIN p : i \in Nat /\ i >= 1 /\ i \in DOMAIN q /\ q[i] = p[i]
        /\ \A i \in DOMAIN t : i \in Nat /\ i >= 1 /\ i + k \in DOMAIN q /\ q[i + k] = t[i]
        /\ \A i \in DOMAIN q :
              \/ i \in DOMAIN p /\ q[i] = p[i]
              \/ \E j \in DOMAIN t : i = j + k /\ q[i] = t[j]
    BY FrontFacts
  <1> HIDE DEF q, k
  <1>2. Ordered(q, ph)
    <2>1. ASSUME NEW i \in DOMAIN q, Kills(q[i]) # {}
          PROVE  \E j \in DOMAIN q : i < j /\ Exits(q[j])
      <3>1. CASE i \in DOMAIN p /\ q[i] = p[i]
        <4>1. CASE \E j \in DOMAIN p : i < j /\ Exits(p[j])
          BY <1>1, <4>1
        <4>2. CASE \E j \in DOMAIN t : Exits(t[j])
          <5>1. PICK j \in DOMAIN t : Exits(t[j])
            BY <4>2
          <5>2. j + k \in DOMAIN q /\ q[j + k] = t[j] /\ i < j + k
            BY <1>0, <1>1, <3>1
          <5> QED
            BY <5>1, <5>2
        <4> QED
          BY <2>1, <3>1, <4>1, <4>2 DEF Prefix
      <3>2. ASSUME NEW m \in DOMAIN t, i = m + k, q[i] = t[m]
            PROVE  \E j \in DOMAIN q : i < j /\ Exits(q[j])
        <4>1. PICK j \in DOMAIN t : m < j /\ Exits(t[j])
          BY <2>1, <3>2 DEF Rest, Ordered
        <4>2. j + k \in DOMAIN q /\ q[j + k] = t[j] /\ i < j + k
          BY <1>0, <1>1, <3>2, <4>1
        <4> QED
          BY <4>1, <4>2
      <3> QED
        BY <1>1, <3>1, <3>2
    <2>2. \A i \in DOMAIN q : \A c \in Kills(q[i]) : ph[c] = "dying"
      BY <1>1 DEF Rest, Ordered, Prefix
    <2>3. ASSUME NEW i \in DOMAIN q, NEW j \in DOMAIN q, NEW c \in Kills(q[i]) \cap Kills(q[j])
          PROVE  i = j
      <3>1. CASE i \in DOMAIN p /\ q[i] = p[i] /\ j \in DOMAIN p /\ q[j] = p[j]
        BY <2>3, <3>1 DEF Prefix
      <3>2. ~(i \in DOMAIN p /\ q[i] = p[i] /\ \E m \in DOMAIN t : q[j] = t[m])
        BY <2>3 DEF Prefix, Covers
      <3>3. ~(j \in DOMAIN p /\ q[j] = p[j] /\ \E m \in DOMAIN t : q[i] = t[m])
        BY <2>3 DEF Prefix, Covers
      <3>4. ASSUME NEW m \in DOMAIN t, NEW n \in DOMAIN t, i = m + k, q[i] = t[m], j = n + k, q[j] = t[n]
            PROVE  i = j
        BY <2>3, <3>4 DEF Rest, Ordered
      <3> QED
        BY <1>1, <3>1, <3>2, <3>3, <3>4
    <2> QED
      BY <2>1, <2>2, <2>3 DEF Ordered
  <1>3. Left(q, md, mr)
    BY <1>1 DEF Rest, Left, Prefix
  <1>4. ASSUME NEW c, Covers(p, c) \/ Covers(t, c)
        PROVE  Covers(q, c)
    BY <1>1, <1>4 DEF Covers
  <1>5. ASSUME NEW c, NEW f, Empties(p, c, f)
        PROVE  Empties(q, c, f)
    BY <1>1, <1>5 DEF Empties
  <1>6. ASSUME NEW c, NEW f, Empties(t, c, f)
        PROVE  Empties(q, c, f)
    <2>1. PICK i \in DOMAIN t :
             /\ c \in Kills(t[i])
             /\ Completes(t[i], c) => \E j \in DOMAIN t : j < i /\ <<c, f>> \in Dropped(t[j])
      BY <1>6 DEF Empties
    <2>2. i + k \in DOMAIN q /\ q[i + k] = t[i]
      BY <1>1
    <2>3. ASSUME NEW j \in DOMAIN t, j < i, <<c, f>> \in Dropped(t[j])
          PROVE  \E m \in DOMAIN q : m < i + k /\ <<c, f>> \in Dropped(q[m])
      <3>1. j + k \in DOMAIN q /\ q[j + k] = t[j] /\ j + k < i + k
        BY <1>0, <1>1, <2>3
      <3> QED
        BY <2>3, <3>1
    <2> QED
      BY <2>1, <2>2, <2>3 DEF Empties
  <1>7. ASSUME NEW i \in DOMAIN t, NEW c, Held(t, rf, i, c)
        PROVE  Held(q, rf, i + k, c)
    <2>1. PICK u \in Slot : rf[u] = c /\ \A j \in DOMAIN t : j <= i => u \notin Dropped(t[j])
      BY <1>7 DEF Held
    <2>2. ASSUME NEW j \in DOMAIN q, j <= i + k
          PROVE  u \notin Dropped(q[j])
      <3>1. CASE j \in DOMAIN p /\ q[j] = p[j]
        BY <3>1 DEF Prefix
      <3>2. ASSUME NEW m \in DOMAIN t, j = m + k, q[j] = t[m]
            PROVE  u \notin Dropped(q[j])
        <4>1. m <= i
          BY <1>0, <1>1, <2>2, <3>2
        <4> QED
          BY <2>1, <3>2, <4>1
      <3> QED
        BY <1>1, <3>1, <3>2
    <2> QED
      BY <2>1, <2>2 DEF Held
  <1>8. FieldsDropped(q, rf)
    <2>1. ASSUME NEW i \in DOMAIN q, NEW c \in Container, NEW f \in FieldName,
                 <<c, f>> \in Dropped(q[i])
          PROVE  (\E j \in DOMAIN q : i < j /\ Completes(q[j], c)) \/ Held(q, rf, i, c)
      <3>1. CASE i \in DOMAIN p /\ q[i] = p[i]
        <4>1. PICK j \in DOMAIN p : i < j /\ Completes(p[j], c)
          BY <2>1, <3>1 DEF Prefix
        <4> QED
          BY <1>1, <4>1
      <3>2. ASSUME NEW m \in DOMAIN t, i = m + k, q[i] = t[m]
            PROVE  (\E j \in DOMAIN q : i < j /\ Completes(q[j], c)) \/ Held(q, rf, i, c)
        <4>1. CASE Held(t, rf, m, c)
          BY <1>7, <3>2, <4>1
        <4>2. ASSUME NEW j \in DOMAIN t, m < j, Completes(t[j], c)
              PROVE  \E n \in DOMAIN q : i < n /\ Completes(q[n], c)
          <5>1. j + k \in DOMAIN q /\ q[j + k] = t[j] /\ i < j + k
            BY <1>0, <1>1, <3>2, <4>2
          <5> QED
            BY <4>2, <5>1
        <4> QED
          BY <2>1, <3>2, <4>1, <4>2 DEF Rest, FieldsDropped
      <3> QED
        BY <1>1, <3>1, <3>2
    <2> QED
      BY <2>1 DEF FieldsDropped
  <1>9. Assigned(q, rf, ex, md, mr, ph)
    <2>1. \A i \in DOMAIN q : Assigns(q[i]) => \E m \in DOMAIN t : i = m + k /\ q[i] = t[m]
      BY <1>1 DEF Prefix
    <2>2. \A i, j \in DOMAIN q : Assigns(q[i]) /\ Assigns(q[j]) => i = j
      BY <2>1 DEF Rest, Assigned
    <2>3. ASSUME NEW i \in DOMAIN q, Assigns(q[i])
          PROVE  /\ rf[q[i].to] # NoContainer => \E j \in DOMAIN q : j < i /\ q[i].to \in Dropped(q[j])
                 /\ \A c \in Container, f \in FieldName :
                       \/ q[i].to = <<c, f>>
                       \/ q[i].call = "Assign" /\ q[i].from = <<c, f>>
                       => Held(q, rf, i, c)
                 /\ q[i].call = "FromTable" =>
                       /\ q[i].to \in StackSlot /\ q[i].container \in Container
                       /\ Fresh(q[i].container, rf, ex, md, mr, ph)
      <3>1. PICK m \in DOMAIN t : i = m + k /\ q[i] = t[m]
        BY <2>1, <2>3
      <3>2. /\ rf[t[m].to] # NoContainer => \E j \in DOMAIN t : j < m /\ t[m].to \in Dropped(t[j])
            /\ \A c \in Container, f \in FieldName :
                       \/ t[m].to = <<c, f>>
                       \/ t[m].call = "Assign" /\ t[m].from = <<c, f>>
                       => Held(t, rf, m, c)
            /\ t[m].call = "FromTable" =>
                       /\ t[m].to \in StackSlot /\ t[m].container \in Container
                       /\ Fresh(t[m].container, rf, ex, md, mr, ph)
        BY <2>3, <3>1 DEF Rest, Assigned
      <3>3. ASSUME NEW j \in DOMAIN t, j < m, t[m].to \in Dropped(t[j])
            PROVE  \E n \in DOMAIN q : n < i /\ q[i].to \in Dropped(q[n])
        <4>1. j + k \in DOMAIN q /\ q[j + k] = t[j] /\ j + k < i
          BY <1>0, <1>1, <3>1, <3>3
        <4> QED
          BY <3>1, <3>3, <4>1
      <3> QED
        BY <1>7, <3>1, <3>2, <3>3
    <2> QED
      BY <2>2, <2>3 DEF Assigned
  <1>10. Rest(q, rf, ex, md, mr, ph)
    BY <1>2, <1>3, <1>8, <1>9 DEF Rest
  <1> QED
    BY <1>4, <1>5, <1>6, <1>10 DEF q

\* Calls without an end of a collection change no nesting.
LEMMA FrontNested ==
    ASSUME NEW p \in Seq(Call), NEW t \in Seq(Call), NEW n \in Nat, Nested(t, n),
           \A i \in DOMAIN p : ~Exits(p[i])
    PROVE  Nested(p \o t, n)
  <1> DEFINE q == p \o t
             k == Len(p)
  <1>0. k \in Nat
    OBVIOUS
  <1>1. /\ \A i \in DOMAIN p : i \in Nat /\ i >= 1 /\ i \in DOMAIN q /\ q[i] = p[i]
        /\ \A i \in DOMAIN t : i \in Nat /\ i >= 1 /\ i + k \in DOMAIN q /\ q[i + k] = t[i]
        /\ \A i \in DOMAIN q :
              \/ i \in DOMAIN p /\ q[i] = p[i]
              \/ \E j \in DOMAIN t : i = j + k /\ q[i] = t[j]
    BY FrontFacts
  <1> HIDE DEF q, k
  <1>2. \A i \in DOMAIN q : Exits(q[i]) => \E j \in DOMAIN t : i = j + k /\ q[i] = t[j]
    BY <1>1
  <1>3. \A d \in 1..n : \E i \in DOMAIN q : Exits(q[i]) /\ q[i].depth = d
    BY <1>1 DEF Nested
  <1>4. ASSUME NEW i \in DOMAIN q, NEW j \in DOMAIN q, i < j, Exits(q[i]), Exits(q[j])
        PROVE  q[i].depth > q[j].depth
    <2>1. PICK a \in DOMAIN t : i = a + k /\ q[i] = t[a]
      BY <1>2, <1>4
    <2>2. PICK b \in DOMAIN t : j = b + k /\ q[j] = t[b]
      BY <1>2, <1>4
    <2>3. a < b
      BY <1>0, <1>1, <1>4, <2>1, <2>2
    <2> QED
      BY <1>4, <2>1, <2>2, <2>3 DEF Nested
  <1>5. \A i \in DOMAIN q : Exits(q[i]) => q[i].depth \in 1..n
    BY <1>2 DEF Nested
  <1>6. Nested(q, n)
    BY <1>3, <1>4, <1>5 DEF Nested
  <1> QED
    BY <1>6 DEF q

\* Calls with the end of one more collection.
LEMMA FrontExit ==
    ASSUME NEW p \in Seq(Call), NEW t \in Seq(Call), NEW n \in Nat, Nested(t, n),
           NEW e \in DOMAIN p, Exits(p[e]), p[e].depth = n + 1,
           \A i \in DOMAIN p : Exits(p[i]) => i = e
    PROVE  Nested(p \o t, n + 1)
  <1> DEFINE q == p \o t
             k == Len(p)
  <1>0. k \in Nat /\ DOMAIN p = 1..k
    OBVIOUS
  <1>1. /\ \A i \in DOMAIN p : i \in Nat /\ i >= 1 /\ i \in DOMAIN q /\ q[i] = p[i]
        /\ \A i \in DOMAIN t : i \in Nat /\ i >= 1 /\ i + k \in DOMAIN q /\ q[i + k] = t[i]
        /\ \A i \in DOMAIN q :
              \/ i \in DOMAIN p /\ q[i] = p[i]
              \/ \E j \in DOMAIN t : i = j + k /\ q[i] = t[j]
    BY FrontFacts
  <1> HIDE DEF q, k
  <1>2. \A i \in DOMAIN q : Exits(q[i]) => \/ i = e
                                           \/ \E j \in DOMAIN t : i = j + k /\ q[i] = t[j]
    BY <1>1
  <1>3. \A d \in 1..n + 1 : \E i \in DOMAIN q : Exits(q[i]) /\ q[i].depth = d
    <2> TAKE d \in 1..n + 1
    <2>1. CASE d = n + 1
      BY <1>1, <2>1
    <2>2. CASE d \in 1..n
      BY <1>1, <2>2 DEF Nested
    <2> QED
      BY <2>1, <2>2
  <1>4. ASSUME NEW i \in DOMAIN q, NEW j \in DOMAIN q, i < j, Exits(q[i]), Exits(q[j])
        PROVE  q[i].depth > q[j].depth
    <2>1. e \in 1..k
      BY <1>0
    <2>2. PICK b \in DOMAIN t : j = b + k /\ q[j] = t[b]
      <3>1. CASE j = e
        <4>1. i # e /\ i \in 1..k
          BY <1>0, <1>1, <1>4, <2>1, <3>1
        <4> QED
          BY <1>0, <1>1, <1>2, <1>4, <4>1
      <3> QED
        BY <1>2, <1>4, <3>1
    <2>3. CASE i = e
      <3>1. q[j].depth \in 1..n /\ q[i].depth = n + 1
        BY <1>1, <1>4, <2>2, <2>3 DEF Nested
      <3> QED
        BY <3>1
    <2>4. ASSUME NEW a \in DOMAIN t, i = a + k, q[i] = t[a]
          PROVE  q[i].depth > q[j].depth
      <3>1. a < b
        BY <1>0, <1>1, <1>4, <2>2, <2>4
      <3> QED
        BY <1>4, <2>2, <2>4, <3>1 DEF Nested
    <2> QED
      BY <1>2, <1>4, <2>3, <2>4
  <1>5. \A i \in DOMAIN q : Exits(q[i]) => q[i].depth \in 1..n + 1
    <2>1. \A d \in 1..n : d \in 1..n + 1
      OBVIOUS
    <2>2. n + 1 \in 1..n + 1
      OBVIOUS
    <2> QED
      BY <1>1, <1>2, <2>1, <2>2 DEF Nested
  <1>6. Nested(q, n + 1)
    BY <1>3, <1>4, <1>5 DEF Nested
  <1> QED
    BY <1>6 DEF q

-----------------------------------------------------------------------------
(* A value is dropped.                                                     *)
Phases == {"free", "alive", "dying", "destroyed"}

\* A reference less, and a referrer less of what is alive.
LEMMA DropSound ==
    ASSUME NEW rf \in [Value -> Container \cup {NoContainer}],
           NEW rr \in [Container -> SUBSET Value], NEW ex, NEW md, NEW mr,
           NEW ph \in [Container -> Phases],
           Sound(rf, rr, ex, md, mr, ph),
           NEW v \in Value, rf[v] # NoContainer,
           NEW rr2, rr2 = IF ph[rf[v]] = "alive" THEN [rr EXCEPT ![rf[v]] = @ \ {v}] ELSE rr
    PROVE  Sound([rf EXCEPT ![v] = NoContainer], rr2, ex, md, mr, ph)
  <1> DEFINE rf2 == [rf EXCEPT ![v] = NoContainer]
  <1>1. /\ rf[v] \in Container /\ rf2[v] = NoContainer
        /\ \A x \in Value : x # v => rf2[x] = rf[x]
        /\ \A c \in Container, f \in FieldName : <<c, f>> \in Value
        /\ \A u \in Slot : u \in Value
    BY DEF Value, Field, Slot
  <1> HIDE DEF rf2
  <1>2. NoContainer \notin Container
    BY ResidencyAssumption
  <1>3. Counted(rf2, rr2, ph)
    <2>0. \A c \in Container : ph[c] \in {"free", "destroyed"} => rr2[c] = {}
      BY DEF Sound, Counted
    <2> SUFFICES ASSUME NEW c \in Container, ph[c] = "alive"
                 PROVE  rr2[c] = {x \in Value : rf2[x] = c}
      BY <2>0 DEF Counted
    <2>1. rr[c] = {x \in Value : rf[x] = c}
      BY DEF Sound, Counted
    <2>2. CASE c = rf[v]
      <3>1. rr2[c] = rr[c] \ {v}
        BY <2>2
      <3> QED
        BY <1>1, <1>2, <2>1, <2>2, <3>1
    <2>3. CASE c # rf[v]
      <3>1. rr2[c] = rr[c]
        BY <1>1, <2>3
      <3> QED
        BY <1>1, <1>2, <2>1, <2>3, <3>1
    <2> QED
      BY <2>2, <2>3
  <1>4. \A x \in Value : rf2[x] # NoContainer => rf2[x] = rf[x]
    BY <1>1
  <1>5. Rooted(rf2, ex, ph)
    BY <1>1, <1>4 DEF Sound, Rooted
  <1>6. Kept(rf2, md, ph)
    BY <1>1, <1>4 DEF Sound, Kept
  <1>7. Gone(rf2, md, mr, ph)
    BY <1>1, <1>2, <1>4 DEF Sound, Gone
  <1> QED
    BY <1>3, <1>5, <1>6, <1>7 DEF Sound, rf2

\* The first call drops v: it may still be made.
LEMMA DropRest ==
    ASSUME NEW w \in Seq(Call), w # <<>>,
           NEW rf \in [Value -> Container \cup {NoContainer}], NEW ex, NEW md, NEW mr, NEW ph,
           Rest(w, rf, ex, md, mr, ph), NEW v \in Dropped(w[1]), v \in Value
    PROVE  Rest(w, [rf EXCEPT ![v] = NoContainer], ex, md, mr, ph)
  <1> DEFINE rf2 == [rf EXCEPT ![v] = NoContainer]
  <1>1. /\ rf2[v] = NoContainer
        /\ \A x \in Value : x # v => rf2[x] = rf[x]
        /\ \A c \in Container, f \in FieldName : <<c, f>> \in Value
        /\ \A u \in Slot : u \in Value
        /\ 1 \in DOMAIN w /\ \A i \in DOMAIN w : 1 <= i /\ w[i] \in Call
    BY DEF Value, Field, Slot
  <1> HIDE DEF rf2
  <1>2. \A i \in DOMAIN w : \A c : Held(w, rf, i, c) => Held(w, rf2, i, c)
    BY <1>1 DEF Held
  <1>3. NoContainer \notin Container
    BY ResidencyAssumption
  <1>4. FieldsDropped(w, rf2)
    BY <1>2 DEF Rest, FieldsDropped
  <1>5. \A c \in Container : Fresh(c, rf, ex, md, mr, ph) => Fresh(c, rf2, ex, md, mr, ph)
    BY <1>1, <1>3 DEF Fresh
  <1>6. Assigned(w, rf2, ex, md, mr, ph)
    <2>1. \A i \in DOMAIN w : Assigns(w[i]) => w[i].to \in Value
      BY <1>1 DEF Assigns, Call
    <2>2. \A i \in DOMAIN w : Assigns(w[i]) =>
              (rf2[w[i].to] # NoContainer => rf[w[i].to] # NoContainer)
      BY <1>1, <2>1
    <2> QED
      BY <1>2, <1>5, <2>2 DEF Rest, Assigned
  <1> QED
    BY <1>4, <1>6 DEF Rest, rf2

\* The first call drops less, of what refers to nothing any more.
LEMMA ShrinkKeeps ==
    ASSUME NEW w \in Seq(Call), NEW q \in Seq(Call), NEW n \in Nat,
           NEW rf, NEW ex, NEW md, NEW mr, NEW ph,
           DOMAIN q = DOMAIN w, 1 \in DOMAIN w, \A i \in DOMAIN w : i # 1 => q[i] = w[i],
           w[1].call = "CollectGarbage", q[1].call = "CollectGarbage",
           q[1].values \subseteq w[1].values,
           \A x \in w[1].values \ q[1].values : rf[x] = NoContainer,
           Nested(w, n), Pending(w, rf, ex, md, mr, ph)
    PROVE  Nested(q, n) /\ Pending(q, rf, ex, md, mr, ph)
  <1>1. \A i \in DOMAIN w : /\ Kills(q[i]) = Kills(w[i])
                            /\ Exits(q[i]) <=> Exits(w[i])
                            /\ Assigns(q[i]) <=> Assigns(w[i])
                            /\ \A c : Completes(q[i], c) <=> Completes(w[i], c)
                            /\ Exits(w[i]) \/ Assigns(w[i]) => q[i] = w[i]
    BY DEF Kills, Exits, Assigns, Completes
  <1>2. \A i \in DOMAIN w : \A x :
           /\ x \in Dropped(q[i]) => x \in Dropped(w[i])
           /\ x \in Dropped(w[i]) /\ rf[x] # NoContainer => x \in Dropped(q[i])
    BY DEF Dropped
  <1>3. Nested(q, n)
    BY <1>1 DEF Nested
  <1>4. Ordered(q, ph)
    BY <1>1 DEF Pending, Rest, Ordered
  <1>5. Left(q, md, mr)
    BY <1>1 DEF Pending, Rest, Left
  <1>6. \A i \in DOMAIN w : \A c : Held(w, rf, i, c) => Held(q, rf, i, c)
    BY <1>2 DEF Held
  <1>7. FieldsDropped(q, rf)
    BY <1>1, <1>2, <1>6 DEF Pending, Rest, FieldsDropped
  <1>8. Assigned(q, rf, ex, md, mr, ph)
    <2>1. \A i, j \in DOMAIN q : Assigns(q[i]) /\ Assigns(q[j]) => i = j
      BY <1>1 DEF Pending, Rest, Assigned
    <2>2. ASSUME NEW i \in DOMAIN q, Assigns(q[i])
          PROVE  /\ rf[q[i].to] # NoContainer => \E j \in DOMAIN q : j < i /\ q[i].to \in Dropped(q[j])
                 /\ \A c \in Container, f \in FieldName :
                       \/ q[i].to = <<c, f>>
                       \/ q[i].call = "Assign" /\ q[i].from = <<c, f>>
                       => Held(q, rf, i, c)
                 /\ q[i].call = "FromTable" =>
                       /\ q[i].to \in StackSlot /\ q[i].container \in Container
                       /\ Fresh(q[i].container, rf, ex, md, mr, ph)
      <3>1. i \in DOMAIN w /\ q[i] = w[i] /\ Assigns(w[i])
        BY <1>1, <2>2
      <3>2. /\ rf[w[i].to] # NoContainer => \E j \in DOMAIN w : j < i /\ w[i].to \in Dropped(w[j])
            /\ \A c \in Container, f \in FieldName :
                       \/ w[i].to = <<c, f>>
                       \/ w[i].call = "Assign" /\ w[i].from = <<c, f>>
                       => Held(w, rf, i, c)
            /\ w[i].call = "FromTable" =>
                       /\ w[i].to \in StackSlot /\ w[i].container \in Container
                       /\ Fresh(w[i].container, rf, ex, md, mr, ph)
        BY <3>1 DEF Pending, Rest, Assigned
      <3> QED
        BY <1>2, <1>6, <3>1, <3>2
    <2> QED
      BY <2>1, <2>2 DEF Assigned
  <1>9. \A c : Covers(w, c) => Covers(q, c)
    BY <1>1 DEF Covers
  <1>10. \A c, f : Empties(w, c, f) /\ rf[<<c, f>>] # NoContainer => Empties(q, c, f)
    BY <1>1, <1>2 DEF Empties
  <1> QED
    BY <1>3, <1>4, <1>5, <1>7, <1>8, <1>9, <1>10 DEF Pending, Rest

\* A call in the place of the first one.
LEMMA ConsFacts ==
    ASSUME NEW d \in Call, NEW w \in Seq(Call), w # <<>>
    PROVE  LET q == <<d>> \o Tail(w)
           IN  q \in Seq(Call) /\ DOMAIN q = DOMAIN w /\ q[1] = d
               /\ \A i \in DOMAIN w : i # 1 => q[i] = w[i]
  <1> DEFINE t == Tail(w)
             p == <<d>>
             q == p \o t
  <1>1. t \in Seq(Call) /\ Len(w) = Len(t) + 1 /\ DOMAIN w = 1..Len(w)
        /\ \A i \in DOMAIN w : i # 1 => i - 1 \in DOMAIN t /\ t[i - 1] = w[i]
    BY TailFacts
  <1>2. p \in Seq(Call) /\ Len(p) = 1 /\ 1 \in DOMAIN p /\ p[1] = d
    OBVIOUS
  <1> HIDE DEF p, t
  <1>3. /\ q \in Seq(Call) /\ Len(q) = Len(p) + Len(t)
        /\ \A i \in DOMAIN p : q[i] = p[i]
        /\ \A i \in DOMAIN t : q[i + Len(p)] = t[i]
    BY <1>1, <1>2, FrontFacts, ZenonT(40)
  <1> HIDE DEF q
  <1>5. DOMAIN q = DOMAIN w
    BY <1>1, <1>2, <1>3
  <1>6. \A i \in DOMAIN w : i # 1 => q[i] = w[i]
    <2> TAKE i \in DOMAIN w
    <2> HAVE i # 1
    <2>1. (i - 1) + Len(p) = i
      BY <1>1, <1>2
    <2> QED
      BY <1>1, <1>3, <2>1
  <1>7. q[1] = d
    BY <1>2, <1>3
  <1> QED
    BY <1>3, <1>5, <1>6, <1>7 DEF p, q, t

\* A value of the first call is dropped, and the first call is over when it was the last.
LEMMA DropPending ==
    ASSUME NEW w \in Seq(Call), w # <<>>, NEW n \in Nat,
           NEW rf \in [Value -> Container \cup {NoContainer}], NEW ex, NEW md, NEW mr, NEW ph,
           Nested(w, n), Pending(w, rf, ex, md, mr, ph),
           w[1].call = "CollectGarbage", NEW v \in w[1].values, v \in Value
    PROVE  LET rf2 == [rf EXCEPT ![v] = NoContainer]
               q   == DropAll(w[1].values \ {v}) \o Tail(w)
           IN  /\ q \in Seq(Call) /\ Nested(q, n) /\ Pending(q, rf2, ex, md, mr, ph)
               /\ \A i \in DOMAIN q : q[i].call = "FromTable" => \E j \in DOMAIN w : w[j] = q[i]
  <1> DEFINE rf2 == [rf EXCEPT ![v] = NoContainer]
             V == w[1].values \ {v}
             q == DropAll(V) \o Tail(w)
  <1>1. rf2[v] = NoContainer /\ \A x \in Value : x # v => rf2[x] = rf[x]
    OBVIOUS
  <1>2. w[1] \in Call /\ 1 \in DOMAIN w /\ Head(w) = w[1] /\ Tail(w) \in Seq(Call)
    BY TailFacts
  <1>3. w[1].values \subseteq Value /\ Kills(w[1]) = {} /\ ~Exits(w[1]) /\ Dropped(w[1]) = w[1].values
    BY <1>2 DEF Call, Kills, Exits, Dropped
  <1>4. Rest(w, rf2, ex, md, mr, ph)
    BY <1>3, DropRest DEF Pending
  <1>5. \A c \in Container, f \in FieldName : <<c, f>> \in Value
    BY DEF Value, Field
  <1> HIDE DEF rf2
  <1>6. Pending(w, rf2, ex, md, mr, ph)
    BY <1>1, <1>4, <1>5 DEF Pending
  <1>7. CASE V = {}
    <2>1. q = Tail(w)
      BY <1>2, <1>7 DEF DropAll
    <2>2. \A x \in Dropped(w[1]) : rf2[x] = NoContainer
      BY <1>1, <1>3, <1>7
    <2>3. /\ Rest(Tail(w), rf2, ex, md, mr, ph)
          /\ \A c \in Container : Covers(w, c) => c \in Kills(w[1]) \/ Covers(Tail(w), c)
          /\ \A c \in Container, f \in FieldName :
                Empties(w, c, f) /\ rf2[<<c, f>>] # NoContainer =>
                   c \in Kills(w[1]) \/ Empties(Tail(w), c, f)
      BY <1>4, <2>2, TailKeeps
    <2>4. Pending(Tail(w), rf2, ex, md, mr, ph)
      BY <1>3, <1>6, <2>3 DEF Pending
    <2>5. Nested(Tail(w), n)
      BY <1>3, TailNested
    <2>6. \A i \in DOMAIN Tail(w) : \E j \in DOMAIN w : w[j] = Tail(w)[i]
      BY TailFacts
    <2> QED
      BY <1>2, <2>1, <2>4, <2>5, <2>6 DEF rf2
  <1>8. CASE V # {}
    <2> DEFINE d == [call |-> "CollectGarbage", values |-> V]
    <2>1. d \in Call /\ DropAll(V) = <<d>>
      BY <1>3, <1>8 DEF DropAll, Call
    <2>2. q \in Seq(Call) /\ DOMAIN q = DOMAIN w /\ q[1] = d /\ \A i \in DOMAIN w : i # 1 => q[i] = w[i]
      <3> HIDE DEF d
      <3>1. q = <<d>> \o Tail(w)
        BY <2>1
      <3> HIDE DEF q, V
      <3> QED
        BY <2>1, <3>1, ConsFacts
    <2>4. \A x \in w[1].values \ d.values : rf2[x] = NoContainer
      BY <1>1
    <2> HIDE DEF d
    <2>5. d.call = "CollectGarbage" /\ d.values \subseteq w[1].values
      BY DEF d
    <2>6. Nested(q, n) /\ Pending(q, rf2, ex, md, mr, ph)
      <3> HIDE DEF q, V
      <3> QED
        BY <1>2, <1>6, <2>2, <2>4, <2>5, ShrinkKeeps
    <2>7. \A i \in DOMAIN q : q[i].call = "FromTable" => \E j \in DOMAIN w : w[j] = q[i]
      <3> HIDE DEF q, V
      <3> QED
        BY <2>2, <2>5
    <2> QED
      BY <2>2, <2>6, <2>7 DEF rf2
  <1> QED
    BY <1>7, <1>8
-----------------------------------------------------------------------------
(* What a dropped container takes with it.                                 *)

\* A call behind others.
LEMMA SnocFacts ==
    ASSUME NEW q \in Seq(Call), NEW d \in Call
    PROVE  LET r == q \o <<d>>
           IN  /\ r \in Seq(Call) /\ Len(r) = Len(q) + 1 /\ DOMAIN r = 1..(Len(q) + 1)
               /\ r[Len(q) + 1] = d
               /\ \A i \in DOMAIN q : r[i] = q[i]
  <1> DEFINE p == <<d>>
  <1>1. p \in Seq(Call) /\ Len(p) = 1 /\ 1 \in DOMAIN p /\ p[1] = d
    OBVIOUS
  <1>2. Len(q) \in Nat
    OBVIOUS
  <1> HIDE DEF p
  <1>3. /\ q \o p \in Seq(Call) /\ Len(q \o p) = Len(q) + 1
        /\ \A i \in DOMAIN q : (q \o p)[i] = q[i]
        /\ (q \o p)[1 + Len(q)] = d
    <2>1. /\ q \o p \in Seq(Call) /\ Len(q \o p) = Len(q) + Len(p)
          /\ \A i \in DOMAIN q : (q \o p)[i] = q[i]
          /\ \A i \in DOMAIN p : (q \o p)[i + Len(q)] = p[i]
      BY <1>1, FrontFacts
    <2> QED
      BY <1>1, <2>1
  <1>4. 1 + Len(q) = Len(q) + 1
    BY <1>2
  <1>5. DOMAIN (q \o p) = 1..(Len(q) + 1)
    BY <1>3
  <1> QED
    BY <1>3, <1>4, <1>5 DEF p

\* The calls TestReferencable puts in front.
LEMMA DestroyFacts ==
    ASSUME NEW c \in Container, NEW G \in SUBSET Container, c \in G, NEW n \in Nat
    PROVE  LET p == DestroyAll({c}) \o DestroyAll(G \ {c}) \o Exit(n + 1)
           IN  /\ p \in Seq(Call)
               /\ \E e \in DOMAIN p :
                     /\ Exits(p[e]) /\ p[e].depth = n + 1
                     /\ \A i \in DOMAIN p : i # e => /\ i < e
                                                     /\ p[i].call = "ExplicitDestructor"
                                                     /\ p[i].containers \subseteq G
               /\ \A x \in G : \E i \in DOMAIN p : p[i].call = "ExplicitDestructor" /\ x \in p[i].containers
               /\ \A i, j \in DOMAIN p : Kills(p[i]) \cap Kills(p[j]) # {} => i = j
  <1> DEFINE d1 == [call |-> "ExplicitDestructor", containers |-> {c}]
             d2 == [call |-> "ExplicitDestructor", containers |-> G \ {c}]
             e  == [call |-> "Exiting", depth |-> n + 1]
             p  == DestroyAll({c}) \o DestroyAll(G \ {c}) \o Exit(n + 1)
  <1>1. /\ d1 \in Call /\ d2 \in Call /\ e \in Call
        /\ Exits(e) /\ e.depth = n + 1 /\ ~Exits(d1) /\ ~Exits(d2)
        /\ d1.call = "ExplicitDestructor" /\ d1.containers = {c}
        /\ d2.call = "ExplicitDestructor" /\ d2.containers = G \ {c}
        /\ Kills(d1) = {c} /\ Kills(d2) = G \ {c} /\ Kills(e) = {}
    BY DEF Call, Exits, Kills
  <1>2. DestroyAll({c}) = <<d1>> /\ Exit(n + 1) = <<e>>
    BY DEF DestroyAll, Exit
  <1>3. DestroyAll(G \ {c}) = IF G \ {c} = {} THEN <<>> ELSE <<d2>>
    BY DEF DestroyAll
  <1> HIDE DEF d1, d2, e
  <1>4. <<d1>> \in Seq(Call) /\ Len(<<d1>>) = 1 /\ DOMAIN <<d1>> = {1} /\ <<d1>>[1] = d1
        /\ <<d1>> \o <<>> = <<d1>>
    BY <1>1
  <1>5. CASE G \ {c} = {}
    <2>1. p = <<d1>> \o <<e>>
      BY <1>2, <1>3, <1>4, <1>5
    <2> HIDE DEF p
    <2>2. /\ p \in Seq(Call) /\ DOMAIN p = 1..2 /\ p[1] = d1 /\ p[2] = e
      BY <1>1, <1>4, <2>1, SnocFacts
    <2>3. \A i \in DOMAIN p : i \in {1, 2}
      BY <2>2
    <2>4. 1 \in DOMAIN p /\ 2 \in DOMAIN p /\ 1 < 2
      BY <2>2
    <2> QED
      BY <1>1, <1>5, <2>2, <2>3, <2>4 DEF p
  <1>6. CASE G \ {c} # {}
    <2> DEFINE r == <<d1>> \o <<d2>>
    <2>1. p = r \o <<e>>
      BY <1>2, <1>3, <1>6
    <2> HIDE DEF p
    <2>2. r \in Seq(Call) /\ Len(r) = 2 /\ DOMAIN r = 1..2 /\ r[1] = d1 /\ r[2] = d2
      BY <1>1, <1>4, SnocFacts
    <2> HIDE DEF r
    <2>3. /\ p \in Seq(Call) /\ DOMAIN p = 1..3
          /\ p[3] = e /\ \A i \in DOMAIN r : p[i] = r[i]
      BY <1>1, <2>1, <2>2, SnocFacts
    <2>4. /\ \A i \in DOMAIN p : i \in {1, 2, 3}
          /\ \A i \in DOMAIN p : i # 3 => (i = 1 \/ i = 2) /\ i < 3
          /\ 1 \in DOMAIN p /\ 2 \in DOMAIN p /\ 3 \in DOMAIN p
          /\ p[1] = d1 /\ p[2] = d2
      BY <2>2, <2>3
    <2>5. \A i, j \in DOMAIN p : Kills(p[i]) \cap Kills(p[j]) # {} => i = j
      BY <1>1, <2>3, <2>4
    <2>6. \A x \in G : \E i \in DOMAIN p : p[i].call = "ExplicitDestructor" /\ x \in p[i].containers
      BY <1>1, <2>4
    <2>7. \A i \in DOMAIN p : i # 3 => /\ i < 3 /\ p[i].call = "ExplicitDestructor"
                                       /\ p[i].containers \subseteq G
      BY <1>1, <2>4
    <2>8. Exits(p[3]) /\ p[3].depth = n + 1
      BY <1>1, <2>3
    <2>9. \E x \in DOMAIN p :
             /\ Exits(p[x]) /\ p[x].depth = n + 1
             /\ \A i \in DOMAIN p : i # x => /\ i < x
                                             /\ p[i].call = "ExplicitDestructor"
                                             /\ p[i].containers \subseteq G
      BY <2>4, <2>7, <2>8
    <2> QED
      BY <2>3, <2>5, <2>6, <2>9 DEF p
  <1> QED
    BY <1>5, <1>6

\* The search goes upwards from c and stops at nothing that is alive.
LEMMA GarbageFacts ==
    ASSUME NEW rf \in [Value -> Container \cup {NoContainer}],
           NEW rr \in [Container -> SUBSET Value], NEW ex,
           myDelegates \in [Container -> SUBSET Container],
           myDelegators \in [Container -> SUBSET Container],
           Sound(rf, rr, ex, myDelegates, myDelegators, phase),
           NEW c \in Container, Alive(c), ~IsReferencable(rr, ex, c)
    PROVE  LET G == Garbage(rr, c)
           IN  /\ c \in G /\ G \subseteq Container /\ \A x \in G : phase[x] = "alive"
               /\ \A x \in G : x \notin ex /\ \A u \in Slot : rf[u] # x
               /\ \A x \in G : \A y \in Container :
                     /\ phase[y] = "alive"
                     /\ \/ \E f \in FieldName : rf[<<y, f>>] = x
                        \/ x \in myDelegates[y]
                     => y \in G
               /\ \A x \in Container :
                     x # c /\ Fresh(x, rf, ex, myDelegates, myDelegators, phase) => x \notin G
  <1> DEFINE G == Garbage(rr, c)
  <1>1. c \in G /\ G \subseteq Container /\ \A x \in G : phase[x] = "alive"
    BY DEF Garbage, Above, Alive
  <1>2. /\ \A x \in Container, f \in FieldName : <<x, f>> \in Value
        /\ \A u \in Slot : u \in Value
    BY DEF Value, Field, Slot
  <1>3. \A x \in G : rr[x] = {v \in Value : rf[v] = x}
    BY <1>1 DEF Sound, Counted
  <1>4. \A x \in G : /\ x \notin ex
                     /\ \A u \in Slot : u \notin rr[x]
    BY <1>1 DEF IsReferencable, IsDirectlyReferencable, Garbage, Alive, Slot
  <1>5. ASSUME NEW x \in G, NEW y \in Container, phase[y] = "alive", y \in Referring(rr, x)
        PROVE  y \in G
    <2>1. \A S \in SUBSET Container : c \in S /\ Closed(rr, S) => y \in S
      BY <1>1, <1>5 DEF Garbage, Above, Closed, Alive
    <2> QED
      BY <1>5, <2>1 DEF Garbage, Above, Alive
  <1>6. ASSUME NEW x \in G, NEW y \in Container, phase[y] = "alive",
               \/ \E f \in FieldName : rf[<<y, f>>] = x
               \/ x \in myDelegates[y]
        PROVE  y \in G
    <2>1. CASE \E f \in FieldName : rf[<<y, f>>] = x
      <3>1. y \in Holders(rr, x)
        BY <1>2, <1>3, <2>1 DEF Holders
      <3> QED
        BY <1>5, <1>6, <3>1 DEF Referring
    <2>2. CASE x \in myDelegates[y]
      <3>1. y \in myDelegators[x]
        BY <1>1, <2>2 DEF Sound, Mutual
      <3> QED
        BY <1>5, <1>6, <3>1 DEF Referring
    <2> QED
      BY <1>6, <2>1, <2>2
  <1>7. ASSUME NEW x \in Container, x # c, Fresh(x, rf, ex, myDelegates, myDelegators, phase)
        PROVE  x \notin G
    <2> DEFINE S == Container \ {x}
    <2>1. ASSUME NEW y \in S, Alive(y)
          PROVE  x \notin Referring(rr, y)
      <3>1. rr[y] = {v \in Value : rf[v] = y}
        BY <2>1 DEF Sound, Counted, Alive
      <3>2. x \notin Holders(rr, y)
        BY <1>7, <2>1, <3>1, ResidencyAssumption DEF Holders, Fresh
      <3>3. x \notin myDelegators[y]
        BY <1>7 DEF Sound, Mutual, Fresh
      <3> QED
        BY <3>2, <3>3 DEF Referring
    <2>2. \A y \in S : Referring(rr, y) \subseteq Container
      BY DEF Referring, Holders
    <2>3. c \in S /\ S \in SUBSET Container /\ Closed(rr, S)
      BY <1>7, <2>1, <2>2 DEF Closed
    <2> QED
      BY <2>3 DEF Garbage, Above
  <1>8. \A x \in G : \A u \in Slot : rf[u] # x
    BY <1>2, <1>3, <1>4
  <1> HIDE DEF G
  <1> QED
    BY <1>1, <1>4, <1>6, <1>7, <1>8 DEF G

\* The phases the pending calls rely on.
LEMMA PhaseKeeps ==
    ASSUME NEW t, NEW rf, NEW ex, NEW md, NEW mr, NEW ph, NEW ph2,
           Rest(t, rf, ex, md, mr, ph),
           \A i \in DOMAIN t : \A x \in Kills(t[i]) : ph2[x] = "dying",
           \A i \in DOMAIN t : t[i].call = "FromTable" => ph2[t[i].container] = "alive"
    PROVE  Rest(t, rf, ex, md, mr, ph2)
  <1>1. Ordered(t, ph2)
    BY DEF Rest, Ordered
  <1>2. Left(t, md, mr) /\ FieldsDropped(t, rf)
    BY DEF Rest
  <1>3. \A c \in Container : ph2[c] = "alive" /\ Fresh(c, rf, ex, md, mr, ph) => Fresh(c, rf, ex, md, mr, ph2)
    BY DEF Fresh
  <1>4. Assigned(t, rf, ex, md, mr, ph2)
    BY <1>3 DEF Rest, Assigned
  <1> QED
    BY <1>1, <1>2, <1>4 DEF Rest

\* The garbage above c dies, and nothing else hangs from it.
LEMMA CollectStep ==
    ASSUME NEW rf \in [Value -> Container \cup {NoContainer}],
           NEW rr \in [Container -> SUBSET Value], NEW ex \in SUBSET Container, NEW t \in Seq(Call),
           phase \in [Container -> Phases], nesting \in Nat,
           myDelegates \in [Container -> SUBSET Container],
           myDelegators \in [Container -> SUBSET Container],
           Sound(rf, rr, ex, myDelegates, myDelegators, phase), Nested(t, nesting),
           Pending(t, rf, ex, myDelegates, myDelegators, phase),
           NEW c \in Container, Alive(c), ~IsReferencable(rr, ex, c),
           \A i \in DOMAIN t : t[i].call = "FromTable" => t[i].container # c
    PROVE  LET G == Garbage(rr, c)
           IN  \A ph, w :
                  /\ ph = [x \in Container |-> IF x \in G THEN "dying" ELSE phase[x]]
                  /\ w = DestroyAll({c}) \o DestroyAll(G \ {c}) \o Exit(nesting + 1) \o t
                  => /\ w \in Seq(Call) /\ Nested(w, nesting + 1)
                     /\ Sound(rf, rr, ex, myDelegates, myDelegators, ph)
                     /\ Pending(w, rf, ex, myDelegates, myDelegators, ph)
  <1> DEFINE G   == Garbage(rr, c)
             ph2 == [x \in Container |-> IF x \in G THEN "dying" ELSE phase[x]]
             p   == DestroyAll({c}) \o DestroyAll(G \ {c}) \o Exit(nesting + 1)
             q   == p \o t
             md  == myDelegates
             mr  == myDelegators
  <1>1. /\ c \in G /\ G \subseteq Container /\ \A x \in G : phase[x] = "alive"
        /\ \A x \in G : x \notin ex /\ \A u \in Slot : rf[u] # x
        /\ \A x \in G : \A y \in Container :
              /\ phase[y] = "alive"
              /\ \/ \E f \in FieldName : rf[<<y, f>>] = x
                 \/ x \in md[y]
              => y \in G
        /\ \A x \in Container : x # c /\ Fresh(x, rf, ex, md, mr, phase) => x \notin G
    BY GarbageFacts
  <1> HIDE DEF G
  <1>2. PICK e \in DOMAIN p :
           /\ Exits(p[e]) /\ p[e].depth = nesting + 1
           /\ \A i \in DOMAIN p : i # e => /\ i < e
                                           /\ p[i].call = "ExplicitDestructor"
                                           /\ p[i].containers \subseteq G
    BY <1>1, DestroyFacts
  <1>3. /\ p \in Seq(Call)
        /\ \A x \in G : \E i \in DOMAIN p : p[i].call = "ExplicitDestructor" /\ x \in p[i].containers
        /\ \A i, j \in DOMAIN p : Kills(p[i]) \cap Kills(p[j]) # {} => i = j
    BY <1>1, DestroyFacts
  <1>4. \A x \in Container : ph2[x] = IF x \in G THEN "dying" ELSE phase[x]
    OBVIOUS
  <1> HIDE DEF p, ph2
  <1>5. /\ \A x \in Container, f \in FieldName : <<x, f>> \in Value
        /\ \A u \in Slot : u \in Value
    BY DEF Value, Field, Slot
  <1>6. Sound(rf, rr, ex, md, mr, ph2)
    <2>1. Counted(rf, rr, ph2)
      BY <1>4 DEF Sound, Counted
    <2>2. Rooted(rf, ex, ph2)
      <3>1. \A u \in Slot : rf[u] # NoContainer => rf[u] \in Container /\ ph2[rf[u]] = "alive"
        BY <1>1, <1>4, <1>5 DEF Sound, Rooted
      <3>2. \A x \in ex : x \notin G /\ phase[x] = "alive"
        BY <1>1 DEF Sound, Rooted
      <3> QED
        BY <1>4, <3>1, <3>2 DEF Rooted
    <2>3. Kept(rf, md, ph2)
      <3> SUFFICES ASSUME NEW x \in Container, ph2[x] = "alive"
                   PROVE  /\ \A f \in FieldName : rf[<<x, f>>] # NoContainer => ph2[rf[<<x, f>>]] = "alive"
                          /\ \A d \in md[x] : ph2[d] = "alive"
        BY DEF Kept
      <3>1. x \notin G /\ phase[x] = "alive"
        BY <1>4
      <3>2. \A f \in FieldName : rf[<<x, f>>] # NoContainer =>
               /\ rf[<<x, f>>] \in Container /\ phase[rf[<<x, f>>]] = "alive" /\ rf[<<x, f>>] \notin G
        BY <1>1, <1>5, <3>1 DEF Sound, Kept
      <3>3. \A d \in md[x] : d \in Container /\ phase[d] = "alive" /\ d \notin G
        BY <1>1, <3>1 DEF Sound, Kept
      <3> QED
        BY <1>4, <3>2, <3>3
    <2>4. Gone(rf, md, mr, ph2)
      BY <1>1, <1>4 DEF Sound, Gone
    <2> QED
      BY <2>1, <2>2, <2>3, <2>4 DEF Sound
  <1>7. \A i \in DOMAIN t : t[i] \in Call
    OBVIOUS
  <1>8. \A i \in DOMAIN t : Kills(t[i]) \subseteq Container /\ \A x \in Kills(t[i]) : phase[x] = "dying"
    BY <1>7 DEF Kills, Call, Pending, Rest, Ordered
  <1>9. Rest(t, rf, ex, md, mr, ph2)
    <2>1. \A i \in DOMAIN t : t[i].call = "FromTable" =>
             /\ t[i].container \in Container \ G
             /\ phase[t[i].container] = "alive"
      BY <1>1 DEF Pending, Rest, Assigned, Assigns, Fresh
    <2>2. \A i \in DOMAIN t : t[i].call = "FromTable" => ph2[t[i].container] = "alive"
      BY <1>4, <2>1
    <2>3. \A i \in DOMAIN t : \A x \in Kills(t[i]) : ph2[x] = "dying"
      BY <1>4, <1>8
    <2> QED
      BY <2>2, <2>3, PhaseKeeps DEF Pending
  <1>10. Prefix(p, t, md, mr, ph2)
    <2>1. \A i \in DOMAIN p : i # e => /\ ~Assigns(p[i]) /\ Dropped(p[i]) = {} /\ Kills(p[i]) \subseteq G
                                       /\ i < e /\ Exits(p[e])
                                       /\ \A x : ~Completes(p[i], x)
      BY <1>2 DEF Assigns, Dropped, Kills, Completes
    <2>2. ~Assigns(p[e]) /\ Dropped(p[e]) = {} /\ Kills(p[e]) = {} /\ \A x : ~Completes(p[e], x)
      BY <1>2 DEF Exits, Assigns, Dropped, Kills, Completes
    <2>3. \A x \in G : ph2[x] = "dying" /\ ~Covers(t, x)
      BY <1>1, <1>4, <1>8 DEF Covers
    <2> QED
      BY <1>3, <2>1, <2>2, <2>3 DEF Prefix
  <1>11. /\ Rest(q, rf, ex, md, mr, ph2)
         /\ \A x \in Container : Covers(p, x) \/ Covers(t, x) => Covers(q, x)
         /\ \A x \in Container, f \in FieldName :
               Empties(p, x, f) \/ Empties(t, x, f) => Empties(q, x, f)
    BY <1>3, <1>9, <1>10, FrontKeeps
  <1>12. Pending(q, rf, ex, md, mr, ph2)
    <2> SUFFICES ASSUME NEW x \in Container, ph2[x] = "dying"
                 PROVE  /\ Covers(q, x)
                        /\ \A f \in FieldName : rf[<<x, f>>] # NoContainer => Empties(q, x, f)
      BY <1>11 DEF Pending
    <2>1. CASE x \in G
      <3>1. PICK i \in DOMAIN p : p[i].call = "ExplicitDestructor" /\ x \in p[i].containers
        BY <1>3, <2>1
      <3>2. x \in Kills(p[i]) /\ ~Completes(p[i], x)
        BY <3>1 DEF Kills, Completes
      <3>3. Covers(p, x) /\ \A f : Empties(p, x, f)
        BY <3>2 DEF Covers, Empties
      <3> QED
        BY <1>11, <3>3
    <2>2. CASE x \notin G
      <3>1. phase[x] = "dying"
        BY <1>4, <2>2
      <3> QED
        BY <1>11, <3>1 DEF Pending
    <2> QED
      BY <2>1, <2>2
  <1>13. q \in Seq(Call)
    BY <1>3, FrontFacts
  <1>14. Nested(q, nesting + 1)
    <2>1. \A i \in DOMAIN p : Exits(p[i]) => i = e
      BY <1>2 DEF Exits
    <2> QED
      BY <1>2, <1>3, <2>1, FrontExit
  <1> HIDE DEF q
  <1>15. \A ph, w : ph = ph2 /\ w = q =>
            /\ w \in Seq(Call) /\ Nested(w, nesting + 1)
            /\ Sound(rf, rr, ex, md, mr, ph) /\ Pending(w, rf, ex, md, mr, ph)
    BY <1>6, <1>12, <1>13, <1>14
  <1> QED
    BY <1>15 DEF q, p, ph2, G
-----------------------------------------------------------------------------
(* The steps of the collector.                                             *)

\* TestReferencable, when everything else is as it should be.
LEMMA TestKeeps ==
    ASSUME TypeOK, NEW t \in Seq(Call), NEW c \in Container, Alive(c),
           refers' \in [Value -> Container \cup {NoContainer}],
           referrers' \in [Container -> SUBSET Value], external' \in SUBSET Container,
           UNCHANGED delegation,
           Sound(refers', referrers', external', myDelegates, myDelegators, phase),
           Nested(t, nesting),
           Pending(t, refers', external', myDelegates, myDelegators, phase),
           forCollection = {x \in Container : Collected(x)},
           \A i \in DOMAIN t : t[i].call = "FromTable" => t[i].container # c,
           TestReferencable(c, t)
    PROVE  IInv'
  <1>0. UNCHANGED <<myDelegates, myDelegators, orphans>>
    BY DEF delegation
  <1>1. CASE IsReferencable(referrers', external', c)
    <2>1. work' = t /\ UNCHANGED <<phase, nesting, forCollection>>
      BY <1>1 DEF TestReferencable, collector
    <2>2. TypeOK'
      BY <1>0, <2>1 DEF TypeOK
    <2>3. (forCollection = {x \in Container : Collected(x)})'
      BY <2>1 DEF Collected
    <2> QED
      BY <1>0, <2>1, <2>2, <2>3 DEF IInv
  <1>2. CASE ~IsReferencable(referrers', external', c)
    <2> DEFINE G == Garbage(referrers', c)
    <2>1. /\ phase' = [x \in Container |-> IF x \in G THEN "dying" ELSE phase[x]]
          /\ forCollection' = forCollection \cup G
          /\ nesting' = nesting + 1
          /\ work' = DestroyAll({c}) \o DestroyAll(G \ {c}) \o Exit(nesting + 1) \o t
      BY <1>2 DEF TestReferencable
    <2>2. /\ phase \in [Container -> Phases] /\ nesting \in Nat
          /\ myDelegates \in [Container -> SUBSET Container]
          /\ myDelegators \in [Container -> SUBSET Container]
          /\ orphans \in SUBSET Container /\ forCollection \in SUBSET Container
      BY DEF TypeOK, Phases
    <2>3. /\ work' \in Seq(Call) /\ Nested(work', nesting')
          /\ Sound(refers', referrers', external', myDelegates, myDelegators, phase')
          /\ Pending(work', refers', external', myDelegates, myDelegators, phase')
      <3> QED
        BY <1>2, <2>1, <2>2, CollectStep
    <2>4. G \subseteq Container
      BY DEF Garbage, Above
    <2> HIDE DEF G
    <2>5. phase' \in [Container -> Phases]
      BY <2>1, <2>2 DEF Phases
    <2>6. TypeOK'
      BY <1>0, <2>1, <2>2, <2>3, <2>4, <2>5 DEF TypeOK, Phases
    <2>7. (forCollection = {x \in Container : Collected(x)})'
      <3>1. \A x \in Container : phase'[x] = IF x \in G THEN "dying" ELSE phase[x]
        BY <2>1
      <3> QED
        BY <2>1, <2>4, <3>1 DEF Collected
    <2> QED
      BY <1>0, <2>3, <2>6, <2>7 DEF IInv
  <1> QED
    BY <1>1, <1>2

\* A value is dropped.
LEMMA CollectGarbageKeeps ==
    ASSUME IInv, work # <<>>, CollectGarbage
    PROVE  IInv'
  <1>1. /\ refers \in [Value -> Container \cup {NoContainer}]
        /\ referrers \in [Container -> SUBSET Value] /\ external \in SUBSET Container
        /\ phase \in [Container -> Phases] /\ nesting \in Nat /\ work \in Seq(Call)
    BY DEF IInv, TypeOK, Phases
  <1>2. work[1] \in Call /\ Head(work) = work[1] /\ 1 \in DOMAIN work
    BY <1>1, TailFacts
  <1>3. work[1].call = "CollectGarbage" /\ UNCHANGED <<external, delegation>>
    BY <1>2 DEF CollectGarbage, Todo
  <1>4. PICK v \in work[1].values :
           LET later == DropAll(work[1].values \ {v}) \o Tail(work)
           IN  /\ refers' = [refers EXCEPT ![v] = NoContainer]
               /\ IF refers[v] = NoContainer
                  THEN work' = later /\ UNCHANGED <<referrers, collector>>
                  ELSE DecRefCounter(refers[v], v, later)
    BY <1>2 DEF CollectGarbage, Todo
  <1>5. v \in Value
    BY <1>2, <1>3 DEF Call
  <1> DEFINE later == DropAll(work[1].values \ {v}) \o Tail(work)
  <1>6. /\ later \in Seq(Call) /\ Nested(later, nesting)
        /\ Pending(later, refers', external, myDelegates, myDelegators, phase)
        /\ \A i \in DOMAIN later : later[i].call = "FromTable" => \E j \in DOMAIN work : work[j] = later[i]
    BY <1>1, <1>3, <1>4, <1>5, DropPending DEF IInv
  <1>7. /\ refers' = [refers EXCEPT ![v] = NoContainer]
        /\ IF refers[v] = NoContainer
           THEN work' = later /\ UNCHANGED <<referrers, collector>>
           ELSE DecRefCounter(refers[v], v, later)
    BY <1>4
  <1> HIDE DEF later
  <1>8. refers' \in [Value -> Container \cup {NoContainer}]
    BY <1>1, <1>7
  <1>9. UNCHANGED <<myDelegates, myDelegators, orphans>>
    BY <1>3 DEF delegation
  <1>10. ASSUME work' = later, UNCHANGED <<referrers, collector>>,
                Sound(refers', referrers, external, myDelegates, myDelegators, phase)
         PROVE  IInv'
    <2>1. UNCHANGED <<referrers, phase, nesting, forCollection, external>>
      BY <1>3, <1>10 DEF collector
    <2>2. TypeOK'
      BY <1>6, <1>8, <1>9, <1>10, <2>1 DEF IInv, TypeOK
    <2>3. (forCollection = {x \in Container : Collected(x)})'
      BY <2>1 DEF Collected, IInv
    <2> QED
      BY <1>6, <1>9, <1>10, <2>1, <2>2, <2>3 DEF IInv
  <1>11. CASE refers[v] = NoContainer
    <2>1. refers' = refers
      BY <1>1, <1>5, <1>7, <1>11
    <2> QED
      BY <1>7, <1>10, <1>11, <2>1 DEF IInv
  <1>12. CASE refers[v] # NoContainer
    <2> DEFINE c == refers[v]
    <2>1. c \in Container /\ phase[c] \in {"alive", "dying", "destroyed"}
      <3>1. c \in Container /\ phase[c] \in Phases
        BY <1>1, <1>5, <1>12
      <3>2. phase[c] # "free"
        BY <1>5, <3>1 DEF IInv, Sound, Gone
      <3> QED
        BY <3>1, <3>2 DEF Phases
    <2>2. DecRefCounter(c, v, later)
      BY <1>7, <1>12
    <2>3. CASE Collected(c)
      <3>1. work' = later /\ UNCHANGED <<referrers, collector>>
        BY <2>2, <2>3 DEF DecRefCounter
      <3>2. referrers = IF phase[refers[v]] = "alive" THEN [referrers EXCEPT ![refers[v]] = @ \ {v}] ELSE referrers
        BY <2>3 DEF Collected
      <3>3. Sound(refers', referrers, external, myDelegates, myDelegators, phase)
        BY <1>1, <1>5, <1>7, <1>12, <3>2, DropSound DEF IInv
      <3> QED
        BY <1>10, <3>1, <3>3
    <2>4. CASE ~Collected(c)
      <3>1. phase[c] = "alive"
        BY <2>1, <2>4 DEF Collected
      <3>2. referrers' = [referrers EXCEPT ![c] = @ \ {v}] /\ TestReferencable(c, later)
        BY <2>2, <2>4 DEF DecRefCounter
      <3>3. referrers' = IF phase[refers[v]] = "alive" THEN [referrers EXCEPT ![refers[v]] = @ \ {v}] ELSE referrers
        BY <3>1, <3>2
      <3>4. Sound(refers', referrers', external, myDelegates, myDelegators, phase)
        BY <1>1, <1>5, <1>7, <1>12, <3>3, DropSound DEF IInv
      <3>5. \A i \in DOMAIN later : later[i].call = "FromTable" => later[i].container # c
        <4> SUFFICES ASSUME NEW i \in DOMAIN later, later[i].call = "FromTable"
                     PROVE  later[i].container # c
          OBVIOUS
        <4>1. PICK j \in DOMAIN work : work[j] = later[i]
          BY <1>6
        <4>2. Fresh(work[j].container, refers, external, myDelegates, myDelegators, phase)
          BY <4>1 DEF IInv, Pending, Rest, Assigned, Assigns
        <4> QED
          BY <1>5, <4>1, <4>2 DEF Fresh
      <3>6. referrers' \in [Container -> SUBSET Value]
        BY <1>1, <2>1, <3>2
      <3>7. external' = external /\ TypeOK /\ UNCHANGED delegation
            /\ forCollection = {x \in Container : Collected(x)}
        BY <1>3 DEF IInv
      <3> QED
        BY <1>1, <1>6, <1>8, <2>1, <3>1, <3>2, <3>4, <3>5, <3>6, <3>7, TestKeeps DEF Alive
    <2> QED
      BY <2>3, <2>4
  <1> QED
    BY <1>11, <1>12

\* The calls ExplicitDestructor puts in front.
LEMMA DestructorFacts ==
    ASSUME NEW c \in Container, NEW C \in SUBSET Container, NEW F \in SUBSET Value
    PROVE  LET p == DropAll(F) \o Complete(c) \o DestroyAll(C \ {c})
           IN  /\ p \in Seq(Call)
               /\ \E k \in DOMAIN p :
                     /\ Completes(p[k], c)
                     /\ F # {} => \E j \in DOMAIN p : j < k /\ Dropped(p[j]) = F
                     /\ \A i \in DOMAIN p : i # k =>
                           \/ p[i].call = "CollectGarbage" /\ p[i].values = F /\ i < k
                           \/ p[i].call = "ExplicitDestructor" /\ p[i].containers = C \ {c}
               /\ C \ {c} # {} => \E i \in DOMAIN p : /\ p[i].call = "ExplicitDestructor"
                                                      /\ p[i].containers = C \ {c}
               /\ \A i, j \in DOMAIN p : Kills(p[i]) \cap Kills(p[j]) # {} => i = j
  <1> DEFINE d1 == [call |-> "CollectGarbage", values |-> F]
             d2 == [call |-> "SetCompleted", container |-> c]
             d3 == [call |-> "ExplicitDestructor", containers |-> C \ {c}]
             r  == DropAll(F) \o Complete(c)
             p  == r \o DestroyAll(C \ {c})
  <1>1. /\ d1 \in Call /\ d2 \in Call /\ d3 \in Call
        /\ d1.call = "CollectGarbage" /\ d1.values = F /\ Dropped(d1) = F /\ Kills(d1) = {}
        /\ Completes(d2, c) /\ Kills(d2) = {c}
        /\ d3.call = "ExplicitDestructor" /\ d3.containers = C \ {c} /\ Kills(d3) = C \ {c}
    BY DEF Call, Dropped, Kills, Completes
  <1>2. /\ DropAll(F) = IF F = {} THEN <<>> ELSE <<d1>>
        /\ Complete(c) = <<d2>>
        /\ DestroyAll(C \ {c}) = IF C \ {c} = {} THEN <<>> ELSE <<d3>>
    BY DEF DropAll, Complete, DestroyAll
  <1> HIDE DEF d1, d2, d3
  <1>3. /\ r \in Seq(Call)
        /\ \E n \in {1, 2} : /\ DOMAIN r = 1..n /\ Len(r) = n /\ r[n] = d2
                             /\ n = 2 <=> F # {}
                             /\ n = 2 => r[1] = d1
    <2>1. CASE F = {}
      <3>1. r = <<>> \o <<d2>>
        BY <1>2, <2>1
      <3>2. <<>> \in Seq(Call) /\ Len(<<>>) = 0
        OBVIOUS
      <3> HIDE DEF r
      <3>3. r \in Seq(Call) /\ Len(r) = 1 /\ DOMAIN r = 1..1 /\ r[1] = d2
        BY <1>1, <3>1, <3>2, SnocFacts
      <3> QED
        BY <2>1, <3>3
    <2>2. CASE F # {}
      <3>1. r = <<d1>> \o <<d2>>
        BY <1>2, <2>2
      <3>2. <<d1>> \in Seq(Call) /\ Len(<<d1>>) = 1 /\ DOMAIN <<d1>> = {1} /\ <<d1>>[1] = d1
        BY <1>1
      <3> HIDE DEF r
      <3>3. r \in Seq(Call) /\ Len(r) = 2 /\ DOMAIN r = 1..2 /\ r[2] = d2 /\ r[1] = d1
        BY <1>1, <3>1, <3>2, SnocFacts
      <3> QED
        BY <2>2, <3>3
    <2> QED
      BY <2>1, <2>2
  <1>4. PICK n \in {1, 2} : /\ DOMAIN r = 1..n /\ Len(r) = n /\ r[n] = d2
                            /\ n = 2 <=> F # {}
                            /\ n = 2 => r[1] = d1
    BY <1>3
  <1> HIDE DEF r
  <1>5. /\ p \in Seq(Call) /\ \A i \in 1..n : i \in DOMAIN p /\ p[i] = r[i]
        /\ \A i \in DOMAIN p : i \in 1..n \/ (i = n + 1 /\ C \ {c} # {} /\ p[i] = d3)
        /\ C \ {c} # {} => n + 1 \in DOMAIN p /\ p[n + 1] = d3
    <2>1. CASE C \ {c} = {}
      <3>1. p = r \o <<>>
        BY <1>2, <2>1
      <3>2. r \o <<>> = r
        BY <1>3
      <3> QED
        BY <1>3, <1>4, <2>1, <3>1, <3>2
    <2>2. CASE C \ {c} # {}
      <3>1. p = r \o <<d3>>
        BY <1>2, <2>2
      <3> HIDE DEF p
      <3>2. /\ p \in Seq(Call) /\ Len(p) = n + 1 /\ DOMAIN p = 1..(n + 1)
            /\ p[n + 1] = d3 /\ \A i \in DOMAIN r : p[i] = r[i]
        BY <1>1, <1>3, <1>4, <3>1, SnocFacts, SMTT(40)
      <3> QED
        BY <1>4, <2>2, <3>2
    <2> QED
      BY <2>1, <2>2
  <1> HIDE DEF p
  <1>6. n \in DOMAIN p /\ p[n] = d2 /\ (n = 2 => 1 \in DOMAIN p /\ p[1] = d1)
    BY <1>4, <1>5
  <1>7. \A i \in DOMAIN p : \/ i = n /\ p[i] = d2
                            \/ i = 1 /\ n = 2 /\ p[i] = d1
                            \/ i = n + 1 /\ C \ {c} # {} /\ p[i] = d3
    BY <1>4, <1>5
  <1>8. F # {} => \E j \in DOMAIN p : j < n /\ Dropped(p[j]) = F
    BY <1>1, <1>4, <1>6
  <1>9. \A i \in DOMAIN p : i # n =>
           \/ p[i].call = "CollectGarbage" /\ p[i].values = F /\ i < n
           \/ p[i].call = "ExplicitDestructor" /\ p[i].containers = C \ {c}
    BY <1>1, <1>7
  <1>10. C \ {c} # {} => \E i \in DOMAIN p : /\ p[i].call = "ExplicitDestructor"
                                             /\ p[i].containers = C \ {c}
    BY <1>1, <1>5
  <1>11. \A i, j \in DOMAIN p : Kills(p[i]) \cap Kills(p[j]) # {} => i = j
    BY <1>1, <1>7
  <1>12. Completes(p[n], c)
    BY <1>1, <1>6
  <1> QED
    BY <1>5, <1>6, <1>8, <1>9, <1>10, <1>11, <1>12 DEF p, r

\* A table that leaves its delegates and its delegators.
LEMMA LeaveKeeps ==
    ASSUME NEW t, NEW rf, NEW ex, NEW md, NEW mr, NEW md2, NEW mr2, NEW ph,
           Rest(t, rf, ex, md, mr, ph),
           \A x \in Container : md2[x] \subseteq md[x] /\ mr2[x] \subseteq mr[x]
    PROVE  Rest(t, rf, ex, md2, mr2, ph)
  <1>1. Left(t, md2, mr2)
    BY DEF Rest, Left
  <1>2. \A x \in Container : Fresh(x, rf, ex, md, mr, ph) => Fresh(x, rf, ex, md2, mr2, ph)
    BY DEF Fresh
  <1>3. Assigned(t, rf, ex, md2, mr2, ph)
    BY <1>2 DEF Rest, Assigned
  <1> QED
    BY <1>1, <1>3 DEF Rest

\* The fields of a container are dropped before it is completed.
LEMMA ExplicitDestructorKeeps ==
    ASSUME IInv, work # <<>>, ExplicitDestructor
    PROVE  IInv'
  <1>1. /\ refers \in [Value -> Container \cup {NoContainer}]
        /\ myDelegates \in [Container -> SUBSET Container]
        /\ myDelegators \in [Container -> SUBSET Container]
        /\ nesting \in Nat /\ work \in Seq(Call) /\ orphans \in SUBSET Container
    BY DEF IInv, TypeOK
  <1> DEFINE t == Tail(work)
             C == work[1].containers
  <1>2. /\ work[1] \in Call /\ Head(work) = work[1] /\ 1 \in DOMAIN work /\ t \in Seq(Call)
        /\ \A i \in DOMAIN t : i >= 1 /\ i + 1 \in DOMAIN work /\ t[i] = work[i + 1]
        /\ \A i \in DOMAIN work : i # 1 => i - 1 \in DOMAIN t /\ t[i - 1] = work[i]
        /\ \A i \in DOMAIN t : i \in Nat
    BY <1>1, TailFacts
  <1>3. /\ work[1].call = "ExplicitDestructor" /\ C \subseteq Container /\ Kills(work[1]) = C
        /\ Dropped(work[1]) = {} /\ ~Exits(work[1])
    BY <1>2 DEF ExplicitDestructor, Todo, Call, Kills, Dropped, Exits
  <1>4. PICK c \in C :
          /\ myDelegators' = [x \in Container |-> IF x = c THEN {} ELSE
                                 IF x \in myDelegates[c] THEN myDelegators[x] \ {c}
                                                         ELSE myDelegators[x]]
          /\ myDelegates' = [x \in Container |-> IF x = c THEN {} ELSE
                                 IF x \in myDelegators[c] THEN myDelegates[x] \ {c}
                                                          ELSE myDelegates[x]]
          /\ orphans' = orphans \cup myDelegates[c]
          /\ work' = DropAll(Fields(c)) \o Complete(c) \o DestroyAll(C \ {c}) \o t
    BY <1>2 DEF ExplicitDestructor, Todo
  <1>5. UNCHANGED <<refers, referrers, external, phase, nesting, forCollection>>
    BY DEF ExplicitDestructor, values, collector
  <1> DEFINE F == Fields(c)
             p == DropAll(F) \o Complete(c) \o DestroyAll(C \ {c})
  <1>6. c \in Container /\ F \in SUBSET Value /\ work' = p \o t
    BY <1>3, <1>4 DEF Fields, Value
  <1>7. /\ p \in Seq(Call)
        /\ \E k \in DOMAIN p :
              /\ Completes(p[k], c)
              /\ F # {} => \E j \in DOMAIN p : j < k /\ Dropped(p[j]) = F
              /\ \A i \in DOMAIN p : i # k =>
                    \/ p[i].call = "CollectGarbage" /\ p[i].values = F /\ i < k
                    \/ p[i].call = "ExplicitDestructor" /\ p[i].containers = C \ {c}
        /\ C \ {c} # {} => \E i \in DOMAIN p : /\ p[i].call = "ExplicitDestructor"
                                               /\ p[i].containers = C \ {c}
        /\ \A i, j \in DOMAIN p : Kills(p[i]) \cap Kills(p[j]) # {} => i = j
    <2> HIDE DEF F, C
    <2>1. C \in SUBSET Container
      BY <1>3
    <2> QED
      BY <1>6, <2>1, DestructorFacts
  <1> HIDE DEF p, t, C
  <1>8. PICK k \in DOMAIN p :
           /\ Completes(p[k], c)
           /\ F # {} => \E j \in DOMAIN p : j < k /\ Dropped(p[j]) = F
           /\ \A i \in DOMAIN p : i # k =>
                 \/ p[i].call = "CollectGarbage" /\ p[i].values = F /\ i < k
                 \/ p[i].call = "ExplicitDestructor" /\ p[i].containers = C \ {c}
    BY <1>7
  <1>9. F = {v \in Field : v[1] = c /\ refers[v] # NoContainer}
    BY DEF Fields
  <1> HIDE DEF F
  <1>10. \A x \in Container : /\ myDelegates'[x] = IF x = c THEN {} ELSE myDelegates[x] \ {c}
                              /\ myDelegators'[x] = IF x = c THEN {} ELSE myDelegators[x] \ {c}
    BY <1>1, <1>4, <1>6 DEF IInv, Sound, Mutual
  <1>11. Sound(refers', referrers', external', myDelegates', myDelegators', phase')
    <2>1. Mutual(myDelegates', myDelegators')
      <3>1. Mutual(myDelegates, myDelegators)
        BY DEF IInv, Sound
      <3>2. \A a, b \in Container : /\ b \in myDelegates'[a] <=> a # c /\ b # c /\ b \in myDelegates[a]
                                    /\ a \in myDelegators'[b] <=> a # c /\ b # c /\ a \in myDelegators[b]
        BY <1>10
      <3> QED
        BY <3>1, <3>2 DEF Mutual
    <2>2. Kept(refers, myDelegates', phase)
      BY <1>10 DEF IInv, Sound, Kept
    <2>3. Gone(refers, myDelegates', myDelegators', phase)
      BY <1>10 DEF IInv, Sound, Gone
    <2> QED
      BY <1>5, <2>1, <2>2, <2>3 DEF IInv, Sound
  <1>12. /\ Rest(t, refers, external, myDelegates, myDelegators, phase)
         /\ \A x \in Container : Covers(work, x) => x \in Kills(work[1]) \/ Covers(t, x)
         /\ \A x \in Container, f \in FieldName :
               Empties(work, x, f) /\ refers[<<x, f>>] # NoContainer =>
                  x \in Kills(work[1]) \/ Empties(t, x, f)
    <2>1. \A v \in Dropped(work[1]) : refers[v] = NoContainer
      BY <1>3
    <2> QED
      BY <1>1, <2>1, TailKeeps DEF IInv, Pending, t
  <1>13. Rest(t, refers, external, myDelegates', myDelegators', phase)
    <2>1. \A x \in Container : myDelegates'[x] \subseteq myDelegates[x] /\ myDelegators'[x] \subseteq myDelegators[x]
      BY <1>10
    <2> QED
      BY <1>12, <2>1, LeaveKeeps
  <1>14. Prefix(p, t, myDelegates', myDelegators', phase)
    <2>1. /\ ~Assigns(p[k]) /\ Dropped(p[k]) = {} /\ Kills(p[k]) = {c}
          /\ \A x : Completes(p[k], x) => x = c
      BY <1>8 DEF Completes, Assigns, Dropped, Kills
    <2>2. \A i \in DOMAIN p : i # k => /\ ~Assigns(p[i]) /\ Kills(p[i]) \subseteq C
                                       /\ Dropped(p[i]) # {} => Dropped(p[i]) = F /\ i < k
                                       /\ \A x : ~Completes(p[i], x)
      BY <1>8 DEF Completes, Assigns, Dropped, Kills
    <2>3. F \cap Slot = {} /\ \A x \in Container, f \in FieldName : <<x, f>> \in F => x = c
      BY <1>9, ResidencyAssumption DEF Slot
    <2>4. \E j \in DOMAIN t : Exits(t[j])
      <3>1. PICK j \in DOMAIN work : 1 < j /\ Exits(work[j])
        BY <1>2, <1>3, <1>4 DEF IInv, Pending, Rest, Ordered
      <3> QED
        BY <1>2, <3>1
    <2>5. \A x \in C : phase[x] = "dying"
      BY <1>2, <1>3 DEF IInv, Pending, Rest, Ordered
    <2>6. \A x \in C : ~Covers(t, x)
      <3> SUFFICES ASSUME NEW x \in C, NEW j \in DOMAIN t, x \in Kills(t[j])
                   PROVE  FALSE
        BY DEF Covers
      <3>1. j + 1 = 1
        BY <1>2, <1>3 DEF IInv, Pending, Rest, Ordered
      <3> QED
        BY <1>2, <3>1
    <2>7. Kills(p[k]) \subseteq C
      BY <1>4, <2>1
    <2>8. \A i \in DOMAIN p : /\ ~Assigns(p[i]) /\ Dropped(p[i]) \cap Slot = {}
                              /\ \A x \in Kills(p[i]) : phase[x] = "dying" /\ ~Covers(t, x)
      BY <2>1, <2>2, <2>3, <2>5, <2>6, <2>7
    <2>9. \A i \in DOMAIN p : \A x \in Container :
             Completes(p[i], x) => myDelegates'[x] = {} /\ myDelegators'[x] = {}
      BY <1>6, <1>10, <2>1, <2>2
    <2>10. \A i \in DOMAIN p : \A x \in Container, f \in FieldName : <<x, f>> \in Dropped(p[i]) =>
              i < k /\ Completes(p[k], x)
      BY <1>8, <2>1, <2>2, <2>3
    <2> QED
      BY <1>7, <2>4, <2>8, <2>9, <2>10 DEF Prefix
  <1>15. /\ Rest(p \o t, refers, external, myDelegates', myDelegators', phase)
         /\ \A x \in Container : Covers(p, x) \/ Covers(t, x) => Covers(p \o t, x)
         /\ \A x \in Container, f \in FieldName :
               Empties(p, x, f) \/ Empties(t, x, f) => Empties(p \o t, x, f)
    BY <1>2, <1>7, <1>13, <1>14, FrontKeeps
  <1>16. Pending(p \o t, refers, external, myDelegates', myDelegators', phase)
    <2> SUFFICES ASSUME NEW x \in Container, phase[x] = "dying"
                 PROVE  /\ Covers(p \o t, x)
                        /\ \A f \in FieldName : refers[<<x, f>>] # NoContainer => Empties(p \o t, x, f)
      BY <1>15 DEF Pending
    <2>1. CASE x = c
      <3>1. c \in Kills(p[k])
        BY <1>8 DEF Completes, Kills
      <3>2. Covers(p, c)
        BY <3>1 DEF Covers
      <3>3. \A f \in FieldName : refers[<<c, f>>] # NoContainer => Empties(p, c, f)
        <4> SUFFICES ASSUME NEW f \in FieldName, refers[<<c, f>>] # NoContainer
                     PROVE  Empties(p, c, f)
          OBVIOUS
        <4>1. <<c, f>> \in F
          BY <1>6, <1>9 DEF Field
        <4>2. \E j \in DOMAIN p : j < k /\ <<c, f>> \in Dropped(p[j])
          BY <1>8, <4>1
        <4> QED
          BY <3>1, <4>2 DEF Empties
      <3> QED
        BY <1>15, <2>1, <3>2, <3>3
    <2>2. CASE x \in C \ {c}
      <3>1. PICK i \in DOMAIN p : p[i].call = "ExplicitDestructor" /\ p[i].containers = C \ {c}
        BY <1>7, <2>2
      <3>2. x \in Kills(p[i]) /\ ~Completes(p[i], x)
        BY <2>2, <3>1 DEF Kills, Completes
      <3>3. Covers(p, x) /\ \A f : Empties(p, x, f)
        BY <3>2 DEF Covers, Empties
      <3> QED
        BY <1>15, <3>3
    <2>3. CASE x \notin C
      BY <1>3, <1>12, <1>15, <2>3 DEF IInv, Pending
    <2> QED
      BY <2>1, <2>2, <2>3
  <1>17. p \o t \in Seq(Call)
    BY <1>2, <1>7, FrontFacts
  <1>18. Nested(p \o t, nesting)
    <2>1. Nested(t, nesting)
      BY <1>1, <1>3, TailNested DEF IInv, t
    <2>2. \A i \in DOMAIN p : ~Exits(p[i])
      BY <1>8 DEF Exits, Completes
    <2> QED
      BY <1>1, <1>2, <1>7, <2>1, <2>2, FrontNested
  <1>19. TypeOK'
    <2>1. /\ myDelegates' \in [Container -> SUBSET Container]
          /\ myDelegators' \in [Container -> SUBSET Container]
          /\ orphans' \in SUBSET Container
      BY <1>1, <1>4, <1>6
    <2> QED
      BY <1>5, <1>6, <1>17, <2>1 DEF IInv, TypeOK
  <1>20. (forCollection = {x \in Container : Collected(x)})'
    BY <1>5 DEF IInv, Collected
  <1> QED
    BY <1>5, <1>6, <1>11, <1>16, <1>18, <1>19, <1>20 DEF IInv

\* A container is completed when all of its fields were dropped.
LEMMA SetCompletedKeeps ==
    ASSUME IInv, work # <<>>, SetCompleted
    PROVE  IInv'
  <1>1. /\ refers \in [Value -> Container \cup {NoContainer}]
        /\ referrers \in [Container -> SUBSET Value] /\ phase \in [Container -> Phases]
        /\ nesting \in Nat /\ work \in Seq(Call)
    BY DEF IInv, TypeOK, Phases
  <1> DEFINE t == Tail(work)
             c == work[1].container
  <1>2. /\ work[1] \in Call /\ Head(work) = work[1] /\ 1 \in DOMAIN work /\ t \in Seq(Call)
        /\ \A i \in DOMAIN t : i \in Nat /\ i >= 1 /\ i + 1 \in DOMAIN work /\ t[i] = work[i + 1]
        /\ \A i \in DOMAIN work : i \in Nat /\ i >= 1
    BY <1>1, TailFacts
  <1>3. /\ work[1].call = "SetCompleted" /\ c \in Container /\ Kills(work[1]) = {c}
        /\ Dropped(work[1]) = {} /\ ~Exits(work[1]) /\ Completes(work[1], c)
    BY <1>2 DEF SetCompleted, Todo, Call, Kills, Dropped, Exits, Completes
  <1>4. /\ phase' = [phase EXCEPT ![c] = "destroyed"]
        /\ referrers' = [referrers EXCEPT ![c] = {}]
        /\ work' = t
        /\ UNCHANGED <<refers, external, myDelegates, myDelegators, orphans, nesting, forCollection>>
    BY <1>2 DEF SetCompleted, Todo, delegation
  <1> HIDE DEF t, c
  <1>5. phase[c] = "dying" /\ \A i \in DOMAIN work : c \in Kills(work[i]) => i = 1
    BY <1>2, <1>3 DEF IInv, Pending, Rest, Ordered
  <1>6. myDelegates[c] = {} /\ myDelegators[c] = {}
    BY <1>2, <1>3 DEF IInv, Pending, Rest, Left
  <1>7. \A f \in FieldName : refers[<<c, f>>] = NoContainer
    <2> SUFFICES ASSUME NEW f \in FieldName, Empties(work, c, f)
                 PROVE  FALSE
      BY <1>3, <1>5 DEF IInv, Pending
    <2>1. \E j \in DOMAIN work : j < 1
      BY <1>3, <1>5 DEF Empties
    <2> QED
      BY <1>2, <2>1
  <1>8. \A x \in Container : /\ phase'[x] = IF x = c THEN "destroyed" ELSE phase[x]
                             /\ referrers'[x] = IF x = c THEN {} ELSE referrers[x]
    BY <1>1, <1>4
  <1>9. \A v \in Value : refers[v] # NoContainer => refers[v] \in Container
    BY <1>1
  <1>10. /\ \A x \in Container, f \in FieldName : <<x, f>> \in Value
         /\ \A u \in Slot : u \in Value
    BY DEF Value, Field, Slot
  <1>11. Sound(refers, referrers', external, myDelegates, myDelegators, phase')
    <2>1. Counted(refers, referrers', phase')
      BY <1>8 DEF IInv, Sound, Counted
    <2>2. Rooted(refers, external, phase')
      <3>1. \A u \in Slot : refers[u] # NoContainer => phase'[refers[u]] = "alive"
        BY <1>5, <1>8, <1>9, <1>10 DEF IInv, Sound, Rooted
      <3>2. \A x \in external : x \in Container
        BY DEF IInv, TypeOK
      <3>3. \A x \in external : phase'[x] = "alive"
        BY <1>5, <1>8, <3>2 DEF IInv, Sound, Rooted
      <3> QED
        BY <3>1, <3>3 DEF Rooted
    <2>3. Kept(refers, myDelegates, phase')
      <3> SUFFICES ASSUME NEW x \in Container, phase'[x] = "alive"
                   PROVE  /\ \A f \in FieldName : refers[<<x, f>>] # NoContainer => phase'[refers[<<x, f>>]] = "alive"
                          /\ \A d \in myDelegates[x] : phase'[d] = "alive"
        BY DEF Kept
      <3>1. phase[x] = "alive"
        BY <1>8
      <3>2. \A d \in myDelegates[x] : d \in Container
        BY DEF IInv, TypeOK
      <3> QED
        BY <1>5, <1>8, <1>9, <1>10, <3>1, <3>2 DEF IInv, Sound, Kept
    <2>4. Gone(refers, myDelegates, myDelegators, phase')
      BY <1>6, <1>7, <1>8 DEF IInv, Sound, Gone
    <2> QED
      BY <2>1, <2>2, <2>3, <2>4 DEF IInv, Sound
  <1>12. /\ Rest(t, refers, external, myDelegates, myDelegators, phase)
         /\ \A x \in Container : Covers(work, x) => x \in Kills(work[1]) \/ Covers(t, x)
         /\ \A x \in Container, f \in FieldName :
               Empties(work, x, f) /\ refers[<<x, f>>] # NoContainer =>
                  x \in Kills(work[1]) \/ Empties(t, x, f)
    <2>1. \A v \in Dropped(work[1]) : refers[v] = NoContainer
      BY <1>3
    <2> QED
      BY <1>1, <2>1, TailKeeps DEF IInv, Pending, t
  <1>13. Rest(t, refers, external, myDelegates, myDelegators, phase')
    <2>1. \A i \in DOMAIN t : Kills(t[i]) \subseteq Container
      BY <1>2 DEF Kills, Call
    <2>2. \A i \in DOMAIN t : \A x \in Kills(t[i]) : phase'[x] = "dying"
      <3> SUFFICES ASSUME NEW i \in DOMAIN t, NEW x \in Kills(t[i])
                   PROVE  phase'[x] = "dying"
        OBVIOUS
      <3>1. x # c
        BY <1>2, <1>5
      <3>2. phase[x] = "dying"
        BY <1>12 DEF Rest, Ordered
      <3> QED
        BY <1>8, <2>1, <3>1, <3>2
    <2>3. \A i \in DOMAIN t : t[i].call = "FromTable" => phase'[t[i].container] = "alive"
      BY <1>5, <1>8, <1>12 DEF Rest, Assigned, Assigns, Fresh
    <2> QED
      BY <1>12, <2>2, <2>3, PhaseKeeps
  <1>14. Pending(t, refers, external, myDelegates, myDelegators, phase')
    BY <1>3, <1>8, <1>12, <1>13 DEF IInv, Pending
  <1>15. Nested(t, nesting)
    BY <1>1, <1>3, TailNested DEF IInv, t
  <1>16. TypeOK'
    <2>1. phase' \in [Container -> Phases] /\ referrers' \in [Container -> SUBSET Value]
      BY <1>1, <1>4 DEF Phases
    <2> QED
      BY <1>2, <1>4, <2>1 DEF IInv, TypeOK, Phases
  <1>17. (forCollection = {x \in Container : Collected(x)})'
    BY <1>4, <1>5, <1>8 DEF IInv, Collected
  <1> QED
    BY <1>4, <1>11, <1>14, <1>15, <1>16, <1>17 DEF IInv

\* The first end of a collection ends the innermost one.
LEMMA ExitNested ==
    ASSUME NEW w \in Seq(Call), w # <<>>, NEW n \in Nat, Exits(w[1]), Nested(w, n)
    PROVE  n >= 1 /\ Nested(Tail(w), n - 1)
  <1> DEFINE t == Tail(w)
  <1>1. /\ \A i \in DOMAIN w : i \in Nat /\ i >= 1
        /\ \A i \in DOMAIN t : i \in Nat /\ i >= 1 /\ i + 1 \in DOMAIN w /\ t[i] = w[i + 1]
        /\ \A i \in DOMAIN w : i # 1 => i - 1 \in DOMAIN t /\ t[i - 1] = w[i]
        /\ 1 \in DOMAIN w
    BY TailFacts
  <1> HIDE DEF t
  <1>2. \A i \in DOMAIN w : Exits(w[i]) => w[i].depth \in 1..n
    BY DEF Nested
  <1>3. w[1].depth = n
    <2>1. w[1].depth \in 1..n
      BY <1>1, <1>2
    <2>2. PICK i \in DOMAIN w : Exits(w[i]) /\ w[i].depth = n
      BY <2>1 DEF Nested
    <2>3. CASE i # 1
      <3>0. 1 < i
        BY <1>1, <2>3
      <3>1. w[1].depth > w[i].depth
        BY <1>1, <2>2, <3>0 DEF Nested
      <3> QED
        BY <2>1, <2>2, <3>1
    <2> QED
      BY <2>2, <2>3
  <1>4. n >= 1
    BY <1>1, <1>2, <1>3
  <1>5. \A i \in DOMAIN t : Exits(t[i]) => t[i].depth \in 1..(n - 1)
    <2> SUFFICES ASSUME NEW i \in DOMAIN t, Exits(t[i])
                 PROVE  t[i].depth \in 1..(n - 1)
      OBVIOUS
    <2>1. i + 1 \in DOMAIN w /\ t[i] = w[i + 1] /\ 1 < i + 1
      BY <1>1
    <2>2. w[1].depth > w[i + 1].depth
      BY <1>1, <2>1 DEF Nested
    <2>3. t[i].depth \in 1..n
      BY <1>2, <2>1
    <2> QED
      BY <1>3, <2>1, <2>2, <2>3
  <1>6. \A d \in 1..(n - 1) : \E i \in DOMAIN t : Exits(t[i]) /\ t[i].depth = d
    <2> SUFFICES ASSUME NEW d \in 1..(n - 1)
                 PROVE  \E i \in DOMAIN t : Exits(t[i]) /\ t[i].depth = d
      OBVIOUS
    <2>1. d \in 1..n /\ d # n
      OBVIOUS
    <2>2. PICK i \in DOMAIN w : Exits(w[i]) /\ w[i].depth = d
      BY <2>1 DEF Nested
    <2>3. i # 1
      BY <1>3, <2>1, <2>2
    <2> QED
      BY <1>1, <2>2, <2>3
  <1>7. ASSUME NEW i \in DOMAIN t, NEW j \in DOMAIN t, i < j, Exits(t[i]), Exits(t[j])
        PROVE  t[i].depth > t[j].depth
    <2>1. i + 1 < j + 1
      BY <1>1, <1>7
    <2> QED
      BY <1>1, <1>7, <2>1 DEF Nested
  <1> QED
    BY <1>4, <1>5, <1>6, <1>7 DEF Nested, t

\* The outermost collection ends when nothing is dying any more.
LEMMA NoneDying ==
    ASSUME IInv, work # <<>>, Exiting, nesting = 1
    PROVE  \A x \in Container : phase[x] # "dying"
  <1> DEFINE t == Tail(work)
  <1>1. /\ nesting \in Nat /\ work \in Seq(Call)
        /\ Head(work) = work[1] /\ 1 \in DOMAIN work
        /\ \A i \in DOMAIN t : i + 1 \in DOMAIN work /\ t[i] = work[i + 1]
    BY TailFacts DEF IInv, TypeOK
  <1>2. Exits(work[1]) /\ Kills(work[1]) = {} /\ Dropped(work[1]) = {}
    BY <1>1 DEF Exiting, Todo, Exits, Kills, Dropped
  <1>3. Nested(t, 0)
    BY <1>1, <1>2, ExitNested DEF IInv
  <1>4. /\ Rest(t, refers, external, myDelegates, myDelegators, phase)
        /\ \A x \in Container : Covers(work, x) => x \in Kills(work[1]) \/ Covers(t, x)
    <2>1. \A v \in Dropped(work[1]) : refers[v] = NoContainer
      BY <1>2
    <2> QED
      BY <1>1, <2>1, TailKeeps DEF IInv, Pending
  <1> HIDE DEF t
  <1>5. \A i \in DOMAIN t : ~Exits(t[i])
    <2>1. \A i \in DOMAIN t : Exits(t[i]) => t[i].depth \in 1..0
      BY <1>3 DEF Nested
    <2> QED
      BY <2>1
  <1>6. \A i \in DOMAIN t : Kills(t[i]) = {}
    BY <1>4, <1>5 DEF Rest, Ordered
  <1> QED
    BY <1>2, <1>4, <1>6 DEF IInv, Pending, Covers

\* What the outermost collection frees is destroyed and nobody's.
LEMMA ExitingKeeps ==
    ASSUME IInv, work # <<>>, Exiting
    PROVE  IInv'
  <1>1. /\ refers \in [Value -> Container \cup {NoContainer}]
        /\ phase \in [Container -> Phases] /\ nesting \in Nat /\ work \in Seq(Call)
    BY DEF IInv, TypeOK, Phases
  <1> DEFINE t == Tail(work)
  <1>2. /\ work[1] \in Call /\ Head(work) = work[1] /\ 1 \in DOMAIN work /\ t \in Seq(Call)
        /\ \A i \in DOMAIN t : t[i] \in Call
    BY <1>1, TailFacts
  <1>3. /\ Exits(work[1]) /\ Kills(work[1]) = {} /\ Dropped(work[1]) = {}
        /\ nesting' = nesting - 1 /\ work' = t
        /\ UNCHANGED <<refers, referrers, external, myDelegates, myDelegators>>
    BY <1>2 DEF Exiting, Todo, Exits, Kills, Dropped, values
  <1>4. nesting >= 1 /\ Nested(t, nesting')
    BY <1>1, <1>3, ExitNested DEF IInv
  <1>5. /\ Rest(t, refers, external, myDelegates, myDelegators, phase)
        /\ \A x \in Container : Covers(work, x) => x \in Kills(work[1]) \/ Covers(t, x)
        /\ \A x \in Container, f \in FieldName :
              Empties(work, x, f) /\ refers[<<x, f>>] # NoContainer =>
                 x \in Kills(work[1]) \/ Empties(t, x, f)
    <2>1. \A v \in Dropped(work[1]) : refers[v] = NoContainer
      BY <1>3
    <2> QED
      BY <1>1, <2>1, TailKeeps DEF IInv, Pending
  <1> HIDE DEF t
  <1>6. nesting' \in Nat
    BY <1>1, <1>3, <1>4
  <1>7. CASE nesting # 1
    <2>1. UNCHANGED <<phase, forCollection, orphans>>
      BY <1>2, <1>7 DEF Exiting
    <2>2. Pending(t, refers, external, myDelegates, myDelegators, phase)
      BY <1>3, <1>5 DEF IInv, Pending
    <2>3. TypeOK'
      BY <1>2, <1>3, <1>6, <2>1 DEF IInv, TypeOK
    <2>4. (forCollection = {x \in Container : Collected(x)})'
      BY <2>1 DEF IInv, Collected
    <2> QED
      BY <1>3, <1>4, <2>1, <2>2, <2>3, <2>4 DEF IInv
  <1>8. CASE nesting = 1
    <2>1. /\ phase' = [x \in Container |-> IF x \in forCollection THEN "free" ELSE phase[x]]
          /\ forCollection' = {}
          /\ orphans' = orphans \ forCollection
      BY <1>8 DEF Exiting
    <2>4. \A x \in Container : phase[x] # "dying"
      BY <1>8, NoneDying
    <2>3. \A i \in DOMAIN t : Kills(t[i]) = {}
      <3>1. \A i \in DOMAIN t : Kills(t[i]) \subseteq Container
        BY <1>2 DEF Kills, Call
      <3> QED
        BY <1>5, <2>4, <3>1 DEF Rest, Ordered
    <2>5. \A x \in Container : x \in forCollection <=> phase[x] = "destroyed"
      BY <2>4 DEF IInv, Collected
    <2>6. \A x \in Container : phase'[x] = IF phase[x] = "destroyed" THEN "free" ELSE phase[x]
      BY <2>1, <2>5
    <2>7. \A x \in Container : phase'[x] = "alive" <=> phase[x] = "alive"
      BY <2>6
    <2>8. \A v \in Value : refers[v] # NoContainer =>
             refers[v] \in Container /\ phase[refers[v]] = "alive"
      <3> SUFFICES ASSUME NEW v \in Value, refers[v] # NoContainer
                   PROVE  refers[v] \in Container /\ phase[refers[v]] = "alive"
        OBVIOUS
      <3>1. CASE v \in Slot
        BY <1>1, <3>1 DEF IInv, Sound, Rooted
      <3>2. CASE v \in Field
        <4>1. PICK x \in Container, f \in FieldName : v = <<x, f>>
          BY <3>2 DEF Field
        <4>2. phase[x] \in {"free", "alive", "destroyed"}
          BY <1>1, <2>4 DEF Phases
        <4>3. phase[x] = "alive"
          BY <4>1, <4>2 DEF IInv, Sound, Gone
        <4> QED
          BY <1>1, <4>1, <4>3 DEF IInv, Sound, Kept
      <3> QED
        BY <3>1, <3>2 DEF Value, Slot
    <2>9. /\ \A x \in Container, f \in FieldName : <<x, f>> \in Value
          /\ \A u \in Slot : u \in Value
      BY DEF Value, Field, Slot
    <2>10. Sound(refers, referrers, external, myDelegates, myDelegators, phase')
      <3>1. Counted(refers, referrers, phase')
        BY <2>6 DEF IInv, Sound, Counted
      <3>2. Rooted(refers, external, phase')
        <4>1. \A x \in external : x \in Container
          BY DEF IInv, TypeOK
        <4> QED
          BY <2>7, <2>8, <2>9, <4>1 DEF IInv, Sound, Rooted
      <3>3. Kept(refers, myDelegates, phase')
        <4>1. \A x \in Container : \A d \in myDelegates[x] : d \in Container
          BY DEF IInv, TypeOK
        <4> QED
          BY <2>7, <2>8, <2>9, <4>1 DEF IInv, Sound, Kept
      <3>4. Gone(refers, myDelegates, myDelegators, phase')
        <4> SUFFICES ASSUME NEW x \in Container, phase'[x] \in {"free", "destroyed"}
                     PROVE  /\ \A f \in FieldName : refers[<<x, f>>] = NoContainer
                            /\ myDelegates[x] = {} /\ myDelegators[x] = {}
                            /\ \A v \in Value : refers[v] # x
          BY DEF Gone
        <4>1. phase[x] \in {"free", "destroyed"}
          BY <2>6
        <4>2. x # NoContainer
          BY ResidencyAssumption
        <4>3. \A v \in Value : refers[v] # x
          BY <2>8, <4>1, <4>2
        <4> QED
          BY <4>1, <4>3 DEF IInv, Sound, Gone
      <3> QED
        BY <3>1, <3>2, <3>3, <3>4 DEF IInv, Sound
    <2>11. Rest(t, refers, external, myDelegates, myDelegators, phase')
      <3>1. \A i \in DOMAIN t : t[i].call = "FromTable" => phase'[t[i].container] = "alive"
        BY <1>5, <2>7 DEF Rest, Assigned, Assigns, Fresh
      <3> QED
        BY <1>5, <2>3, <3>1, PhaseKeeps
    <2>12. Pending(t, refers, external, myDelegates, myDelegators, phase')
      BY <2>4, <2>6, <2>11 DEF Pending
    <2>13. TypeOK'
      <3>1. phase' \in [Container -> Phases]
        BY <1>1, <2>1 DEF Phases
      <3>2. forCollection' \in SUBSET Container /\ orphans' \in SUBSET Container
        BY <2>1 DEF IInv, TypeOK
      <3> QED
        BY <1>2, <1>3, <1>6, <3>1, <3>2 DEF IInv, TypeOK, Phases
    <2>14. (forCollection = {x \in Container : Collected(x)})'
      BY <2>1, <2>4, <2>6 DEF Collected
    <2> QED
      BY <1>3, <1>4, <2>10, <2>12, <2>13, <2>14 DEF IInv
  <1> QED
    BY <1>7, <1>8

\* A value that referred to nothing refers to c.
LEMMA IncSound ==
    ASSUME NEW rf \in [Value -> Container \cup {NoContainer}],
           NEW rr \in [Container -> SUBSET Value], NEW ex, NEW md, NEW mr,
           NEW ph \in [Container -> Phases],
           Sound(rf, rr, ex, md, mr, ph),
           NEW v \in Value, rf[v] = NoContainer, NEW c \in Container, ph[c] = "alive",
           \A x \in Container, f \in FieldName : v = <<x, f>> => ph[x] = "alive"
    PROVE  Sound([rf EXCEPT ![v] = c], [rr EXCEPT ![c] = @ \cup {v}], ex, md, mr, ph)
  <1> DEFINE rf2 == [rf EXCEPT ![v] = c]
             rr2 == [rr EXCEPT ![c] = @ \cup {v}]
  <1>1. /\ rf2[v] = c /\ \A x \in Value : x # v => rf2[x] = rf[x]
        /\ rr2[c] = rr[c] \cup {v} /\ \A x \in Container : x # c => rr2[x] = rr[x]
    OBVIOUS
  <1>2. /\ \A x \in Container, f \in FieldName : <<x, f>> \in Value
        /\ \A u \in Slot : u \in Value
    BY DEF Value, Field, Slot
  <1>3. NoContainer \notin Container
    BY ResidencyAssumption
  <1> HIDE DEF rf2, rr2
  <1>4. Counted(rf2, rr2, ph)
    <2>0. \A x \in Container : ph[x] \in {"free", "destroyed"} => rr2[x] = {}
      BY <1>1 DEF Sound, Counted
    <2> SUFFICES ASSUME NEW x \in Container, ph[x] = "alive"
                 PROVE  rr2[x] = {u \in Value : rf2[u] = x}
      BY <2>0 DEF Counted
    <2>1. rr[x] = {u \in Value : rf[u] = x}
      BY DEF Sound, Counted
    <2>2. CASE x = c
      BY <1>1, <1>3, <2>1, <2>2
    <2>3. CASE x # c
      BY <1>1, <1>3, <2>1, <2>3
    <2> QED
      BY <2>2, <2>3
  <1>5. Rooted(rf2, ex, ph)
    BY <1>1, <1>2 DEF Sound, Rooted
  <1>6. Kept(rf2, md, ph)
    BY <1>1, <1>2 DEF Sound, Kept
  <1>7. Gone(rf2, md, mr, ph)
    <2> SUFFICES ASSUME NEW x \in Container, ph[x] \in {"free", "destroyed"}
                 PROVE  /\ \A f \in FieldName : rf2[<<x, f>>] = NoContainer
                        /\ md[x] = {} /\ mr[x] = {}
                        /\ ph[x] = "free" => \A u \in Value : rf2[u] # x
      BY DEF Gone
    <2>1. x # c /\ \A f \in FieldName : v # <<x, f>>
      OBVIOUS
    <2>2. /\ \A f \in FieldName : rf[<<x, f>>] = NoContainer
          /\ md[x] = {} /\ mr[x] = {}
          /\ ph[x] = "free" => \A u \in Value : rf[u] # x
      BY DEF Sound, Gone
    <2> QED
      BY <1>1, <1>2, <2>1, <2>2
  <1>8. Mutual(md, mr)
    BY DEF Sound
  <1> QED
    BY <1>4, <1>5, <1>6, <1>7, <1>8 DEF Sound, rf2, rr2

\* What is assigned is alive, and so is the container it is assigned to.
LEMMA IncKeeps ==
    ASSUME IInv, work # <<>>, Assigns(work[1]), NEW c \in Container \cup {NoContainer},
           c # NoContainer => phase[c] = "alive",
           IncRefCounter(work[1].to, c), work' = Tail(work),
           UNCHANGED <<external, delegation, collector>>
    PROVE  IInv'
  <1>1. /\ refers \in [Value -> Container \cup {NoContainer}]
        /\ referrers \in [Container -> SUBSET Value]
        /\ phase \in [Container -> Phases] /\ nesting \in Nat /\ work \in Seq(Call)
    BY DEF IInv, TypeOK, Phases
  <1> DEFINE t == Tail(work)
             v == work[1].to
  <1>2. /\ work[1] \in Call /\ 1 \in DOMAIN work /\ t \in Seq(Call)
        /\ \A i \in DOMAIN t : i \in Nat /\ i >= 1 /\ i + 1 \in DOMAIN work /\ t[i] = work[i + 1]
        /\ \A i \in DOMAIN work : i \in Nat /\ i >= 1
    BY <1>1, TailFacts
  <1>3. /\ v \in Value /\ Kills(work[1]) = {} /\ Dropped(work[1]) = {} /\ ~Exits(work[1])
    BY <1>2 DEF Assigns, Call, Kills, Dropped, Exits
  <1>4. UNCHANGED <<external, myDelegates, myDelegators, orphans, phase, nesting, forCollection>>
    BY DEF delegation, collector
  <1>5. /\ refers' = [refers EXCEPT ![v] = c]
        /\ referrers' = IF c = NoContainer THEN referrers
                        ELSE [referrers EXCEPT ![c] = @ \cup {v}]
    BY DEF IncRefCounter
  <1>6. /\ Rest(t, refers, external, myDelegates, myDelegators, phase)
        /\ \A x \in Container : Covers(work, x) => x \in Kills(work[1]) \/ Covers(t, x)
        /\ \A x \in Container, f \in FieldName :
              Empties(work, x, f) /\ refers[<<x, f>>] # NoContainer =>
                 x \in Kills(work[1]) \/ Empties(t, x, f)
    <2>1. \A u \in Dropped(work[1]) : refers[u] = NoContainer
      BY <1>3
    <2> QED
      BY <1>1, <2>1, TailKeeps DEF IInv, Pending
  <1>7. Nested(t, nesting)
    BY <1>1, <1>3, TailNested DEF IInv
  <1> HIDE DEF t
  <1>8. refers[v] = NoContainer
    BY <1>2 DEF IInv, Pending, Rest, Assigned
  <1>9. \A x \in Container, f \in FieldName : v = <<x, f>> => phase[x] = "alive"
    <2> SUFFICES ASSUME NEW x \in Container, NEW f \in FieldName, v = <<x, f>>
                 PROVE  phase[x] = "alive"
      OBVIOUS
    <2>1. Held(work, refers, 1, x)
      BY <1>2 DEF IInv, Pending, Rest, Assigned
    <2>2. x # NoContainer
      BY ResidencyAssumption
    <2> QED
      BY <2>1, <2>2 DEF Held, IInv, Sound, Rooted
  <1>10. \A i \in DOMAIN t : ~Assigns(t[i])
    <2> SUFFICES ASSUME NEW i \in DOMAIN t, Assigns(t[i])
                 PROVE  FALSE
      OBVIOUS
    <2>1. i + 1 = 1
      BY <1>2 DEF IInv, Pending, Rest, Assigned
    <2> QED
      BY <1>2, <2>1
  <1> HIDE DEF v
  <1>11. /\ refers'[v] = c /\ \A x \in Value : x # v => refers'[x] = refers[x]
         /\ \A x \in Container, f \in FieldName : <<x, f>> \in Value
         /\ \A u \in Slot : u \in Value
    BY <1>1, <1>3, <1>5 DEF Value, Field, Slot
  <1>12. Sound(refers', referrers', external, myDelegates, myDelegators, phase)
    <2>1. CASE c = NoContainer
      <3>1. refers' = refers /\ referrers' = referrers
        BY <1>1, <1>5, <1>8, <2>1
      <3> QED
        BY <3>1 DEF IInv
    <2>2. CASE c # NoContainer
      <3>1. c \in Container /\ phase[c] = "alive" /\ referrers' = [referrers EXCEPT ![c] = @ \cup {v}]
        BY <1>5, <2>2
      <3>2. Sound(refers, referrers, external, myDelegates, myDelegators, phase)
        BY DEF IInv
      <3>3. Sound([refers EXCEPT ![v] = c], [referrers EXCEPT ![c] = @ \cup {v}],
                  external, myDelegates, myDelegators, phase)
        BY <1>1, <1>3, <1>8, <1>9, <3>1, <3>2, IncSound
      <3> QED
        BY <1>5, <3>1, <3>3
    <2> QED
      BY <2>1, <2>2
  <1>13. Rest(t, refers', external, myDelegates, myDelegators, phase)
    <2>1. \A i : \A x \in Container : Held(t, refers, i, x) => Held(t, refers', i, x)
      BY <1>8, <1>11, ResidencyAssumption DEF Held
    <2>2. FieldsDropped(t, refers')
      BY <1>6, <2>1 DEF Rest, FieldsDropped
    <2>3. Assigned(t, refers', external, myDelegates, myDelegators, phase)
      BY <1>10 DEF Assigned
    <2> QED
      BY <1>6, <2>2, <2>3 DEF Rest
  <1>14. Pending(t, refers', external, myDelegates, myDelegators, phase)
    <2>1. \A x \in Container, f \in FieldName : phase[x] = "dying" => refers'[<<x, f>>] = refers[<<x, f>>]
      BY <1>9, <1>11
    <2> QED
      BY <1>3, <1>6, <1>13, <2>1 DEF IInv, Pending
  <1>15. TypeOK'
    <2>1. refers' \in [Value -> Container \cup {NoContainer}] /\ referrers' \in [Container -> SUBSET Value]
      BY <1>1, <1>3, <1>5
    <2> QED
      BY <1>2, <1>4, <2>1 DEF IInv, TypeOK, t
  <1>16. (forCollection = {x \in Container : Collected(x)})'
    BY <1>4 DEF IInv, Collected
  <1> QED
    BY <1>4, <1>7, <1>12, <1>14, <1>15, <1>16 DEF IInv, t

\* A new table is assigned.
LEMMA FromTableKeeps ==
    ASSUME IInv, work # <<>>, FromTable
    PROVE  IInv'
  <1>1. /\ work[1] \in Call /\ Head(work) = work[1] /\ 1 \in DOMAIN work
    BY TailFacts DEF IInv, TypeOK
  <1>2. /\ work[1].call = "FromTable" /\ Assigns(work[1])
        /\ IncRefCounter(work[1].to, work[1].container) /\ work' = Tail(work)
        /\ UNCHANGED <<external, delegation, collector>>
    BY <1>1 DEF FromTable, Todo, Assigns
  <1>3. work[1].container \in Container /\ phase[work[1].container] = "alive"
    BY <1>1, <1>2 DEF IInv, Pending, Rest, Assigned, Fresh
  <1> QED
    BY <1>2, <1>3, IncKeeps

\* A value is copied.
LEMMA AssignKeeps ==
    ASSUME IInv, work # <<>>, Assign
    PROVE  IInv'
  <1>1. /\ work[1] \in Call /\ Head(work) = work[1] /\ 1 \in DOMAIN work
    BY TailFacts DEF IInv, TypeOK
  <1> DEFINE v == work[1].from
  <1>2. /\ work[1].call = "Assign" /\ Assigns(work[1])
        /\ IncRefCounter(work[1].to, refers[v]) /\ work' = Tail(work)
        /\ UNCHANGED <<external, delegation, collector>>
    BY <1>1 DEF Assign, Todo, Assigns
  <1>3. v \in Value
    BY <1>1, <1>2 DEF Call
  <1>4. refers[v] \in Container \cup {NoContainer}
    BY <1>3 DEF IInv, TypeOK
  <1>5. ASSUME refers[v] # NoContainer
        PROVE  phase[refers[v]] = "alive"
    <2>1. CASE v \in Slot
      BY <1>5, <2>1 DEF IInv, Sound, Rooted
    <2>2. CASE v \in Field
      <3>1. PICK x \in Container, f \in FieldName : v = <<x, f>>
        BY <2>2 DEF Field
      <3>2. Held(work, refers, 1, x)
        BY <1>1, <1>2, <3>1 DEF IInv, Pending, Rest, Assigned
      <3>3. x # NoContainer
        BY ResidencyAssumption
      <3>4. phase[x] = "alive"
        BY <3>2, <3>3 DEF Held, IInv, Sound, Rooted
      <3> QED
        BY <1>5, <3>1, <3>4 DEF IInv, Sound, Kept
    <2> QED
      BY <1>3, <2>1, <2>2 DEF Value, Slot
  <1> HIDE DEF v
  <1> QED
    BY <1>2, <1>4, <1>5, IncKeeps

\* Every call of the collector.
LEMMA CollectKeeps ==
    ASSUME IInv, Collect
    PROVE  IInv'
  BY CollectGarbageKeeps, FromTableKeeps, AssignKeeps, ExplicitDestructorKeeps,
     SetCompletedKeeps, ExitingKeeps DEF Collect
-----------------------------------------------------------------------------
(* The steps of the program.                                               *)

\* When an instruction starts, no collection goes on and nothing is dying.
LEMMA Ready ==
    ASSUME IInv, work = <<>>
    PROVE  nesting = 0 /\ \A c \in Container : phase[c] # "dying"
  <1>1. \A c \in Container : ~Covers(work, c)
    BY DEF Covers
  <1>2. \A c \in Container : phase[c] # "dying"
    BY <1>1 DEF IInv, Pending
  <1>3. nesting \in Nat /\ \A d \in 1..nesting : FALSE
    BY DEF IInv, TypeOK, Nested
  <1>4. ~(1 \in 1..nesting)
    BY <1>3
  <1> QED
    BY <1>2, <1>3, <1>4

\* Two calls.
LEMMA PairFacts ==
    ASSUME NEW a \in Call, NEW b \in Call
    PROVE  LET w == <<a>> \o <<b>>
           IN  w \in Seq(Call) /\ Len(w) = 2 /\ DOMAIN w = {1, 2} /\ w[1] = a /\ w[2] = b
  <1> DEFINE p == <<a>>
             q == p \o <<b>>
  <1>1. p \in Seq(Call) /\ Len(p) = 1 /\ DOMAIN p = {1} /\ p[1] = a
    OBVIOUS
  <1> HIDE DEF p
  <1>2. q \in Seq(Call) /\ Len(q) = 2 /\ DOMAIN q = 1..2 /\ q[1] = a /\ q[2] = b
    BY <1>1, SnocFacts
  <1> HIDE DEF q
  <1>3. DOMAIN q = {1, 2}
    BY <1>2
  <1> QED
    BY <1>2, <1>3 DEF q, p

\* Three calls.
LEMMA TripleFacts ==
    ASSUME NEW a \in Call, NEW b \in Call, NEW d \in Call
    PROVE  LET w == <<a>> \o <<b>> \o <<d>>
           IN  w \in Seq(Call) /\ DOMAIN w = {1, 2, 3} /\ w[1] = a /\ w[2] = b /\ w[3] = d
  <1> DEFINE q == <<a>> \o <<b>>
             r == q \o <<d>>
  <1>1. q \in Seq(Call) /\ Len(q) = 2 /\ DOMAIN q = {1, 2} /\ q[1] = a /\ q[2] = b
    BY PairFacts
  <1> HIDE DEF q
  <1>2. r \in Seq(Call) /\ DOMAIN r = 1..3 /\ r[1] = a /\ r[2] = b /\ r[3] = d
    BY <1>1, SnocFacts
  <1> HIDE DEF r
  <1>3. DOMAIN r = {1, 2, 3}
    BY <1>2
  <1> QED
    BY <1>2, <1>3 DEF r, q

\* A value is dropped, assigned, and a C++ value is dropped.
Assigning(w, rf, ex, md, mr, ph) ==
    /\ DOMAIN w = {1, 2} \/ DOMAIN w = {1, 2, 3}
    /\ w[1].call = "CollectGarbage" /\ w[1].values = {w[2].to} /\ Assigns(w[2])
    /\ 3 \in DOMAIN w => w[3].call = "CollectGarbage" /\ w[3].values \subseteq Slot
    /\ \A x \in Container, f \in FieldName :
          \/ w[2].to = <<x, f>>
          \/ w[2].call = "Assign" /\ w[2].from = <<x, f>>
          => \E u \in Slot : u # w[2].to /\ rf[u] = x
    /\ w[2].call = "FromTable" => /\ w[2].to \in StackSlot /\ w[2].container \in Container
                                  /\ Fresh(w[2].container, rf, ex, md, mr, ph)

\* Such calls may be made when an instruction starts.
LEMMA AssignPending ==
    ASSUME NEW w \in Seq(Call), NEW rf, NEW ex, NEW md, NEW mr, NEW ph,
           Assigning(w, rf, ex, md, mr, ph),
           \A x \in Container : ph[x] # "dying"
    PROVE  Pending(w, rf, ex, md, mr, ph) /\ Nested(w, 0)
  <1> DEFINE v == w[2].to
  <1>1. /\ 1 \in DOMAIN w /\ 2 \in DOMAIN w
        /\ \A i \in DOMAIN w : i = 1 \/ i = 2 \/ i = 3
    BY DEF Assigning
  <1>2. /\ ~Assigns(w[1]) /\ ~Exits(w[1]) /\ Dropped(w[1]) = {v} /\ Kills(w[1]) = {}
        /\ \A x : ~Completes(w[1], x)
    BY DEF Assigning, Assigns, Exits, Dropped, Kills, Completes
  <1>3. /\ ~Exits(w[2]) /\ Dropped(w[2]) = {} /\ Kills(w[2]) = {}
        /\ \A x : ~Completes(w[2], x)
    BY DEF Assigning, Assigns, Exits, Dropped, Kills, Completes
  <1>4. 3 \in DOMAIN w => /\ ~Assigns(w[3]) /\ ~Exits(w[3]) /\ Dropped(w[3]) \subseteq Slot
                          /\ Kills(w[3]) = {} /\ \A x : ~Completes(w[3], x)
    BY DEF Assigning, Assigns, Exits, Dropped, Kills, Completes
  <1>5. \A i \in DOMAIN w : ~Exits(w[i]) /\ Kills(w[i]) = {} /\ \A x : ~Completes(w[i], x)
    BY <1>1, <1>2, <1>3, <1>4
  <1>6. Nested(w, 0)
    BY <1>5 DEF Nested
  <1>7. Ordered(w, ph) /\ Left(w, md, mr)
    BY <1>5 DEF Ordered, Left
  <1>8. \A x \in Container, f \in FieldName : <<x, f>> \notin Slot
    BY ResidencyAssumption DEF Field, Slot
  <1>9. \A x : (\E u \in Slot : u # v /\ rf[u] = x) => Held(w, rf, 1, x) /\ Held(w, rf, 2, x)
    <2> SUFFICES ASSUME NEW x, NEW u \in Slot, u # v, rf[u] = x
                 PROVE  Held(w, rf, 1, x) /\ Held(w, rf, 2, x)
      OBVIOUS
    <2>1. \A j \in DOMAIN w : j <= 2 => u \notin Dropped(w[j])
      BY <1>1, <1>2, <1>3
    <2>2. \A j \in DOMAIN w : j <= 1 => u \notin Dropped(w[j])
      BY <1>1, <1>2, <1>3
    <2> QED
      BY <2>1, <2>2 DEF Held
  <1>10. FieldsDropped(w, rf)
    <2> SUFFICES ASSUME NEW i \in DOMAIN w, NEW x \in Container, NEW f \in FieldName,
                        <<x, f>> \in Dropped(w[i])
                 PROVE  Held(w, rf, i, x)
      BY DEF FieldsDropped
    <2>1. i = 1 /\ v = <<x, f>>
      BY <1>1, <1>2, <1>3, <1>4, <1>8
    <2> QED
      BY <1>9, <2>1 DEF Assigning
  <1>11. Assigned(w, rf, ex, md, mr, ph)
    <2>1. \A i \in DOMAIN w : Assigns(w[i]) => i = 2
      BY <1>1, <1>2, <1>4
    <2>2. \E j \in DOMAIN w : j < 2 /\ w[2].to \in Dropped(w[j])
      BY <1>1, <1>2
    <2>3. \A x \in Container, f \in FieldName :
             \/ w[2].to = <<x, f>>
             \/ w[2].call = "Assign" /\ w[2].from = <<x, f>>
             => Held(w, rf, 2, x)
      BY <1>9 DEF Assigning
    <2>4. w[2].call = "FromTable" => /\ w[2].to \in StackSlot /\ w[2].container \in Container
                                     /\ Fresh(w[2].container, rf, ex, md, mr, ph)
      BY DEF Assigning
    <2>5. ASSUME NEW i \in DOMAIN w, Assigns(w[i])
          PROVE  /\ rf[w[i].to] # NoContainer => \E j \in DOMAIN w : j < i /\ w[i].to \in Dropped(w[j])
                 /\ \A x \in Container, f \in FieldName :
                       \/ w[i].to = <<x, f>>
                       \/ w[i].call = "Assign" /\ w[i].from = <<x, f>>
                       => Held(w, rf, i, x)
                 /\ w[i].call = "FromTable" =>
                       /\ w[i].to \in StackSlot /\ w[i].container \in Container
                       /\ Fresh(w[i].container, rf, ex, md, mr, ph)
      <3>1. i = 2
        BY <2>1, <2>5
      <3> QED
        BY <2>2, <2>3, <2>4, <3>1
    <2> QED
      BY <2>1, <2>5 DEF Assigned
  <1> QED
    BY <1>6, <1>7, <1>10, <1>11 DEF Pending, Rest

\* A new table: nobody refers to its memory.
LEMMA NewKeeps ==
    ASSUME IInv, NEW s \in StackSlot, NEW c \in Container, New(s, c)
    PROVE  IInv'
  <1> DEFINE d == [call |-> "CollectGarbage", values |-> {s}]
             r == [call |-> "FromTable", to |-> s, container |-> c]
  <1>1. /\ phase[c] = "free" /\ work = <<>> /\ phase' = [phase EXCEPT ![c] = "alive"]
        /\ UNCHANGED <<refers, referrers, external, myDelegates, myDelegators, orphans,
                       nesting, forCollection>>
    BY DEF New, Ask, values, delegation
  <1>2. nesting = 0 /\ \A x \in Container : phase[x] # "dying"
    BY <1>1, Ready
  <1>3. work' = <<d>> \o <<r>>
    BY DEF New, Ask, Drop, Refer
  <1>4. s \in Slot /\ s \in Value /\ d \in Call /\ r \in Call
        /\ d.call = "CollectGarbage" /\ d.values = {s}
        /\ r.call = "FromTable" /\ r.to = s /\ r.container = c /\ Assigns(r)
    BY DEF Slot, Value, Call, Assigns
  <1> HIDE DEF d, r
  <1>5. work' \in Seq(Call) /\ DOMAIN work' = {1, 2} /\ work'[1] = d /\ work'[2] = r
    BY <1>3, <1>4, PairFacts
  <1>6. \A x \in Container : phase'[x] = IF x = c THEN "alive" ELSE phase[x]
    BY <1>1 DEF IInv, TypeOK
  <1>7. /\ \A f \in FieldName : refers[<<c, f>>] = NoContainer
        /\ myDelegates[c] = {} /\ myDelegators[c] = {} /\ referrers[c] = {}
        /\ \A v \in Value : refers[v] # c
    BY <1>1 DEF IInv, Sound, Gone, Counted
  <1>8. /\ \A v \in Value : refers[v] # NoContainer => refers[v] \in Container
        /\ \A x \in Container, f \in FieldName : <<x, f>> \in Value
        /\ \A u \in Slot : u \in Value
        /\ \A x \in external : x \in Container
        /\ \A x \in Container : \A y \in myDelegates[x] : y \in Container
    BY DEF Value, Field, Slot, IInv, TypeOK
  <1>9. Sound(refers, referrers, external, myDelegates, myDelegators, phase')
    <2>1. Counted(refers, referrers, phase')
      BY <1>6, <1>7 DEF IInv, Sound, Counted
    <2>2. Rooted(refers, external, phase')
      BY <1>6, <1>8 DEF IInv, Sound, Rooted
    <2>3. Kept(refers, myDelegates, phase')
      BY <1>6, <1>7, <1>8 DEF IInv, Sound, Kept
    <2>4. Gone(refers, myDelegates, myDelegators, phase')
      BY <1>6 DEF IInv, Sound, Gone
    <2> QED
      BY <2>1, <2>2, <2>3, <2>4 DEF IInv, Sound
  <1>10. Fresh(c, refers, external, myDelegates, myDelegators, phase')
    <2>1. c \notin external
      BY <1>1 DEF IInv, Sound, Rooted
    <2> QED
      BY <1>6, <1>7, <2>1 DEF Fresh
  <1>11. Pending(work', refers, external, myDelegates, myDelegators, phase') /\ Nested(work', 0)
    <2>1. \A x \in Container : phase'[x] # "dying"
      BY <1>2, <1>6
    <2>2. \A x \in Container, f \in FieldName : s # <<x, f>>
      BY <1>4, ResidencyAssumption DEF Field, Slot
    <2>3. /\ work'[1].call = "CollectGarbage" /\ work'[1].values = {work'[2].to}
          /\ Assigns(work'[2]) /\ work'[2].to = s /\ work'[2].call = "FromTable"
          /\ work'[2].container = c
      BY <1>4, <1>5
    <2>4. Assigning(work', refers, external, myDelegates, myDelegators, phase')
      BY <1>5, <1>10, <2>2, <2>3 DEF Assigning
    <2> QED
      BY <1>5, <2>1, <2>4, AssignPending
  <1>12. TypeOK'
    BY <1>1, <1>5 DEF IInv, TypeOK
  <1>13. (forCollection = {x \in Container : Collected(x)})'
    BY <1>1, <1>6 DEF IInv, Collected
  <1> QED
    BY <1>1, <1>2, <1>9, <1>11, <1>12, <1>13 DEF IInv

\* An instruction that only asks the collector for something.
LEMMA AskKeeps ==
    ASSUME IInv, work = <<>>, UNCHANGED <<values, delegation, collector>>,
           work' \in Seq(Call), Nested(work', nesting),
           Pending(work', refers, external, myDelegates, myDelegators, phase)
    PROVE  IInv'
  <1>1. UNCHANGED <<refers, referrers, external, myDelegates, myDelegators, orphans,
                    phase, nesting, forCollection>>
    BY DEF values, delegation, collector
  <1>2. TypeOK'
    BY <1>1 DEF IInv, TypeOK
  <1>3. (forCollection = {x \in Container : Collected(x)})'
    BY <1>1 DEF IInv, Collected
  <1> QED
    BY <1>1, <1>2, <1>3 DEF IInv

\* v is dropped and assigned from u.
Reads(w, v, u) ==
    /\ w \in Seq(Call) /\ (DOMAIN w = {1, 2} \/ DOMAIN w = {1, 2, 3})
    /\ w[1].call = "CollectGarbage" /\ w[1].values = {v}
    /\ Assigns(w[2]) /\ w[2].call = "Assign" /\ w[2].to = v /\ w[2].from = u
    /\ 3 \in DOMAIN w => w[3].call = "CollectGarbage" /\ w[3].values \subseteq Slot

\* The calls of Copy, Get and GetInto.
LEMMA ReadFacts ==
    ASSUME NEW v \in Value, NEW u \in Value
    PROVE  /\ Reads(Drop(v) \o Read(v, u), v, u)
           /\ \A n \in Slot : Reads(Drop(v) \o Read(v, u) \o Drop(n), v, u)
  <1> DEFINE d == [call |-> "CollectGarbage", values |-> {v}]
             r == [call |-> "Assign", to |-> v, from |-> u]
  <1>1. /\ d \in Call /\ r \in Call
        /\ d.call = "CollectGarbage" /\ d.values = {v}
        /\ r.call = "Assign" /\ r.to = v /\ r.from = u /\ Assigns(r)
    BY DEF Call, Assigns
  <1>2. Drop(v) = <<d>> /\ Read(v, u) = <<r>>
    BY DEF Drop, Read
  <1> HIDE DEF d, r
  <1>3. Reads(Drop(v) \o Read(v, u), v, u)
    <2> DEFINE w == <<d>> \o <<r>>
    <2>1. w \in Seq(Call) /\ DOMAIN w = {1, 2} /\ w[1] = d /\ w[2] = r
      BY <1>1, PairFacts
    <2> HIDE DEF w
    <2>2. Reads(w, v, u)
      BY <1>1, <2>1 DEF Reads
    <2> QED
      BY <1>2, <2>2 DEF w
  <1>4. ASSUME NEW n \in Slot
        PROVE  Reads(Drop(v) \o Read(v, u) \o Drop(n), v, u)
    <2> DEFINE e == [call |-> "CollectGarbage", values |-> {n}]
               w == <<d>> \o <<r>> \o <<e>>
    <2>1. e \in Call /\ e.call = "CollectGarbage" /\ e.values = {n}
      BY DEF Call, Value, Slot
    <2>2. Drop(n) = <<e>>
      BY DEF Drop
    <2> HIDE DEF e
    <2>3. w \in Seq(Call) /\ DOMAIN w = {1, 2, 3} /\ w[1] = d /\ w[2] = r /\ w[3] = e
      BY <1>1, <2>1, TripleFacts
    <2> HIDE DEF w
    <2>4. Reads(w, v, u)
      BY <1>1, <2>1, <2>3 DEF Reads
    <2> QED
      BY <1>2, <2>2, <2>4 DEF w
  <1> QED
    BY <1>3, <1>4

\* A variable is copied to a variable or to a field of a table a variable holds.
LEMMA CopyKeeps ==
    ASSUME IInv, NEW v \in StackSlot \cup Field, NEW s \in StackSlot, Copy(v, s)
    PROVE  IInv'
  <1>1. /\ work = <<>> /\ work' = Drop(v) \o Read(v, s)
        /\ v \in Field => \E t \in StackSlot : refers[t] = v[1]
        /\ UNCHANGED <<values, delegation, collector>>
    BY DEF Copy, Ask
  <1>2. nesting = 0 /\ \A x \in Container : phase[x] # "dying"
    BY <1>1, Ready
  <1>3. v \in Value /\ s \in Value /\ s \in Slot
    BY DEF Value, Slot
  <1>4. \A x \in Container, f \in FieldName : <<x, f>> \in Field /\ <<x, f>> \notin Slot
    BY ResidencyAssumption DEF Field, Slot
  <1>5. Reads(work', v, s)
    BY <1>1, <1>3, ReadFacts
  <1>6. ASSUME NEW x \in Container, NEW f \in FieldName, v = <<x, f>>
        PROVE  \E u \in Slot : u # v /\ refers[u] = x
    BY <1>1, <1>4, <1>6 DEF Slot
  <1>7. Assigning(work', refers, external, myDelegates, myDelegators, phase)
    BY <1>3, <1>4, <1>5, <1>6 DEF Assigning, Reads
  <1> QED
    BY <1>1, <1>2, <1>5, <1>7, AssignPending, AskKeeps DEF Reads

\* The table whose field is read is held by another variable.
LEMMA GetKeeps ==
    ASSUME IInv, NEW s \in StackSlot, NEW t \in StackSlot, NEW f \in FieldName, Get(s, t, f)
    PROVE  IInv'
  <1> DEFINE c == refers[t]
  <1>1. /\ work = <<>> /\ work' = Drop(s) \o Read(s, <<c, f>>)
        /\ c # NoContainer /\ s # t
        /\ UNCHANGED <<values, delegation, collector>>
    BY DEF Get, Ask
  <1>2. nesting = 0 /\ \A x \in Container : phase[x] # "dying"
    BY <1>1, Ready
  <1>3. s \in Value /\ t \in Value /\ s \in Slot /\ t \in Slot
    BY DEF Value, Slot
  <1>4. c \in Container
    BY <1>1, <1>3 DEF IInv, TypeOK
  <1> HIDE DEF c
  <1>5. <<c, f>> \in Value /\ \A x \in Container, g \in FieldName : <<x, g>> \notin Slot
    BY <1>4, ResidencyAssumption DEF Value, Field, Slot
  <1>6. Reads(work', s, <<c, f>>)
    BY <1>1, <1>3, <1>5, ReadFacts
  <1>7. \A x \in Container, g \in FieldName : <<c, f>> = <<x, g>> =>
           \E u \in Slot : u # s /\ refers[u] = x
    BY <1>1, <1>3 DEF c
  <1>8. Assigning(work', refers, external, myDelegates, myDelegators, phase)
    BY <1>3, <1>5, <1>6, <1>7 DEF Assigning, Reads
  <1> QED
    BY <1>1, <1>2, <1>6, <1>8, AssignPending, AskKeeps DEF Reads

\* The table whose field is read is held by a C++ value.
LEMMA GetIntoKeeps ==
    ASSUME IInv, NEW t \in StackSlot, NEW f \in FieldName, NEW n \in NativeSlot, GetInto(t, f, n)
    PROVE  IInv'
  <1> DEFINE c == refers[t]
  <1>1. /\ work = <<>> /\ work' = Drop(t) \o Read(t, <<c, f>>) \o Drop(n)
        /\ c # NoContainer /\ refers[n] = NoContainer
        /\ IncRefCounter(n, c)
        /\ UNCHANGED <<external, delegation, collector>>
    BY DEF GetInto, Ask
  <1>2. nesting = 0 /\ \A x \in Container : phase[x] # "dying"
    BY <1>1, Ready
  <1>3. n \in Value /\ t \in Value /\ n \in Slot /\ t \in Slot /\ n # t
    BY ResidencyAssumption DEF Value, Slot
  <1>4. c \in Container /\ phase[c] = "alive"
    BY <1>1, <1>3 DEF IInv, TypeOK, Sound, Rooted
  <1> HIDE DEF c
  <1>5. <<c, f>> \in Value /\ \A x \in Container, g \in FieldName : <<x, g>> \notin Slot
    BY <1>4, ResidencyAssumption DEF Value, Field, Slot
  <1>6. Reads(work', t, <<c, f>>)
    BY <1>1, <1>3, <1>5, ReadFacts
  <1>7. /\ refers \in [Value -> Container \cup {NoContainer}]
        /\ referrers \in [Container -> SUBSET Value] /\ phase \in [Container -> Phases]
    BY DEF IInv, TypeOK, Phases
  <1>8. refers' = [refers EXCEPT ![n] = c] /\ referrers' = [referrers EXCEPT ![c] = @ \cup {n}]
    BY <1>1, <1>4, ResidencyAssumption DEF IncRefCounter
  <1>9. UNCHANGED <<external, myDelegates, myDelegators, orphans, phase, nesting, forCollection>>
    BY <1>1 DEF delegation, collector
  <1>10. Sound(refers', referrers', external, myDelegates, myDelegators, phase)
    <2>1. \A x \in Container, g \in FieldName : n = <<x, g>> => phase[x] = "alive"
      BY <1>3, <1>5
    <2>2. Sound(refers, referrers, external, myDelegates, myDelegators, phase)
      BY DEF IInv
    <2>3. Sound([refers EXCEPT ![n] = c], [referrers EXCEPT ![c] = @ \cup {n}],
                external, myDelegates, myDelegators, phase)
      BY <1>1, <1>3, <1>4, <1>7, <2>1, <2>2, IncSound
    <2> QED
      BY <1>8, <2>3
  <1>11. refers'[n] = c
    BY <1>3, <1>7, <1>8
  <1>12. \A x \in Container, g \in FieldName : <<c, f>> = <<x, g>> =>
            \E u \in Slot : u # t /\ refers'[u] = x
    BY <1>3, <1>11
  <1>13. Assigning(work', refers', external, myDelegates, myDelegators, phase)
    BY <1>3, <1>5, <1>6, <1>12 DEF Assigning, Reads
  <1>14. Pending(work', refers', external, myDelegates, myDelegators, phase) /\ Nested(work', 0)
    BY <1>2, <1>6, <1>13, AssignPending DEF Reads
  <1>15. TypeOK'
    <2>1. refers' \in [Value -> Container \cup {NoContainer}] /\ referrers' \in [Container -> SUBSET Value]
      BY <1>3, <1>4, <1>7, <1>8
    <2> QED
      BY <1>6, <1>9, <2>1 DEF IInv, TypeOK, Reads
  <1>16. (forCollection = {x \in Container : Collected(x)})'
    BY <1>9 DEF IInv, Collected
  <1> QED
    BY <1>2, <1>9, <1>10, <1>14, <1>15, <1>16 DEF IInv

\* A variable or a field of a table a variable holds is dropped.
LEMMA UndefineKeeps ==
    ASSUME IInv, NEW v \in StackSlot \cup Field, Undefine(v)
    PROVE  IInv'
  <1> DEFINE d == [call |-> "CollectGarbage", values |-> {v}]
  <1>1. /\ work = <<>> /\ work' = <<d>>
        /\ v \in Field => \E t \in StackSlot : refers[t] = v[1]
        /\ UNCHANGED <<values, delegation, collector>>
    BY DEF Undefine, Ask, Drop
  <1>2. nesting = 0 /\ \A x \in Container : phase[x] # "dying"
    BY <1>1, Ready
  <1>3. /\ d \in Call /\ Dropped(d) = {v} /\ Kills(d) = {} /\ ~Exits(d) /\ ~Assigns(d)
        /\ \A x : ~Completes(d, x)
    BY DEF Call, Value, Dropped, Kills, Exits, Assigns, Completes
  <1> HIDE DEF d
  <1>4. work' \in Seq(Call) /\ DOMAIN work' = {1} /\ work'[1] = d
    BY <1>1, <1>3
  <1>5. Nested(work', 0)
    BY <1>3, <1>4 DEF Nested
  <1>6. FieldsDropped(work', refers)
    <2> SUFFICES ASSUME NEW x \in Container, NEW f \in FieldName, v = <<x, f>>
                 PROVE  Held(work', refers, 1, x)
      BY <1>3, <1>4 DEF FieldsDropped
    <2>1. v \in Field /\ v \notin Slot
      BY ResidencyAssumption DEF Field, Slot
    <2>2. PICK t \in StackSlot : refers[t] = x
      BY <1>1, <2>1
    <2>3. t \in Slot /\ t # v
      BY <2>1 DEF Slot
    <2> QED
      BY <1>3, <1>4, <2>2, <2>3 DEF Held
  <1>7. Pending(work', refers, external, myDelegates, myDelegators, phase)
    BY <1>2, <1>3, <1>4, <1>6 DEF Pending, Rest, Ordered, Left, Assigned
  <1> QED
    BY <1>1, <1>2, <1>4, <1>5, <1>7, AskKeeps

\* The variables of a block go, in a collection of their own.
LEMMA DoExitBlockKeeps ==
    ASSUME IInv, NEW S \in SUBSET StackSlot, DoExitBlock(S)
    PROVE  IInv'
  <1> DEFINE d == [call |-> "CollectGarbage", values |-> S]
             e == [call |-> "Exiting", depth |-> nesting + 1]
  <1>1. /\ work = <<>> /\ work' = <<d>> \o <<e>> /\ nesting' = nesting + 1
        /\ UNCHANGED <<refers, referrers, external, myDelegates, myDelegators, orphans,
                       phase, forCollection>>
    BY DEF DoExitBlock, Ask, DropAll, Exit, values, delegation
  <1>2. nesting = 0 /\ \A x \in Container : phase[x] # "dying"
    BY <1>1, Ready
  <1>3. /\ d \in Call /\ Dropped(d) = S /\ Kills(d) = {} /\ ~Exits(d) /\ ~Assigns(d)
        /\ \A x : ~Completes(d, x)
    BY DEF Call, Value, Dropped, Kills, Exits, Assigns, Completes
  <1>4. /\ e \in Call /\ Dropped(e) = {} /\ Kills(e) = {} /\ Exits(e) /\ e.depth = 1 /\ ~Assigns(e)
        /\ \A x : ~Completes(e, x)
    BY <1>2 DEF Call, Dropped, Kills, Exits, Assigns, Completes
  <1> HIDE DEF d, e
  <1>5. work' \in Seq(Call) /\ DOMAIN work' = {1, 2} /\ work'[1] = d /\ work'[2] = e
    BY <1>1, <1>3, <1>4, PairFacts
  <1>6. \A i \in DOMAIN work' : i = 1 \/ i = 2
    BY <1>5
  <1>7. Nested(work', nesting')
    <2>0. ~Exits(work'[1]) /\ Exits(work'[2]) /\ work'[2].depth = 1
      BY <1>3, <1>4, <1>5
    <2>1. nesting' = 1 /\ \A i \in DOMAIN work' : Exits(work'[i]) => i = 2
      <3>1. nesting' = 1
        BY <1>1, <1>2
      <3>2. ASSUME NEW i \in DOMAIN work', Exits(work'[i]), i # 2
            PROVE  FALSE
        <4>1. i = 1
          BY <1>6, <3>2
        <4> QED
          BY <2>0, <3>2, <4>1
      <3> QED
        BY <3>1, <3>2
    <2>2. \A n \in 1..1 : n = 1
      OBVIOUS
    <2> QED
      BY <1>5, <2>0, <2>1, <2>2 DEF Nested
  <1>8. FieldsDropped(work', refers)
    <2>1. \A x \in Container, f \in FieldName : <<x, f>> \notin S
      BY ResidencyAssumption DEF Field
    <2> QED
      BY <1>3, <1>4, <1>5, <1>6, <2>1 DEF FieldsDropped
  <1>9. Pending(work', refers, external, myDelegates, myDelegators, phase)
    <2>1. \A i \in DOMAIN work' : /\ Kills(work'[i]) = {} /\ ~Assigns(work'[i])
                                  /\ \A x : ~Completes(work'[i], x)
      BY <1>3, <1>4, <1>5, <1>6
    <2> QED
      BY <1>2, <1>8, <2>1 DEF Pending, Rest, Ordered, Left, Assigned
  <1>10. TypeOK'
    BY <1>1, <1>5 DEF IInv, TypeOK
  <1>11. (forCollection = {x \in Container : Collected(x)})'
    BY <1>1 DEF IInv, Collected
  <1> QED
    BY <1>1, <1>7, <1>9, <1>10, <1>11 DEF IInv

\* What a delegation or an external count changes while nothing is pending.
LEMMA IdleKeeps ==
    ASSUME IInv, work = <<>>, work' = <<>>,
           UNCHANGED <<refers, referrers, orphans, collector>>, external' \in SUBSET Container,
           myDelegates' \in [Container -> SUBSET Container],
           myDelegators' \in [Container -> SUBSET Container],
           Mutual(myDelegates', myDelegators'), Rooted(refers, external', phase),
           Kept(refers, myDelegates', phase), Gone(refers, myDelegates', myDelegators', phase)
    PROVE  IInv'
  <1>1. nesting = 0 /\ \A x \in Container : phase[x] # "dying"
    BY Ready
  <1>2. UNCHANGED <<phase, nesting, forCollection>>
    BY DEF collector
  <1>3. Pending(work', refers, external', myDelegates', myDelegators', phase)
    BY <1>1 DEF Pending, Rest, Ordered, Left, FieldsDropped, Assigned
  <1>4. Nested(work', nesting)
    BY DEF IInv
  <1>5. Sound(refers, referrers, external', myDelegates', myDelegators', phase)
    BY DEF IInv, Sound
  <1>6. TypeOK'
    BY <1>2 DEF IInv, TypeOK
  <1>7. (forCollection = {x \in Container : Collected(x)})'
    BY <1>2 DEF IInv, Collected
  <1> QED
    BY <1>2, <1>3, <1>4, <1>5, <1>6, <1>7 DEF IInv

\* What a variable refers to is alive.
LEMMA HeldIsAlive ==
    ASSUME IInv, NEW x \in Container, \E t \in StackSlot : refers[t] = x
    PROVE  phase[x] = "alive"
  <1>1. PICK t \in StackSlot : refers[t] = x
    OBVIOUS
  <1>2. t \in Slot /\ x # NoContainer
    BY ResidencyAssumption DEF Slot
  <1> QED
    BY <1>1, <1>2 DEF IInv, Sound, Rooted

\* A delegation between two tables variables hold.
LEMMA DelegateKeeps ==
    ASSUME IInv, NEW a \in Container, NEW b \in Container, Delegate(a, b)
    PROVE  IInv'
  <1>1. /\ work = <<>> /\ work' = <<>>
        /\ myDelegates' = [myDelegates EXCEPT ![a] = @ \cup {b}]
        /\ myDelegators' = [myDelegators EXCEPT ![b] = @ \cup {a}]
        /\ UNCHANGED <<refers, referrers, external, orphans, collector>>
    BY DEF Delegate, Ask, values
  <1>2. /\ myDelegates \in [Container -> SUBSET Container]
        /\ myDelegators \in [Container -> SUBSET Container] /\ external \in SUBSET Container
    BY DEF IInv, TypeOK
  <1>3. phase[a] = "alive" /\ phase[b] = "alive"
    BY HeldIsAlive DEF Delegate
  <1>4. /\ \A x \in Container : myDelegates'[x] = IF x = a THEN myDelegates[a] \cup {b} ELSE myDelegates[x]
        /\ \A x \in Container : myDelegators'[x] = IF x = b THEN myDelegators[b] \cup {a} ELSE myDelegators[x]
        /\ myDelegates' \in [Container -> SUBSET Container]
        /\ myDelegators' \in [Container -> SUBSET Container]
    BY <1>1, <1>2
  <1>5. Mutual(myDelegates', myDelegators')
    <2>1. \A x, y \in Container :
             /\ y \in myDelegates'[x] <=> y \in myDelegates[x] \/ (x = a /\ y = b)
             /\ x \in myDelegators'[y] <=> x \in myDelegators[y] \/ (x = a /\ y = b)
      BY <1>4
    <2> QED
      BY <2>1 DEF IInv, Sound, Mutual
  <1>6. Kept(refers, myDelegates', phase)
    BY <1>3, <1>4 DEF IInv, Sound, Kept
  <1>7. Gone(refers, myDelegates', myDelegators', phase)
    BY <1>3, <1>4 DEF IInv, Sound, Gone
  <1>8. Rooted(refers, external', phase)
    BY <1>1 DEF IInv, Sound
  <1> QED
    BY <1>1, <1>2, <1>4, <1>5, <1>6, <1>7, <1>8, IdleKeeps

\* A delegation ends.
LEMMA UndelegateKeeps ==
    ASSUME IInv, NEW a \in Container, NEW b \in Container, Undelegate(a, b)
    PROVE  IInv'
  <1>1. /\ work = <<>> /\ work' = <<>>
        /\ myDelegates' = [myDelegates EXCEPT ![a] = @ \ {b}]
        /\ myDelegators' = [myDelegators EXCEPT ![b] = @ \ {a}]
        /\ UNCHANGED <<refers, referrers, external, orphans, collector>>
    BY DEF Undelegate, Ask, values
  <1>2. /\ myDelegates \in [Container -> SUBSET Container]
        /\ myDelegators \in [Container -> SUBSET Container] /\ external \in SUBSET Container
    BY DEF IInv, TypeOK
  <1>3. /\ \A x \in Container : myDelegates'[x] = IF x = a THEN myDelegates[a] \ {b} ELSE myDelegates[x]
        /\ \A x \in Container : myDelegators'[x] = IF x = b THEN myDelegators[b] \ {a} ELSE myDelegators[x]
        /\ myDelegates' \in [Container -> SUBSET Container]
        /\ myDelegators' \in [Container -> SUBSET Container]
    BY <1>1, <1>2
  <1>4. Mutual(myDelegates', myDelegators')
    <2>1. \A x, y \in Container :
             /\ y \in myDelegates'[x] <=> y \in myDelegates[x] /\ ~(x = a /\ y = b)
             /\ x \in myDelegators'[y] <=> x \in myDelegators[y] /\ ~(x = a /\ y = b)
      BY <1>3
    <2> QED
      BY <2>1 DEF IInv, Sound, Mutual
  <1>5. \A x \in Container : myDelegates'[x] \subseteq myDelegates[x] /\ myDelegators'[x] \subseteq myDelegators[x]
    BY <1>3
  <1>6. Kept(refers, myDelegates', phase)
    BY <1>5 DEF IInv, Sound, Kept
  <1>7. Gone(refers, myDelegates', myDelegators', phase)
    BY <1>5 DEF IInv, Sound, Gone
  <1>8. Rooted(refers, external', phase)
    BY <1>1 DEF IInv, Sound
  <1> QED
    BY <1>1, <1>2, <1>3, <1>4, <1>6, <1>7, <1>8, IdleKeeps

\* An external count of what a variable holds.
LEMMA IncExternalKeeps ==
    ASSUME IInv, NEW c \in Container, IncExternal(c)
    PROVE  IInv'
  <1>1. /\ work = <<>> /\ work' = <<>> /\ external' = external \cup {c}
        /\ UNCHANGED <<refers, referrers, myDelegates, myDelegators, orphans, collector>>
    BY DEF IncExternal, Ask, delegation
  <1>2. /\ myDelegates \in [Container -> SUBSET Container]
        /\ myDelegators \in [Container -> SUBSET Container] /\ external' \in SUBSET Container
    BY <1>1 DEF IInv, TypeOK
  <1>3. phase[c] = "alive"
    BY HeldIsAlive DEF IncExternal
  <1>4. Rooted(refers, external', phase)
    BY <1>1, <1>3 DEF IInv, Sound, Rooted
  <1>5. /\ Mutual(myDelegates', myDelegators') /\ Kept(refers, myDelegates', phase)
        /\ Gone(refers, myDelegates', myDelegators', phase)
    BY <1>1 DEF IInv, Sound
  <1> QED
    BY <1>1, <1>2, <1>4, <1>5, IdleKeeps

\* An external count less.
LEMMA DecExternalKeeps ==
    ASSUME IInv, NEW c \in Container, DecExternal(c)
    PROVE  IInv'
  <1>1. /\ c \in external /\ work = <<>> /\ external' = external \ {c}
        /\ refers' = refers /\ referrers' = referrers
        /\ TestReferencable(c, <<>>) /\ UNCHANGED delegation
    BY DEF DecExternal
  <1>2. /\ TypeOK /\ external' \in SUBSET Container
        /\ refers' \in [Value -> Container \cup {NoContainer}]
        /\ referrers' \in [Container -> SUBSET Value]
        /\ forCollection = {x \in Container : Collected(x)}
    BY <1>1 DEF IInv, TypeOK
  <1>3. Alive(c)
    BY <1>1 DEF IInv, Sound, Rooted, Alive
  <1>4. Sound(refers', referrers', external', myDelegates, myDelegators, phase)
    BY <1>1 DEF IInv, Sound, Rooted
  <1>5. /\ <<>> \in Seq(Call) /\ Nested(<<>>, nesting)
        /\ \A i \in DOMAIN <<>> : <<>>[i].call = "FromTable" => <<>>[i].container # c
    BY <1>1 DEF IInv
  <1>6. Pending(<<>>, refers', external', myDelegates, myDelegators, phase)
    <2>1. \A x \in Container : phase[x] # "dying"
      BY <1>1, Ready
    <2> QED
      BY <2>1 DEF Pending, Rest, Ordered, Left, FieldsDropped, Assigned
  <1> QED
    BY <1>1, <1>2, <1>3, <1>4, <1>5, <1>6, TestKeeps
-----------------------------------------------------------------------------
(* What it gives.                                                          *)

\* The invariant is inductive.
LEMMA Inductive ==
    Spec => []IInv
  <1>1. Init => IInv
    <2> SUFFICES ASSUME Init
                 PROVE  IInv
      OBVIOUS
    <2>1. TypeOK
      BY DEF Init, TypeOK
    <2>2. /\ \A v \in Value : refers[v] = NoContainer
          /\ \A c \in Container : /\ phase[c] = "free" /\ referrers[c] = {}
                                  /\ myDelegates[c] = {} /\ myDelegators[c] = {}
          /\ \A c \in Container, f \in FieldName : <<c, f>> \in Value
          /\ \A u \in Slot : u \in Value
          /\ external = {} /\ nesting = 0 /\ forCollection = {} /\ work = <<>>
      BY DEF Init, Value, Field, Slot
    <2>3. Sound(refers, referrers, external, myDelegates, myDelegators, phase)
      <3>1. Counted(refers, referrers, phase) /\ Mutual(myDelegates, myDelegators)
        BY <2>2 DEF Counted, Mutual
      <3>2. Rooted(refers, external, phase) /\ Kept(refers, myDelegates, phase)
        BY <2>2 DEF Rooted, Kept
      <3>3. Gone(refers, myDelegates, myDelegators, phase)
        BY <2>2, ResidencyAssumption DEF Gone
      <3> QED
        BY <3>1, <3>2, <3>3 DEF Sound
    <2>4. Pending(work, refers, external, myDelegates, myDelegators, phase)
      BY <2>2 DEF Pending, Rest, Ordered, Left, FieldsDropped, Assigned
    <2>5. Nested(work, nesting)
      BY <2>2 DEF Nested
    <2>6. forCollection = {c \in Container : Collected(c)}
      BY <2>2 DEF Collected
    <2> QED
      BY <2>1, <2>3, <2>4, <2>5, <2>6 DEF IInv
  <1>2. IInv /\ [Next]_vars => IInv'
    <2> SUFFICES ASSUME IInv, [Next]_vars
                 PROVE  IInv'
      OBVIOUS
    <2>1. CASE Collect
      BY <2>1, CollectKeeps
    <2>2. CASE Program
      <3>1. CASE \E s \in StackSlot, c \in Container : New(s, c)
        BY <3>1, NewKeeps
      <3>2. CASE \E v \in StackSlot \cup Field, s \in StackSlot : Copy(v, s)
        BY <3>2, CopyKeeps
      <3>3. CASE \E s, t \in StackSlot, f \in FieldName : Get(s, t, f)
        BY <3>3, GetKeeps
      <3>4. CASE \E t \in StackSlot, f \in FieldName, n \in NativeSlot : GetInto(t, f, n)
        BY <3>4, GetIntoKeeps
      <3>5. CASE \E v \in StackSlot \cup Field : Undefine(v)
        BY <3>5, UndefineKeeps
      <3>6. CASE \E S \in SUBSET StackSlot : DoExitBlock(S)
        BY <3>6, DoExitBlockKeeps
      <3>7. CASE \E a, b \in Container : Delegate(a, b) \/ Undelegate(a, b)
        BY <3>7, DelegateKeeps, UndelegateKeeps
      <3>8. CASE \E c \in Container : IncExternal(c) \/ DecExternal(c)
        BY <3>8, IncExternalKeeps, DecExternalKeeps
      <3> QED
        BY <2>2, <3>1, <3>2, <3>3, <3>4, <3>5, <3>6, <3>7, <3>8 DEF Program
    <2>3. CASE UNCHANGED vars
      <3>1. UNCHANGED <<refers, referrers, external, myDelegates, myDelegators, orphans,
                        phase, nesting, forCollection, work>>
        BY <2>3 DEF vars, values, delegation, collector
      <3>2. TypeOK'
        BY <3>1 DEF IInv, TypeOK
      <3>3. (forCollection = {c \in Container : Collected(c)})'
        BY <3>1 DEF IInv, Collected
      <3> QED
        BY <3>1, <3>2, <3>3 DEF IInv
    <2> QED
      BY <2>1, <2>2, <2>3 DEF Next
  <1> QED
    BY <1>1, <1>2, PTL DEF Spec

\* The types of the variables, the calls still to be made included.
THEOREM CollectorTypeOK == Spec => []TypeOK
  BY Inductive, PTL DEF IInv

\* Counters, referrers, delegates and delegators agree in the middle of every
\* collection.
THEOREM CollectorCountersAgree == Spec => []CountersAgree
  <1>1. IInv => CountersAgree
    <2> SUFFICES ASSUME IInv
                 PROVE  CountersAgree
      OBVIOUS
    <2>1. \A c \in Container : Alive(c) => referrers[c] = {v \in Value : refers[v] = c}
      BY DEF IInv, Sound, Counted, Alive
    <2>2. \A a, b \in Container : b \in myDelegates[a] <=> a \in myDelegators[b]
      BY DEF IInv, Sound, Mutual
    <2>3. ASSUME NEW a \in Container, NEW b \in Container, a \in myDelegators[b], Collected(b)
          PROVE  Collected(a)
      <3>1. b \in myDelegates[a] /\ phase[b] # "alive"
        BY <2>2, <2>3 DEF Collected
      <3>2. phase[a] # "alive" /\ phase[a] # "free" /\ phase[a] \in Phases
        BY <3>1 DEF IInv, Sound, Kept, Gone, TypeOK, Phases
      <3> QED
        BY <3>2 DEF Collected, Phases
    <2> QED
      BY <2>1, <2>2, <2>3 DEF CountersAgree
  <1> QED
    BY <1>1, Inductive, PTL

\* Whatever the program reaches is alive: what is alive holds the roots and is closed
\* under what it refers and delegates to.
THEOREM CollectorReachableIsAlive == Spec => []ReachableIsAlive
  <1>1. IInv => ReachableIsAlive
    <2> SUFFICES ASSUME IInv
                 PROVE  ReachableIsAlive
      OBVIOUS
    <2> DEFINE S == {x \in Container : Alive(x)}
    <2>1. Roots \subseteq S
      <3>1. \A u \in Slot : refers[u] # NoContainer => refers[u] \in S
        BY DEF IInv, Sound, Rooted, TypeOK, Value, Slot, Alive
      <3>2. \A x \in external : x \in S
        BY DEF IInv, Sound, Rooted, TypeOK, Alive
      <3> QED
        BY <3>1, <3>2 DEF Roots, Slot
    <2>2. ASSUME NEW y \in S
          PROVE  Targets(y) \subseteq S
      <3>1. \A f \in FieldName : <<y, f>> \in Value
        BY DEF Value, Field
      <3>2. \A f \in FieldName : refers[<<y, f>>] # NoContainer => refers[<<y, f>>] \in S
        BY <3>1 DEF IInv, Sound, Kept, TypeOK, Alive
      <3>3. myDelegates[y] \subseteq S
        BY DEF IInv, Sound, Kept, TypeOK, Alive
      <3> QED
        BY <3>2, <3>3 DEF Targets
    <2>3. \A c \in ReachableFrom(Roots) : c \in S
      BY <2>1, <2>2 DEF ReachableFrom
    <2> QED
      BY <2>3 DEF ReachableIsAlive
  <1> QED
    BY <1>1, Inductive, PTL

\* Freed memory is not referred to, and no call that is still to be made touches it.
THEOREM CollectorNothingFreedIsUsed == Spec => []NothingFreedIsUsed
  <1>1. IInv => NothingFreedIsUsed
    <2> SUFFICES ASSUME IInv, NEW c \in Container, phase[c] = "free"
                 PROVE  /\ \A v \in Value : refers[v] # c
                        /\ \A x \in Container : c \notin myDelegates[x] \cup myDelegators[x]
                        /\ \A i \in DOMAIN work : c \notin Touched(work[i])
      BY DEF NothingFreedIsUsed
    <2>1. \A v \in Value : refers[v] # c
      BY DEF IInv, Sound, Gone
    <2>2. \A x \in Container : c \notin myDelegates[x] \cup myDelegators[x]
      BY DEF IInv, Sound, Gone, Mutual
    <2>3. \A u \in Slot : refers[u] # c
      BY <2>1 DEF Value, Slot
    <2>4. \A i \in DOMAIN work : c \notin Kills(work[i])
      BY DEF IInv, Pending, Rest, Ordered
    <2>5. \A i \in DOMAIN work : ~Held(work, refers, i, c)
      BY <2>3 DEF Held
    <2>6. \A i \in DOMAIN work : ~Completes(work[i], c)
      BY <2>4 DEF Completes, Kills
    <2> SUFFICES ASSUME NEW i \in DOMAIN work
                 PROVE  c \notin Touched(work[i])
      BY <2>1, <2>2
    <2>7. work[i] \in Call
      BY DEF IInv, TypeOK
    <2>8. CASE work[i].call = "CollectGarbage"
      <3>1. \A f \in FieldName : <<c, f>> \notin work[i].values
        BY <2>5, <2>6, <2>8 DEF IInv, Pending, Rest, FieldsDropped, Dropped
      <3>2. \A v \in work[i].values : c \notin HolderOf(v)
        BY <3>1 DEF HolderOf
      <3> QED
        BY <2>8, <3>2 DEF Touched
    <2>9. CASE Assigns(work[i])
      <3>1. \A f \in FieldName :
               /\ work[i].to # <<c, f>>
               /\ work[i].call = "Assign" => work[i].from # <<c, f>>
        BY <2>5, <2>9 DEF IInv, Pending, Rest, Assigned
      <3>2. work[i].call = "FromTable" => work[i].container # c
        BY <2>9 DEF IInv, Pending, Rest, Assigned, Fresh
      <3> QED
        BY <2>9, <3>1, <3>2 DEF Touched, HolderOf, Assigns
    <2>10. CASE work[i].call \in {"ExplicitDestructor", "SetCompleted", "Exiting"}
      BY <2>4, <2>10 DEF Touched, Kills
    <2> QED
      BY <2>7, <2>8, <2>9, <2>10 DEF Call, Assigns
  <1> QED
    BY <1>1, Inductive, PTL

\* A container dies, is destroyed and is freed in this order, and once.
DiesInOrderStep ==
    \A c \in Container :
       phase'[c] # phase[c] =>
          <<phase[c], phase'[c]>> \in {<<"free", "alive">>, <<"alive", "dying">>,
                                       <<"dying", "destroyed">>, <<"destroyed", "free">>}

\* TestReferencable lets what was alive die.
LEMMA TestDies ==
    ASSUME IInv, NEW t, NEW c \in Container, TestReferencable(c, t)
    PROVE  DiesInOrderStep
  <1>1. CASE UNCHANGED collector
    BY <1>1 DEF collector, DiesInOrderStep
  <1>2. CASE phase' = [x \in Container |-> IF x \in Garbage(referrers', c) THEN "dying" ELSE phase[x]]
    BY <1>2 DEF Garbage, Alive, DiesInOrderStep
  <1> QED
    BY <1>1, <1>2 DEF TestReferencable

\* Containers die once, in this order: memory is freed after all destructors of the
\* collection have run.
THEOREM CollectorDiesInOrder == Spec => DiesInOrder
  <1>1. IInv /\ [Next]_vars => DiesInOrderStep
    <2> SUFFICES ASSUME IInv, [Next]_vars
                 PROVE  DiesInOrderStep
      OBVIOUS
    <2>1. phase \in [Container -> Phases]
      BY DEF IInv, TypeOK, Phases
    <2>2. CASE UNCHANGED phase
      BY <2>2 DEF DiesInOrderStep
    <2>3. CASE work # <<>> /\ CollectGarbage
      <3>1. Todo \in Call /\ Todo.call = "CollectGarbage"
        BY <2>3, TailFacts DEF Todo, CollectGarbage, IInv, TypeOK
      <3>2. PICK v \in Todo.values :
               LET later == DropAll(Todo.values \ {v}) \o Tail(work)
               IN  IF refers[v] = NoContainer
                   THEN work' = later /\ UNCHANGED <<referrers, collector>>
                   ELSE DecRefCounter(refers[v], v, later)
        BY <2>3 DEF CollectGarbage
      <3>3. v \in Value
        BY <3>1 DEF Call
      <3>4. CASE UNCHANGED collector
        BY <2>2, <3>4 DEF collector
      <3>5. ASSUME refers[v] # NoContainer, NEW t, TestReferencable(refers[v], t)
            PROVE  DiesInOrderStep
        <4>1. refers[v] \in Container
          BY <3>3, <3>5 DEF IInv, TypeOK
        <4> QED
          BY <3>5, <4>1, TestDies
      <3> QED
        BY <3>2, <3>4, <3>5 DEF DecRefCounter
    <2>4. CASE work # <<>> /\ SetCompleted
      <3> DEFINE c == work[1].container
      <3>1. /\ work[1] \in Call /\ Head(work) = work[1] /\ 1 \in DOMAIN work
        BY <2>4, TailFacts DEF IInv, TypeOK
      <3>2. work[1].call = "SetCompleted" /\ phase' = [phase EXCEPT ![c] = "destroyed"]
        BY <2>4, <3>1 DEF SetCompleted, Todo
      <3>3. c \in Container /\ c \in Kills(work[1])
        BY <3>1, <3>2 DEF Call, Kills
      <3>4. phase[c] = "dying"
        BY <3>1, <3>3 DEF IInv, Pending, Rest, Ordered
      <3> HIDE DEF c
      <3>5. \A x \in Container : phase'[x] = IF x = c THEN "destroyed" ELSE phase[x]
        BY <2>1, <3>2
      <3> QED
        BY <3>4, <3>5 DEF DiesInOrderStep
    <2>5. CASE work # <<>> /\ Exiting
      <3>1. CASE nesting # 1
        BY <2>2, <2>5, <3>1 DEF Exiting
      <3>2. CASE nesting = 1
        <4>1. \A x \in Container : phase[x] # "dying"
          BY <2>5, <3>2, NoneDying
        <4>2. phase' = [x \in Container |-> IF x \in forCollection THEN "free" ELSE phase[x]]
          BY <2>5, <3>2 DEF Exiting
        <4>3. \A x \in Container : x \in forCollection => phase[x] = "destroyed"
          BY <4>1 DEF IInv, Collected
        <4> QED
          BY <4>2, <4>3 DEF DiesInOrderStep
      <3> QED
        BY <3>1, <3>2
    <2>6. ASSUME NEW s \in StackSlot, NEW c \in Container, New(s, c)
          PROVE  DiesInOrderStep
      <3>1. phase[c] = "free" /\ \A x \in Container : phase'[x] = IF x = c THEN "alive" ELSE phase[x]
        BY <2>1, <2>6 DEF New
      <3> QED
        BY <3>1 DEF DiesInOrderStep
    <2>7. ASSUME NEW c \in Container, DecExternal(c)
          PROVE  DiesInOrderStep
      BY <2>7, TestDies DEF DecExternal
    <2>8. CASE Program
      BY <2>2, <2>6, <2>7, <2>8 DEF Program, Copy, Get, GetInto, Undefine, DoExitBlock,
            Delegate, Undelegate, IncExternal, collector
    <2>9. CASE Collect
      BY <2>2, <2>3, <2>4, <2>5, <2>9 DEF Collect, FromTable, Assign, ExplicitDestructor, collector
    <2> QED
      BY <2>2, <2>8, <2>9 DEF Next, vars, collector
  <1>2. IInv /\ [Next]_vars =>
           [\A c \in Container :
               phase'[c] # phase[c] =>
                  <<phase[c], phase'[c]>> \in {<<"free", "alive">>, <<"alive", "dying">>,
                                               <<"dying", "destroyed">>, <<"destroyed", "free">>}]_vars
    BY <1>1 DEF DiesInOrderStep
  <1> QED
    BY <1>2, Inductive, PTL DEF Spec, DiesInOrder
-----------------------------------------------------------------------------
(***************************************************************************)
(* Nothing is lost.  The converse of ReachableIsAlive is no invariant while*)
(* instructions run: what a collection cuts off is alive for a while.  But *)
(* every container that is alive can be reached, downwards, from an anchor:*)
(* what is held from outside, an orphan, what is dying (it still drops its *)
(* fields) and a new container that is about to be assigned.               *)
(***************************************************************************)
Awaited(w, c) == \E i \in DOMAIN w : w[i].call = "FromTable" /\ w[i].container = c
Anchors ==
    {c \in Container :
        \/ c \in external \cup orphans
        \/ phase[c] = "dying"
        \/ \E u \in Slot : refers[u] = c
        \/ Awaited(work, c)}
Leads(a, b)  == (\E f \in FieldName : refers[<<a, f>>] = b) \/ b \in myDelegates[a]
Downward(S)  == \A a \in S, b \in Container : Leads(a, b) => b \in S
Around(S)    == Anchors \subseteq S /\ Downward(S)
NoneAstray   == \A S \in SUBSET Container : Around(S) =>
                   \A c \in Container : phase[c] = "alive" => c \in S
NoLeak       == NoneAstray /\ (nesting = 0 => forCollection = {})

\* X is out of use in the next state.  What was an anchor, or was led to, and is no
\* more, is in X or in Y, which can be reached.
LEMMA NoneAstrayKeeps ==
    ASSUME NoneAstray, NEW X \in SUBSET Container, NEW Y \in SUBSET Container,
           \A S \in SUBSET Container : Around(S)' => Y \subseteq S,
           Anchors \subseteq X \cup Y,
           \A a, b \in Container : Leads(a, b) => b \in X \cup Y \/ (a \notin X /\ Leads(a, b)'),
           \A c \in Container : phase'[c] = "alive" => (phase[c] = "alive" /\ c \notin X) \/ c \in Y
    PROVE  NoneAstray'
  <1> SUFFICES ASSUME NEW S \in SUBSET Container, Around(S)', NEW c \in Container, phase'[c] = "alive"
               PROVE  c \in S
    BY DEF NoneAstray
  <1> DEFINE T == S \cup X
  <1>1. Y \subseteq S
    OBVIOUS
  <1>2. Anchors \subseteq T
    BY <1>1
  <1>3. Downward(T)
    <2> SUFFICES ASSUME NEW a \in T, NEW b \in Container, Leads(a, b)
                 PROVE  b \in T
      BY DEF Downward
    <2>1. CASE b \in X \cup Y
      BY <1>1, <2>1
    <2>2. CASE a \notin X /\ Leads(a, b)'
      <3>1. \A x \in S, y \in Container : Leads(x, y)' => y \in S
        BY DEF Around, Downward
      <3> QED
        BY <2>2, <3>1
    <2> QED
      BY <2>1, <2>2
  <1>4. phase[c] = "alive" => c \in T
    BY <1>2, <1>3 DEF NoneAstray, Around
  <1> QED
    BY <1>1, <1>4

\* The usual case: what is lost is an anchor.
LEMMA AnchorsGrow ==
    ASSUME NoLeak, Anchors \subseteq Anchors',
           \A a, b \in Container : Leads(a, b) => Leads(a, b)' \/ b \in Anchors',
           \A c \in Container : phase'[c] = "alive" => phase[c] = "alive" \/ c \in Anchors',
           nesting' = 0 => forCollection' = {}
    PROVE  NoLeak'
  <1> DEFINE A == Anchors'
  <1>1. /\ A \in SUBSET Container
        /\ \A S \in SUBSET Container : Around(S)' => A \subseteq S
    BY DEF Anchors, Around
  <1> HIDE DEF A
  <1>2. /\ Anchors \subseteq {} \cup A
        /\ \A a, b \in Container : Leads(a, b) => b \in {} \cup A \/ (a \notin {} /\ Leads(a, b)')
        /\ \A c \in Container : phase'[c] = "alive" => (phase[c] = "alive" /\ c \notin {}) \/ c \in A
    BY DEF A
  <1>3. NoneAstray'
    BY <1>1, <1>2, NoneAstrayKeeps DEF NoLeak
  <1> QED
    BY <1>3 DEF NoLeak

\* A container that is about to be assigned is so when another call is over, and
\* behind other calls.
LEMMA AwaitedTail ==
    ASSUME NEW w \in Seq(Call), w # <<>>, w[1].call # "FromTable", NEW c, Awaited(w, c)
    PROVE  Awaited(Tail(w), c)
  <1>1. PICK i \in DOMAIN w : w[i].call = "FromTable" /\ w[i].container = c
    BY DEF Awaited
  <1>2. i - 1 \in DOMAIN Tail(w) /\ Tail(w)[i - 1] = w[i]
    BY <1>1, TailFacts
  <1> QED
    BY <1>1, <1>2 DEF Awaited

LEMMA AwaitedFront ==
    ASSUME NEW p \in Seq(Call), NEW t \in Seq(Call), NEW c, Awaited(t, c)
    PROVE  Awaited(p \o t, c)
  <1>1. PICK i \in DOMAIN t : t[i].call = "FromTable" /\ t[i].container = c
    BY DEF Awaited
  <1> DEFINE j == i + Len(p)
  <1>2. j \in DOMAIN (p \o t) /\ (p \o t)[j] = t[i]
    BY FrontFacts
  <1> HIDE DEF j
  <1> QED
    BY <1>1, <1>2 DEF Awaited

\* The first call, one that assigns, is over.
LEMMA IncLeak ==
    ASSUME IInv, NoLeak, work # <<>>, Assigns(work[1]), NEW c \in Container \cup {NoContainer},
           IncRefCounter(work[1].to, c), work' = Tail(work),
           work[1].call = "FromTable" => c = work[1].container,
           UNCHANGED <<external, delegation, collector>>
    PROVE  NoLeak'
  <1>1. /\ refers \in [Value -> Container \cup {NoContainer}] /\ work \in Seq(Call)
        /\ UNCHANGED <<external, myDelegates, orphans, phase, nesting, forCollection>>
    BY DEF IInv, TypeOK, delegation, collector
  <1>2. /\ work[1] \in Call /\ 1 \in DOMAIN work
        /\ \A i \in DOMAIN work : i \in Nat /\ i >= 1
        /\ \A i \in DOMAIN work : i # 1 => i - 1 \in DOMAIN Tail(work) /\ Tail(work)[i - 1] = work[i]
    BY <1>1, TailFacts
  <1> DEFINE v == work[1].to
  <1>3. v \in Value
    BY <1>2 DEF Assigns, Call
  <1>4. refers[v] = NoContainer
    BY <1>2 DEF IInv, Pending, Rest, Assigned
  <1>5. work[1].call = "FromTable" => v \in Slot
    BY <1>2 DEF IInv, Pending, Rest, Assigned, Assigns, Slot
  <1>6. refers' = [refers EXCEPT ![v] = c]
    BY DEF IncRefCounter
  <1> HIDE DEF v
  <1>7. /\ refers'[v] = c
        /\ \A u \in Value : u # v => refers'[u] = refers[u]
    BY <1>1, <1>3, <1>6
  <1>8. \A u \in Value : refers[u] # NoContainer => refers'[u] = refers[u]
    BY <1>4, <1>7
  <1>9. /\ \A x \in Container : x # NoContainer
        /\ \A x \in Container, f \in FieldName : <<x, f>> \in Value
        /\ \A u \in Slot : u \in Value
    BY ResidencyAssumption DEF Value, Field, Slot
  <1>10. Anchors \subseteq Anchors'
    <2> SUFFICES ASSUME NEW x \in Anchors
                 PROVE  x \in Anchors'
      OBVIOUS
    <2>0. x \in Container
      BY DEF Anchors
    <2>1. CASE x \in external \cup orphans \/ phase[x] = "dying"
      BY <1>1, <2>0, <2>1 DEF Anchors
    <2>2. CASE \E u \in Slot : refers[u] = x
      <3>1. \E u \in Slot : refers'[u] = x
        BY <1>8, <1>9, <2>0, <2>2
      <3> QED
        BY <2>0, <3>1 DEF Anchors
    <2>3. CASE Awaited(work, x)
      <3>0. PICK i \in DOMAIN work : work[i].call = "FromTable" /\ work[i].container = x
        BY <2>3 DEF Awaited
      <3>1. CASE i = 1
        <4>1. v \in Slot /\ refers'[v] = x
          BY <1>5, <1>7, <3>0, <3>1
        <4> QED
          BY <2>0, <4>1 DEF Anchors
      <3>2. CASE i # 1
        <4>1. i - 1 \in DOMAIN work' /\ work'[i - 1] = work[i]
          BY <1>2, <3>2
        <4> QED
          BY <2>0, <3>0, <4>1 DEF Anchors, Awaited
      <3> QED
        BY <3>1, <3>2
    <2> QED
      BY <2>1, <2>2, <2>3 DEF Anchors
  <1>11. \A a, b \in Container : Leads(a, b) => Leads(a, b)'
    BY <1>1, <1>8, <1>9 DEF Leads
  <1>12. nesting' = 0 => forCollection' = {}
    BY <1>1 DEF NoLeak
  <1>13. \A x \in Container : phase'[x] = "alive" => phase[x] = "alive"
    BY <1>1
  <1> QED
    BY <1>10, <1>11, <1>12, <1>13, AnchorsGrow

\* A container that is tested anchors nothing any more: it is found from above, or
\* it is dying.
LEMMA TestLeak ==
    ASSUME TypeOK, NoLeak, NEW t \in Seq(Call), NEW c \in Container, Alive(c),
           refers' \in [Value -> Container \cup {NoContainer}],
           referrers' \in [Container -> SUBSET Value],
           UNCHANGED delegation,
           Sound(refers', referrers', external', myDelegates, myDelegators, phase),
           \A x \in Container : x \in external => x = c \/ x \in external',
           \A x \in Container, u \in Slot : refers[u] = x => x = c \/ refers'[u] = x,
           \A x \in Container : Awaited(work, x) => Awaited(t, x),
           \A x, y \in Container : Leads(x, y) => y = c \/ Leads(x, y)',
           TestReferencable(c, t)
    PROVE  NoLeak'
  <1>0. /\ UNCHANGED <<myDelegates, myDelegators, orphans>> /\ phase[c] = "alive"
        /\ phase \in [Container -> Phases] /\ nesting \in Nat
        /\ myDelegates \in [Container -> SUBSET Container]
        /\ myDelegators \in [Container -> SUBSET Container]
    BY DEF delegation, Alive, TypeOK, Phases
  <1>1. /\ \A x \in Container : phase[x] = "dying" => phase'[x] = "dying"
        /\ \A x \in Container : phase'[x] = "alive" => phase[x] = "alive"
        /\ nesting' = 0 => forCollection' = {}
    <2>1. CASE UNCHANGED collector
      BY <2>1 DEF collector, NoLeak
    <2>2. CASE ~UNCHANGED collector
      <3> DEFINE G == Garbage(referrers', c)
      <3>1. /\ phase' = [x \in Container |-> IF x \in G THEN "dying" ELSE phase[x]]
            /\ nesting' = nesting + 1
        BY <2>2 DEF TestReferencable
      <3> HIDE DEF G
      <3>2. \A x \in Container : phase'[x] = IF x \in G THEN "dying" ELSE phase[x]
        BY <3>1
      <3>3. nesting' # 0
        BY <1>0, <3>1
      <3> QED
        BY <3>2, <3>3
    <2> QED
      BY <2>1, <2>2
  <1>2. \A x \in Container : Awaited(t, x) => Awaited(work', x)
    <2>1. CASE IsReferencable(referrers', external', c)
      BY <2>1 DEF TestReferencable
    <2>2. CASE ~IsReferencable(referrers', external', c)
      <3> DEFINE G == Garbage(referrers', c)
                 p == DestroyAll({c}) \o DestroyAll(G \ {c}) \o Exit(nesting + 1)
      <3>1. work' = p \o t
        BY <2>2 DEF TestReferencable
      <3>2. c \in G /\ G \in SUBSET Container
        BY <1>0, <2>2, GarbageFacts
      <3> HIDE DEF G
      <3>3. p \in Seq(Call)
        BY <1>0, <3>2, DestroyFacts
      <3> HIDE DEF p
      <3> QED
        BY <3>1, <3>3, AwaitedFront
    <2> QED
      BY <2>1, <2>2
  <1>3. Anchors \subseteq {c} \cup Anchors'
    BY <1>0, <1>1, <1>2 DEF Anchors
  <1>4. ASSUME NEW S \in SUBSET Container, Around(S)'
        PROVE  c \in S
    <2>1. /\ Anchors' \subseteq S
          /\ \A x \in S, y \in Container : Leads(x, y)' => y \in S
      BY <1>4 DEF Around, Downward
    <2>2. CASE ~IsReferencable(referrers', external', c)
      <3> DEFINE G == Garbage(referrers', c)
      <3>1. phase' = [x \in Container |-> IF x \in G THEN "dying" ELSE phase[x]]
        BY <2>2 DEF TestReferencable
      <3>2. c \in G
        BY <1>0, <2>2, GarbageFacts
      <3>3. phase'[c] = "dying"
        BY <3>1, <3>2
      <3> QED
        BY <2>1, <3>3 DEF Anchors
    <2>3. CASE IsReferencable(referrers', external', c)
      <3> DEFINE T == Container \ S
      <3>1. SUFFICES ASSUME c \in T
                     PROVE  FALSE
        OBVIOUS
      <3>2. Closed(referrers', T)
        <4> SUFFICES ASSUME NEW x \in T, phase[x] = "alive", NEW h \in Referring(referrers', x)
                     PROVE  h \in T
          BY DEF Closed, Alive
        <4>1. h \in Container
          BY <1>0 DEF Referring, Holders
        <4>2. referrers'[x] = {v \in Value : refers'[v] = x}
          BY DEF Sound, Counted
        <4>3. CASE h \in myDelegators[x]
          <5>1. x \in myDelegates[h]
            BY <4>1, <4>3 DEF Sound, Mutual
          <5>2. Leads(h, x)'
            BY <1>0, <5>1 DEF Leads
          <5> QED
            BY <2>1, <4>1, <5>2
        <4>4. CASE \E f \in FieldName : <<h, f>> \in referrers'[x]
          <5>1. Leads(h, x)'
            BY <4>2, <4>4 DEF Leads
          <5> QED
            BY <2>1, <4>1, <5>1
        <4> QED
          BY <4>3, <4>4 DEF Referring, Holders
      <3>3. PICK x \in Above(referrers', c) :
               \/ IsDirectlyReferencable(referrers', external', x)
               \/ Alive(x) /\ \E n \in NativeSlot : n \in referrers'[x]
        BY <2>3 DEF IsReferencable
      <3>4. T \in SUBSET Container /\ c \in T
        BY <3>1
      <3> HIDE DEF T
      <3>5. x \in Container /\ x \in T
        BY <3>2, <3>3, <3>4 DEF Above
      <3>6. x \notin Anchors'
        BY <2>1, <3>5 DEF T
      <3>7. x \notin external' /\ phase[x] # "dying" /\ \A u \in Slot : refers'[u] # x
        BY <1>1, <3>5, <3>6 DEF Anchors
      <3>8. PICK u \in Slot : u \in referrers'[x]
        BY <3>3, <3>7 DEF IsDirectlyReferencable, Slot
      <3>9. phase[x] \in Phases
        BY <1>0, <3>5
      <3>10. phase[x] = "alive"
        BY <3>5, <3>7, <3>8, <3>9 DEF Sound, Counted, Phases
      <3>11. refers'[u] = x
        BY <3>5, <3>8, <3>10 DEF Sound, Counted
      <3> QED
        BY <3>7, <3>11
    <2> QED
      BY <2>2, <2>3
  <1> DEFINE Y == {c} \cup Anchors'
  <1>5. /\ Y \in SUBSET Container
        /\ \A S \in SUBSET Container : Around(S)' => Y \subseteq S
    BY <1>4 DEF Around, Anchors
  <1>6. /\ Anchors \subseteq {} \cup Y
        /\ \A x, y \in Container : Leads(x, y) => y \in {} \cup Y \/ (x \notin {} /\ Leads(x, y)')
        /\ \A x \in Container : phase'[x] = "alive" => (phase[x] = "alive" /\ x \notin {}) \/ x \in Y
    BY <1>1, <1>3
  <1> HIDE DEF Y
  <1>7. NoneAstray'
    BY <1>5, <1>6, NoneAstrayKeeps DEF NoLeak
  <1> QED
    BY <1>1, <1>7 DEF NoLeak

\* A value is dropped.  What it referred to is tested, or is being collected: what is
\* destroyed leads nowhere.
LEMMA CollectGarbageLeak ==
    ASSUME IInv, NoLeak, work # <<>>, CollectGarbage
    PROVE  NoLeak'
  <1>1. /\ refers \in [Value -> Container \cup {NoContainer}]
        /\ referrers \in [Container -> SUBSET Value]
        /\ phase \in [Container -> Phases] /\ nesting \in Nat /\ work \in Seq(Call)
    BY DEF IInv, TypeOK, Phases
  <1>2. work[1] \in Call /\ Head(work) = work[1] /\ 1 \in DOMAIN work
    BY <1>1, TailFacts
  <1>3. work[1].call = "CollectGarbage" /\ UNCHANGED <<external, delegation>>
    BY <1>2 DEF CollectGarbage, Todo
  <1>4. PICK v \in work[1].values :
           LET later == DropAll(work[1].values \ {v}) \o Tail(work)
           IN  /\ refers' = [refers EXCEPT ![v] = NoContainer]
               /\ IF refers[v] = NoContainer
                  THEN work' = later /\ UNCHANGED <<referrers, collector>>
                  ELSE DecRefCounter(refers[v], v, later)
    BY <1>2 DEF CollectGarbage, Todo
  <1>5. v \in Value /\ work[1].values \in SUBSET Value
    BY <1>2, <1>3 DEF Call
  <1> DEFINE p     == DropAll(work[1].values \ {v})
             later == p \o Tail(work)
  <1>6. p \in Seq(Call)
    <2>1. [call |-> "CollectGarbage", values |-> work[1].values \ {v}] \in Call
      BY <1>5 DEF Call
    <2> QED
      BY <2>1 DEF DropAll
  <1>7. \A x \in Container : Awaited(work, x) => Awaited(later, x)
    BY <1>1, <1>3, <1>6, TailFacts, AwaitedTail, AwaitedFront
  <1>8. later \in Seq(Call)
    BY <1>1, <1>6, TailFacts, FrontFacts
  <1>9. /\ refers' = [refers EXCEPT ![v] = NoContainer]
        /\ IF refers[v] = NoContainer
           THEN work' = later /\ UNCHANGED <<referrers, collector>>
           ELSE DecRefCounter(refers[v], v, later)
    BY <1>4
  <1> HIDE DEF later, p
  <1>10. UNCHANGED <<external, myDelegates, myDelegators, orphans>>
    BY <1>3 DEF delegation
  <1>11. /\ refers'[v] = NoContainer /\ \A u \in Value : u # v => refers'[u] = refers[u]
         /\ \A x \in Container, f \in FieldName : <<x, f>> \in Value
         /\ \A u \in Slot : u \in Value
    BY <1>1, <1>5, <1>9 DEF Value, Field, Slot
  <1>12. /\ \A x \in Container, u \in Slot : refers[u] = x => x = refers[v] \/ refers'[u] = x
         /\ \A x, y \in Container : Leads(x, y) => y = refers[v] \/ Leads(x, y)'
    <2>1. \A x \in Container, u \in Value : refers[u] = x => x = refers[v] \/ refers'[u] = x
      BY <1>11
    <2> QED
      BY <1>10, <1>11, <2>1 DEF Leads
  <1>13. CASE refers[v] = NoContainer \/ Collected(refers[v])
    <2>1. /\ work' = later
          /\ UNCHANGED <<phase, nesting, forCollection>>
      BY <1>9, <1>13 DEF DecRefCounter, collector
    <2> DEFINE X == {x \in Container : phase[x] = "destroyed"}
               Y == Anchors'
    <2>2. X \in SUBSET Container /\ Y \in SUBSET Container
          /\ \A S \in SUBSET Container : Around(S)' => Y \subseteq S
      BY DEF Around, Anchors
    <2>3. \A x \in Container : x = refers[v] => x \in X \cup Y
      <3> SUFFICES ASSUME NEW x \in Container, x = refers[v], phase[x] = "dying"
                   PROVE  x \in Y
        BY <1>13, ResidencyAssumption DEF Collected
      <3> QED
        BY <2>1 DEF Anchors
    <2>4. Anchors \subseteq X \cup Y
      <3> SUFFICES ASSUME NEW x \in Anchors, x # refers[v]
                   PROVE  x \in Y
        BY <2>3 DEF Anchors
      <3>1. x \in Container
        BY DEF Anchors
      <3>2. CASE x \in external \cup orphans \/ phase[x] = "dying"
        BY <1>10, <2>1, <3>1, <3>2 DEF Anchors
      <3>3. CASE \E u \in Slot : refers[u] = x
        BY <1>12, <3>1, <3>3 DEF Anchors
      <3>4. CASE Awaited(work, x)
        BY <1>7, <2>1, <3>1, <3>4 DEF Anchors
      <3> QED
        BY <3>2, <3>3, <3>4 DEF Anchors
    <2>5. \A x, y \in Container : Leads(x, y) => y \in X \cup Y \/ (x \notin X /\ Leads(x, y)')
      <3>1. ASSUME NEW x \in X, NEW y \in Container
            PROVE  ~Leads(x, y)
        <4>1. /\ \A f \in FieldName : refers[<<x, f>>] = NoContainer
              /\ myDelegates[x] = {}
          BY DEF IInv, Sound, Gone
        <4> QED
          BY <4>1, ResidencyAssumption DEF Leads
      <3> HIDE DEF X, Y
      <3> QED
        BY <1>12, <2>3, <3>1
    <2>6. \A x \in Container : phase'[x] = "alive" => (phase[x] = "alive" /\ x \notin X) \/ x \in Y
      BY <2>1
    <2> HIDE DEF X, Y
    <2>7. NoneAstray'
      BY <2>2, <2>4, <2>5, <2>6, NoneAstrayKeeps DEF NoLeak
    <2> QED
      BY <2>1, <2>7 DEF NoLeak
  <1>14. CASE refers[v] # NoContainer /\ ~Collected(refers[v])
    <2> DEFINE c == refers[v]
    <2>1. c \in Container /\ phase[c] = "alive"
      <3>1. c \in Container /\ phase[c] \in Phases
        BY <1>1, <1>5, <1>14
      <3>2. phase[c] # "free"
        BY <1>5, <3>1 DEF IInv, Sound, Gone
      <3> QED
        BY <1>14, <3>1, <3>2 DEF Phases, Collected
    <2>2. /\ referrers' = [referrers EXCEPT ![c] = @ \ {v}]
          /\ TestReferencable(c, later)
      BY <1>9, <1>14 DEF DecRefCounter
    <2>3. referrers' = IF phase[refers[v]] = "alive" THEN [referrers EXCEPT ![refers[v]] = @ \ {v}] ELSE referrers
      BY <2>1, <2>2
    <2>4. Sound(refers', referrers', external, myDelegates, myDelegators, phase)
      BY <1>1, <1>5, <1>9, <1>14, <2>3, DropSound DEF IInv
    <2>5. referrers' \in [Container -> SUBSET Value] /\ refers' \in [Value -> Container \cup {NoContainer}]
      BY <1>1, <1>9, <2>1, <2>2
    <2> QED
      BY <1>3, <1>7, <1>10, <1>12, <1>8, <2>1, <2>2, <2>4, <2>5, TestLeak DEF IInv, Alive
  <1> QED
    BY <1>13, <1>14

\* A container that is destroyed leads nowhere any more: its delegates are orphans,
\* its fields are dropped later.
LEMMA ExplicitDestructorLeak ==
    ASSUME IInv, NoLeak, work # <<>>, ExplicitDestructor
    PROVE  NoLeak'
  <1>1. /\ myDelegates \in [Container -> SUBSET Container]
        /\ myDelegators \in [Container -> SUBSET Container] /\ work \in Seq(Call)
    BY DEF IInv, TypeOK
  <1> DEFINE t == Tail(work)
             C == work[1].containers
  <1>2. work[1] \in Call /\ Head(work) = work[1] /\ 1 \in DOMAIN work /\ t \in Seq(Call)
    BY <1>1, TailFacts
  <1>3. work[1].call = "ExplicitDestructor" /\ C \in SUBSET Container /\ Kills(work[1]) = C
    BY <1>2 DEF ExplicitDestructor, Todo, Call, Kills
  <1>4. PICK c \in C :
          /\ myDelegates' = [x \in Container |-> IF x = c THEN {} ELSE
                                 IF x \in myDelegators[c] THEN myDelegates[x] \ {c}
                                                          ELSE myDelegates[x]]
          /\ orphans' = orphans \cup myDelegates[c]
          /\ work' = DropAll(Fields(c)) \o Complete(c) \o DestroyAll(C \ {c}) \o t
    BY <1>2 DEF ExplicitDestructor, Todo
  <1>5. UNCHANGED <<refers, external, phase, nesting, forCollection>>
    BY DEF ExplicitDestructor, values, collector
  <1> DEFINE p == DropAll(Fields(c)) \o Complete(c) \o DestroyAll(C \ {c})
  <1>6. c \in Container /\ phase[c] = "dying" /\ Fields(c) \in SUBSET Value /\ work' = p \o t
    BY <1>2, <1>3, <1>4 DEF Fields, Value, IInv, Pending, Rest, Ordered
  <1>7. p \in Seq(Call)
    BY <1>3, <1>6, DestructorFacts
  <1> HIDE DEF p
  <1>8. \A x \in Container : Awaited(work, x) => Awaited(work', x)
    BY <1>1, <1>2, <1>3, <1>6, <1>7, AwaitedTail, AwaitedFront
  <1>9. Anchors \subseteq Anchors'
    BY <1>4, <1>5, <1>8 DEF Anchors
  <1>10. ASSUME NEW a \in Container, NEW b \in Container, Leads(a, b)
         PROVE  Leads(a, b)' \/ b \in Anchors'
    <2>1. CASE \E f \in FieldName : refers[<<a, f>>] = b
      BY <1>5, <2>1 DEF Leads
    <2>2. CASE b \in myDelegates[a] /\ a = c
      BY <1>4, <2>2 DEF Anchors
    <2>3. CASE b \in myDelegates[a] /\ a # c /\ b # c
      <3>1. b \in myDelegates'[a]
        BY <1>4, <2>3
      <3> QED
        BY <3>1 DEF Leads
    <2>4. CASE b = c
      BY <1>5, <1>6, <2>4 DEF Anchors
    <2> QED
      BY <1>10, <2>1, <2>2, <2>3, <2>4 DEF Leads
  <1>11. /\ \A x \in Container : phase'[x] = "alive" => phase[x] = "alive"
         /\ nesting' = 0 => forCollection' = {}
    BY <1>5 DEF NoLeak
  <1> QED
    BY <1>9, <1>10, <1>11, AnchorsGrow

\* A container is completed: it leads nowhere.
LEMMA SetCompletedLeak ==
    ASSUME IInv, NoLeak, work # <<>>, SetCompleted
    PROVE  NoLeak'
  <1>1. phase \in [Container -> Phases] /\ work \in Seq(Call)
    BY DEF IInv, TypeOK, Phases
  <1> DEFINE c == work[1].container
  <1>2. /\ work[1] \in Call /\ Head(work) = work[1] /\ 1 \in DOMAIN work
        /\ \A i \in DOMAIN work : i \in Nat /\ i >= 1
    BY <1>1, TailFacts
  <1>3. /\ work[1].call = "SetCompleted" /\ c \in Container /\ Kills(work[1]) = {c}
        /\ Completes(work[1], c)
    BY <1>2 DEF SetCompleted, Todo, Call, Kills, Completes
  <1>4. /\ phase' = [phase EXCEPT ![c] = "destroyed"]
        /\ work' = Tail(work)
        /\ UNCHANGED <<refers, external, myDelegates, orphans, nesting, forCollection>>
    BY <1>2 DEF SetCompleted, Todo, delegation
  <1> HIDE DEF c
  <1>5. phase[c] = "dying" /\ \A i \in DOMAIN work : c \in Kills(work[i]) => i = 1
    BY <1>2, <1>3 DEF IInv, Pending, Rest, Ordered
  <1>6. myDelegates[c] = {}
    BY <1>2, <1>3 DEF IInv, Pending, Rest, Left
  <1>7. \A f \in FieldName : refers[<<c, f>>] = NoContainer
    <2> SUFFICES ASSUME NEW f \in FieldName, Empties(work, c, f)
                 PROVE  FALSE
      BY <1>3, <1>5 DEF IInv, Pending
    <2>1. \E j \in DOMAIN work : j < 1
      BY <1>3, <1>5 DEF Empties
    <2> QED
      BY <1>2, <2>1
  <1>8. \A x \in Container : phase'[x] = IF x = c THEN "destroyed" ELSE phase[x]
    BY <1>1, <1>4
  <1>9. \A x \in Container : Awaited(work, x) => Awaited(work', x)
    BY <1>1, <1>3, <1>4, AwaitedTail
  <1> DEFINE X == {c}
             Y == Anchors'
  <1>10. /\ X \in SUBSET Container /\ Y \in SUBSET Container
         /\ \A S \in SUBSET Container : Around(S)' => Y \subseteq S
    BY <1>3 DEF Around, Anchors
  <1>11. Anchors \subseteq X \cup Y
    BY <1>4, <1>8, <1>9 DEF Anchors
  <1>12. \A a, b \in Container : Leads(a, b) => b \in X \cup Y \/ (a \notin X /\ Leads(a, b)')
    <2>1. \A b \in Container : ~Leads(c, b)
      BY <1>6, <1>7, ResidencyAssumption DEF Leads
    <2>2. \A a, b \in Container : Leads(a, b) => Leads(a, b)'
      BY <1>4 DEF Leads
    <2> QED
      BY <2>1, <2>2
  <1>13. \A x \in Container : phase'[x] = "alive" => (phase[x] = "alive" /\ x \notin X) \/ x \in Y
    BY <1>8
  <1> HIDE DEF X, Y
  <1>14. NoneAstray'
    BY <1>10, <1>11, <1>12, <1>13, NoneAstrayKeeps DEF NoLeak
  <1> QED
    BY <1>4, <1>14 DEF NoLeak

\* The outermost collection frees what is destroyed, which leads nowhere.
LEMMA ExitingLeak ==
    ASSUME IInv, NoLeak, work # <<>>, Exiting
    PROVE  NoLeak'
  <1>1. nesting \in Nat /\ work \in Seq(Call) /\ forCollection \in SUBSET Container
    BY DEF IInv, TypeOK
  <1>2. work[1] \in Call /\ Head(work) = work[1]
    BY <1>1, TailFacts
  <1>3. /\ work[1].call = "Exiting" /\ nesting' = nesting - 1 /\ work' = Tail(work)
        /\ UNCHANGED <<refers, external, myDelegates>>
    BY <1>2 DEF Exiting, Todo, values
  <1>4. nesting >= 1
    BY <1>1, <1>3, ExitNested DEF IInv, Exits
  <1>5. \A x \in Container : Awaited(work, x) => Awaited(work', x)
    BY <1>1, <1>3, AwaitedTail
  <1>6. CASE nesting # 1
    <2>1. UNCHANGED <<phase, forCollection, orphans>> /\ nesting' # 0
      BY <1>1, <1>3, <1>4, <1>6 DEF Exiting
    <2>2. Anchors \subseteq Anchors'
      BY <1>3, <1>5, <2>1 DEF Anchors
    <2>3. \A a, b \in Container : Leads(a, b) => Leads(a, b)'
      BY <1>3 DEF Leads
    <2> QED
      BY <2>1, <2>2, <2>3, AnchorsGrow
  <1>7. CASE nesting = 1
    <2>1. /\ phase' = [x \in Container |-> IF x \in forCollection THEN "free" ELSE phase[x]]
          /\ forCollection' = {}
          /\ orphans' = orphans \ forCollection
      BY <1>7 DEF Exiting
    <2>2. \A x \in Container : phase[x] # "dying"
      BY <1>7, NoneDying
    <2>3. \A x \in Container : x \in forCollection => phase[x] = "destroyed"
      BY <2>2 DEF IInv, Collected
    <2> DEFINE X == forCollection
               Y == Anchors'
    <2>4. /\ X \in SUBSET Container /\ Y \in SUBSET Container
          /\ \A S \in SUBSET Container : Around(S)' => Y \subseteq S
      BY <1>1 DEF Around, Anchors
    <2>5. Anchors \subseteq X \cup Y
      BY <1>3, <1>5, <2>1, <2>2 DEF Anchors
    <2>6. \A a, b \in Container : Leads(a, b) => b \in X \cup Y \/ (a \notin X /\ Leads(a, b)')
      <3>1. ASSUME NEW a \in Container, NEW b \in Container, a \in X
            PROVE  ~Leads(a, b)
        <4>1. /\ \A f \in FieldName : refers[<<a, f>>] = NoContainer
              /\ myDelegates[a] = {}
          BY <2>3, <3>1 DEF IInv, Sound, Gone
        <4> QED
          BY <4>1, ResidencyAssumption DEF Leads
      <3>2. \A a, b \in Container : Leads(a, b) => Leads(a, b)'
        BY <1>3 DEF Leads
      <3> QED
        BY <3>1, <3>2
    <2>7. \A x \in Container : phase'[x] = "alive" => (phase[x] = "alive" /\ x \notin X) \/ x \in Y
      BY <2>1
    <2> HIDE DEF X, Y
    <2>8. NoneAstray'
      BY <2>4, <2>5, <2>6, <2>7, NoneAstrayKeeps DEF NoLeak
    <2> QED
      BY <2>1, <2>8 DEF NoLeak
  <1> QED
    BY <1>6, <1>7

\* Every call of the collector.
LEMMA CollectLeak ==
    ASSUME IInv, NoLeak, Collect
    PROVE  NoLeak'
  <1>1. /\ work # <<>>
        /\ \/ CollectGarbage \/ FromTable \/ Assign
           \/ ExplicitDestructor \/ SetCompleted \/ Exiting
    BY DEF Collect
  <1>2. /\ work[1] \in Call /\ Head(work) = work[1] /\ 1 \in DOMAIN work
    BY <1>1, TailFacts DEF IInv, TypeOK
  <1>3. CASE FromTable
    <2>1. /\ work[1].call = "FromTable" /\ Assigns(work[1])
          /\ IncRefCounter(work[1].to, work[1].container) /\ work' = Tail(work)
          /\ UNCHANGED <<external, delegation, collector>>
      BY <1>2, <1>3 DEF FromTable, Todo, Assigns
    <2>2. work[1].container \in Container
      BY <1>2, <2>1 DEF IInv, Pending, Rest, Assigned
    <2> QED
      BY <1>1, <2>1, <2>2, IncLeak
  <1>4. CASE Assign
    <2> DEFINE v == work[1].from
    <2>1. /\ work[1].call = "Assign" /\ Assigns(work[1])
          /\ IncRefCounter(work[1].to, refers[v]) /\ work' = Tail(work)
          /\ UNCHANGED <<external, delegation, collector>>
      BY <1>2, <1>4 DEF Assign, Todo, Assigns
    <2>2. v \in Value
      BY <1>2, <2>1 DEF Call
    <2>3. refers[v] \in Container \cup {NoContainer}
      BY <2>2 DEF IInv, TypeOK
    <2> HIDE DEF v
    <2> QED
      BY <1>1, <2>1, <2>3, IncLeak
  <1> QED
    BY <1>1, <1>3, <1>4, CollectGarbageLeak, ExplicitDestructorLeak, SetCompletedLeak, ExitingLeak

\* A step of the program.
LEMMA ProgramLeak ==
    ASSUME IInv, NoLeak, Program
    PROVE  NoLeak'
  <1>1. /\ refers \in [Value -> Container \cup {NoContainer}]
        /\ myDelegates \in [Container -> SUBSET Container]
        /\ phase \in [Container -> Phases] /\ nesting \in Nat
        /\ \A u \in Slot : u \in Value
        /\ \A x \in Container, f \in FieldName : <<x, f>> \in Value
        /\ \A x \in Container : x # NoContainer
    BY ResidencyAssumption DEF IInv, TypeOK, Phases, Value, Field, Slot
  <1>2. work = <<>> => \A x : ~Awaited(work, x)
    BY DEF Awaited
  <1>3. ASSUME work = <<>>, UNCHANGED <<refers, external, orphans, phase>>
        PROVE  Anchors \subseteq Anchors'
    BY <1>2, <1>3 DEF Anchors
  \* The values stay, what is to be done changes.
  <1>4. ASSUME work = <<>>, UNCHANGED <<refers, external, myDelegates, orphans, phase, forCollection>>,
               nesting' = nesting \/ nesting' = nesting + 1
        PROVE  NoLeak'
    <2>1. \A a, b \in Container : Leads(a, b) => Leads(a, b)'
      BY <1>4 DEF Leads
    <2>2. nesting' = 0 => forCollection' = {}
      BY <1>1, <1>4 DEF NoLeak
    <2> QED
      BY <1>3, <1>4, <2>1, <2>2, AnchorsGrow
  <1>5. ASSUME NEW s \in StackSlot, NEW c \in Container, New(s, c)
        PROVE  NoLeak'
    <2> DEFINE d == [call |-> "CollectGarbage", values |-> {s}]
               r == [call |-> "FromTable", to |-> s, container |-> c]
    <2>1. /\ work = <<>> /\ phase' = [phase EXCEPT ![c] = "alive"] /\ phase[c] = "free"
          /\ UNCHANGED <<refers, external, myDelegates, orphans, nesting, forCollection>>
      BY <1>5 DEF New, Ask, values, delegation
    <2>2. work' = <<d>> \o <<r>>
      BY <1>5 DEF New, Ask, Drop, Refer
    <2>3. d \in Call /\ r \in Call /\ r.call = "FromTable" /\ r.container = c
      BY DEF Value, Call
    <2> HIDE DEF d, r
    <2>4. Awaited(work', c)
      BY <2>2, <2>3, PairFacts DEF Awaited
    <2>5. \A x \in Container : phase'[x] = IF x = c THEN "alive" ELSE phase[x]
      BY <1>1, <2>1
    <2>6. Anchors \subseteq Anchors' /\ c \in Anchors'
      BY <1>2, <2>1, <2>4, <2>5 DEF Anchors
    <2>7. \A a, b \in Container : Leads(a, b) => Leads(a, b)'
      BY <2>1 DEF Leads
    <2>8. nesting' = 0 => forCollection' = {}
      BY <2>1 DEF NoLeak
    <2> QED
      BY <2>5, <2>6, <2>7, <2>8, AnchorsGrow
  <1>6. ASSUME NEW t \in StackSlot, NEW f \in FieldName, NEW n \in NativeSlot, GetInto(t, f, n)
        PROVE  NoLeak'
    <2>1. /\ work = <<>> /\ refers[n] = NoContainer
          /\ refers' = [refers EXCEPT ![n] = refers[t]]
          /\ UNCHANGED <<external, myDelegates, orphans, phase, nesting, forCollection>>
      BY <1>6 DEF GetInto, Ask, IncRefCounter, delegation, collector
    <2>2. n \in Value
      BY <1>1 DEF Slot
    <2>3. \A u \in Value : refers[u] # NoContainer => refers'[u] = refers[u]
      BY <1>1, <2>1, <2>2
    <2>4. Anchors \subseteq Anchors'
      BY <1>1, <1>2, <2>1, <2>3 DEF Anchors
    <2>5. \A a, b \in Container : Leads(a, b) => Leads(a, b)'
      BY <1>1, <2>1, <2>3 DEF Leads
    <2>6. nesting' = 0 => forCollection' = {}
      BY <2>1 DEF NoLeak
    <2> QED
      BY <2>1, <2>4, <2>5, <2>6, AnchorsGrow
  <1>7. ASSUME NEW a \in Container, NEW b \in Container, Delegate(a, b) \/ Undelegate(a, b)
        PROVE  NoLeak'
    <2>1. /\ work = <<>> /\ UNCHANGED <<refers, external, orphans, phase, nesting, forCollection>>
          /\ \/ myDelegates' = [myDelegates EXCEPT ![a] = @ \cup {b}]
             \/ myDelegates' = [myDelegates EXCEPT ![a] = @ \ {b}]
          /\ \E u \in StackSlot : refers[u] = b
      BY <1>7 DEF Delegate, Undelegate, Ask, values, collector
    <2>2. b \in Anchors'
      BY <2>1 DEF Anchors, Slot
    <2>3. \A x, y \in Container : y \in myDelegates[x] => y \in myDelegates'[x] \/ y = b
      BY <1>1, <2>1
    <2>4. \A x, y \in Container : Leads(x, y) => Leads(x, y)' \/ y \in Anchors'
      BY <2>1, <2>2, <2>3 DEF Leads
    <2>5. nesting' = 0 => forCollection' = {}
      BY <2>1 DEF NoLeak
    <2> QED
      BY <1>3, <2>1, <2>4, <2>5, AnchorsGrow
  <1>8. ASSUME NEW c \in Container, IncExternal(c)
        PROVE  NoLeak'
    <2>1. /\ work = <<>> /\ external' = external \cup {c}
          /\ UNCHANGED <<refers, myDelegates, orphans, phase, nesting, forCollection>>
      BY <1>8 DEF IncExternal, Ask, delegation, collector
    <2>2. Anchors \subseteq Anchors'
      BY <1>2, <2>1 DEF Anchors
    <2>3. \A a, b \in Container : Leads(a, b) => Leads(a, b)'
      BY <2>1 DEF Leads
    <2>4. nesting' = 0 => forCollection' = {}
      BY <2>1 DEF NoLeak
    <2> QED
      BY <2>1, <2>2, <2>3, <2>4, AnchorsGrow
  <1>9. ASSUME NEW c \in Container, DecExternal(c)
        PROVE  NoLeak'
    <2>1. /\ c \in external /\ work = <<>> /\ external' = external \ {c}
          /\ refers' = refers /\ referrers' = referrers
          /\ TestReferencable(c, <<>>) /\ UNCHANGED delegation
      BY <1>9 DEF DecExternal
    <2>2. Alive(c)
      BY <2>1 DEF IInv, Sound, Rooted, Alive
    <2>3. Sound(refers', referrers', external', myDelegates, myDelegators, phase)
      BY <2>1 DEF IInv, Sound, Rooted
    <2>4. /\ TypeOK /\ <<>> \in Seq(Call) /\ referrers' \in [Container -> SUBSET Value]
          /\ refers' \in [Value -> Container \cup {NoContainer}]
      BY <2>1 DEF IInv, TypeOK
    <2>5. \A x, y \in Container : Leads(x, y) => y = c \/ Leads(x, y)'
      BY <2>1 DEF Leads, delegation
    <2> QED
      BY <1>2, <2>1, <2>2, <2>3, <2>4, <2>5, TestLeak
  <1>10. CASE \/ \E v \in StackSlot \cup Field, s \in StackSlot : Copy(v, s)
              \/ \E s, t \in StackSlot, f \in FieldName : Get(s, t, f)
              \/ \E v \in StackSlot \cup Field : Undefine(v)
              \/ \E S \in SUBSET StackSlot : DoExitBlock(S)
    <2>1. /\ work = <<>> /\ UNCHANGED <<refers, external, myDelegates, orphans, phase, forCollection>>
          /\ nesting' = nesting \/ nesting' = nesting + 1
      BY <1>10 DEF Copy, Get, Undefine, DoExitBlock, Ask, values, delegation, collector
    <2> QED
      BY <1>4, <2>1
  <1> QED
    BY <1>5, <1>6, <1>7, <1>8, <1>9, <1>10 DEF Program

\* When an instruction is over, what the program cannot reach is freed, cycles
\* included: nothing is dying then and nothing is to be assigned, so every container
\* that is alive can be reached from a root or an orphan.
THEOREM CollectorNoGarbageLeft == Spec => []NoGarbageLeft
  <1>1. Init => NoLeak
    <2>1. Init => forCollection = {} /\ \A c \in Container : phase[c] # "alive"
      BY DEF Init
    <2> QED
      BY <2>1 DEF NoLeak, NoneAstray
  <1>2. IInv /\ NoLeak /\ [Next]_vars => NoLeak'
    <2> SUFFICES ASSUME IInv, NoLeak, [Next]_vars
                 PROVE  NoLeak'
      OBVIOUS
    <2>1. CASE Next
      BY <2>1, CollectLeak, ProgramLeak DEF Next
    <2>2. CASE UNCHANGED vars
      <3>1. UNCHANGED <<refers, external, myDelegates, orphans, phase, nesting, forCollection, work>>
        BY <2>2 DEF vars, values, delegation, collector
      <3>2. Anchors \subseteq Anchors' /\ \A a, b \in Container : Leads(a, b) => Leads(a, b)'
        BY <3>1 DEF Anchors, Leads
      <3>3. nesting' = 0 => forCollection' = {}
        BY <3>1 DEF NoLeak
      <3> QED
        BY <3>1, <3>2, <3>3, AnchorsGrow
    <2> QED
      BY <2>1, <2>2
  <1>3. IInv /\ NoLeak => NoGarbageLeft
    <2> SUFFICES ASSUME IInv, NoLeak, work = <<>>, NEW c \in Container, phase[c] # "free"
                 PROVE  c \in ReachableFrom(Roots \cup orphans)
      BY DEF NoGarbageLeft
    <2>1. nesting = 0 /\ \A x \in Container : phase[x] # "dying"
      BY Ready
    <2>2. phase[c] = "alive"
      <3>1. phase[c] \in Phases
        BY DEF IInv, TypeOK, Phases
      <3>2. ~Collected(c)
        BY <2>1 DEF IInv, NoLeak
      <3> QED
        BY <3>1, <3>2 DEF Collected, Phases
    <2> SUFFICES ASSUME NEW S \in SUBSET Container, Roots \cup orphans \subseteq S,
                        \A y \in S : Targets(y) \subseteq S
                 PROVE  c \in S
      BY DEF ReachableFrom
    <2>3. \A x \in Container : x # NoContainer /\ ~Awaited(work, x)
      BY ResidencyAssumption DEF Awaited
    <2>4. Anchors \subseteq S
      BY <2>1, <2>3 DEF Anchors, Roots, Slot
    <2>5. Downward(S)
      BY <2>3 DEF Downward, Leads, Targets
    <2> QED
      BY <2>2, <2>4, <2>5 DEF NoLeak, NoneAstray, Around
  <1> QED
    BY <1>1, <1>2, <1>3, Inductive, PTL DEF Spec
=============================================================================
