-------------------------- MODULE GoalQueueProofs --------------------------
(***************************************************************************)
(* The queue of the goal coordinator and its wakeups: the queue is exactly *)
(* the queued goals, each once, and a goal parked on a child has something *)
(* left to wait for.  The module rests on the invariant IInv of            *)
(* GoalCoordinatorProofs, which every step re-establishes.                 *)
(***************************************************************************)
EXTENDS GoalCoordinatorProofs, NaturalsInduction, WellFoundedInduction

-----------------------------------------------------------------------------
(* Sequences without repetition.                                           *)

Below == {m \in Nat \X Nat : m[1] < m[2]}

\* A set of numbers that is not empty has a least one.
LEMMA LeastNumber ==
  ASSUME NEW T \in SUBSET Nat, T # {}
  PROVE  \E n \in T : \A m \in T : n <= m
<1>1. IsWellFoundedOn(Below, Nat)
  BY NatLessThanWellFounded, Zenon DEF OpToRel, Below
<1>2. \E n \in T : \A m \in T : ~(<<m, n>> \in Below)
  BY <1>1, WFMin
<1>3. PICK n \in T : \A m \in T : ~(<<m, n>> \in Below)
  BY <1>2
<1>4. \A m \in T : ~(m < n)
  BY <1>3 DEF Below
<1> QED BY <1>3, <1>4

Once(q) == \A i, j \in DOMAIN q : q[i] = q[j] => i = j

\* What the definition of Without says of its function.
Filters(f, q, S) ==
  \A i \in 0..Len(q) :
    f[i] = IF i = 0 THEN <<>>
           ELSE IF q[i] \in S THEN f[i - 1] ELSE Append(f[i - 1], q[i])

\* What that function is of itself.
Keeping(f, q, S) == [i \in 0..Len(q) |-> IF i = 0 THEN <<>>
                                         ELSE IF q[i] \in S THEN f[i - 1]
                                         ELSE Append(f[i - 1], q[i])]

\* There is such a function, one member of the queue after the other.
LEMMA FilterExists ==
  ASSUME NEW q \in Seq(Goals), NEW S
  PROVE  \E f : f = Keeping(f, q, S)
<1> DEFINE rule(f, i) == IF i = 0 THEN <<>>
                         ELSE IF q[i] \in S THEN f[i - 1] ELSE Append(f[i - 1], q[i])
           F(n) == \E f : f = [i \in 0..n |-> rule(f, i)]
           T == {n \in 0..Len(q) : ~F(n)}
<1>1. Len(q) \in Nat
  OBVIOUS
<1>2. SUFFICES ASSUME T # {} PROVE FALSE
  <2>1. T = {} => F(Len(q))
    <3>1. Len(q) \in 0..Len(q)
      BY <1>1
    <3> HIDE DEF F
    <3> QED BY <3>1
  <2> QED BY <2>1 DEF Keeping
<1>3. T \in SUBSET Nat
  BY <1>1
<1> HIDE DEF T
<1>4. PICK n \in T : \A m \in T : n <= m
  BY <1>2, <1>3, LeastNumber
<1>5. n \in 0..Len(q) /\ ~F(n)
  BY <1>4 DEF T
<1>6. CASE n = 0
  <2> DEFINE f == [i \in 0..0 |-> <<>>]
  <2>1. \A i \in 0..0 : rule(f, i) = <<>>
    OBVIOUS
  <2>2. f = [i \in 0..0 |-> rule(f, i)]
    BY <2>1
  <2> QED BY <1>5, <1>6, <2>2
<1>7. CASE n # 0
  <2>1. n - 1 \in 0..Len(q) /\ n - 1 \notin T
    BY <1>1, <1>3, <1>4, <1>5, <1>7
  <2>2. F(n - 1)
    BY <2>1 DEF T
  <2>3. PICK f : f = [i \in 0..(n - 1) |-> rule(f, i)]
    BY <2>2
  <2> DEFINE h == [i \in 0..n |-> IF i = n THEN rule(f, n) ELSE f[i]]
  <2>4. n \in Nat /\ n - 1 \in Nat /\ n - 1 # n
    BY <1>1, <1>5, <1>7
  <2>5. ASSUME NEW i \in 0..n PROVE h[i] = rule(h, i)
    <3>1. CASE i = n
      <4>1. h[i] = rule(f, n) /\ h[n - 1] = f[n - 1]
        BY <2>4, <3>1
      <4> QED BY <1>7, <3>1, <4>1
    <3>2. CASE i # n /\ i # 0
      <4>1. i \in 0..(n - 1) /\ i - 1 \in 0..n /\ i - 1 # n
        BY <2>4, <3>2
      <4>2. h[i] = f[i] /\ h[i - 1] = f[i - 1]
        BY <3>2, <4>1
      <4>3. f[i] = rule(f, i)
        BY <2>3, <4>1
      <4> QED BY <3>2, <4>2, <4>3
    <3>3. CASE i # n /\ i = 0
      <4>1. i \in 0..(n - 1)
        BY <2>4, <3>3
      <4>2. h[i] = f[i] /\ f[i] = rule(f, i)
        BY <2>3, <3>3, <4>1
      <4> QED BY <3>3, <4>2
    <3> QED BY <3>1, <3>2, <3>3
  <2> DEFINE h2 == [i \in 0..n |-> rule(h, i)]
  <2>6. h = h2
    <3>1. \A i \in 0..n : h[i] = h2[i]
      BY <2>5
    <3> QED BY <3>1
  <2> QED BY <1>5, <2>6
<1>8. QED
  BY <1>6, <1>7

\* The queue without the goals in S is such a function's last value.
LEMMA WithoutFilters ==
  ASSUME NEW q \in Seq(Goals), NEW S
  PROVE  \E f : Filters(f, q, S) /\ Without(q, S) = f[Len(q)]
<1> DEFINE kept == CHOOSE f : f = Keeping(f, q, S)
<1>1. \E f : f = Keeping(f, q, S)
  BY FilterExists
<1>2. kept = Keeping(kept, q, S)
  BY <1>1
<1>3. Without(q, S) = kept[Len(q)]
  BY DEF Without, Keeping
<1> HIDE DEF kept
<1>4. Filters(kept, q, S)
  BY <1>2 DEF Filters, Keeping
<1> QED BY <1>3, <1>4

\* What appending a new goal does.
LEMMA AppendOnce ==
  ASSUME NEW s \in Seq(Goals), Once(s), NEW g \in Goals, g \notin Range(s)
  PROVE  /\ Append(s, g) \in Seq(Goals) /\ Once(Append(s, g))
         /\ Range(Append(s, g)) = Range(s) \cup {g}
<1> DEFINE t == Append(s, g)
<1>1. t \in Seq(Goals) /\ Len(t) = Len(s) + 1 /\ Len(s) \in Nat
  OBVIOUS
<1>2. DOMAIN s = 1..Len(s) /\ DOMAIN t = 1..(Len(s) + 1)
  BY <1>1
<1>3. t[Len(s) + 1] = g /\ \A i \in 1..Len(s) : t[i] = s[i] /\ s[i] # g
  BY <1>1, <1>2 DEF Range
<1> HIDE DEF t
<1>4. Once(t)
  <2> SUFFICES ASSUME NEW i \in 1..(Len(s) + 1), NEW j \in 1..(Len(s) + 1), t[i] = t[j]
               PROVE  i = j
    BY <1>2 DEF Once
  <2>1. CASE i \in 1..Len(s) /\ j \in 1..Len(s)
    BY <1>2, <1>3, <2>1 DEF Once
  <2>2. CASE i = Len(s) + 1 \/ j = Len(s) + 1
    BY <1>1, <1>3, <2>2
  <2> QED BY <1>1, <2>1, <2>2
<1>5. Range(t) = Range(s) \cup {g}
  <2>1. ASSUME NEW h \in Range(t) PROVE h \in Range(s) \cup {g}
    <3> PICK i \in 1..(Len(s) + 1) : t[i] = h
      BY <1>2 DEF Range
    <3> QED BY <1>1, <1>2, <1>3 DEF Range
  <2>2. ASSUME NEW h \in Range(s) PROVE h \in Range(t)
    <3> PICK i \in 1..Len(s) : s[i] = h
      BY <1>2 DEF Range
    <3>1. i \in DOMAIN t /\ t[i] = h
      BY <1>1, <1>2, <1>3
    <3> QED BY <3>1 DEF Range
  <2>3. g \in Range(t)
    <3>1. Len(s) + 1 \in DOMAIN t
      BY <1>1, <1>2
    <3> QED BY <1>3, <3>1 DEF Range
  <2> QED BY <2>1, <2>2, <2>3
<1> QED BY <1>1, <1>4, <1>5 DEF t

\* What appending several new goals does.
LEMMA ConcatOnce ==
  ASSUME NEW s \in Seq(Goals), Once(s), NEW t \in Seq(Goals), Once(t),
         Range(s) \cap Range(t) = {}
  PROVE  /\ s \o t \in Seq(Goals) /\ Once(s \o t)
         /\ Range(s \o t) = Range(s) \cup Range(t)
<1> DEFINE u == s \o t
<1>1. u \in Seq(Goals) /\ Len(u) = Len(s) + Len(t) /\ Len(s) \in Nat /\ Len(t) \in Nat
  OBVIOUS
<1>2. DOMAIN s = 1..Len(s) /\ DOMAIN t = 1..Len(t) /\ DOMAIN u = 1..(Len(s) + Len(t))
  BY <1>1
<1>3. \A i \in 1..(Len(s) + Len(t)) : u[i] = IF i <= Len(s) THEN s[i] ELSE t[i - Len(s)]
  BY <1>1
<1> HIDE DEF u
<1>4. ASSUME NEW i \in 1..(Len(s) + Len(t))
      PROVE  \/ i \in DOMAIN s /\ u[i] = s[i] /\ u[i] \in Range(s) /\ i <= Len(s)
             \/ /\ i - Len(s) \in DOMAIN t /\ u[i] = t[i - Len(s)] /\ u[i] \in Range(t)
                /\ i > Len(s)
  <2>1. CASE i <= Len(s)
    <3>1. i \in DOMAIN s /\ u[i] = s[i]
      BY <1>1, <1>2, <1>3, <2>1
    <3> QED BY <2>1, <3>1 DEF Range
  <2>2. CASE ~(i <= Len(s))
    <3>1. i - Len(s) \in DOMAIN t /\ u[i] = t[i - Len(s)] /\ i > Len(s)
      BY <1>1, <1>2, <1>3, <2>2
    <3> QED BY <3>1 DEF Range
  <2> QED BY <2>1, <2>2
<1>5. Once(u)
  <2> SUFFICES ASSUME NEW i \in 1..(Len(s) + Len(t)), NEW j \in 1..(Len(s) + Len(t)),
                      u[i] = u[j]
               PROVE  i = j
    BY <1>2 DEF Once
  <2>1. CASE i \in DOMAIN s /\ j \in DOMAIN s /\ u[i] = s[i] /\ u[j] = s[j]
    BY <2>1 DEF Once
  <2>2. CASE /\ i - Len(s) \in DOMAIN t /\ j - Len(s) \in DOMAIN t
             /\ u[i] = t[i - Len(s)] /\ u[j] = t[j - Len(s)]
    <3>1. i - Len(s) = j - Len(s)
      BY <2>2 DEF Once
    <3> QED BY <1>1, <3>1
  <2> QED BY <1>4, <2>1, <2>2
<1>6. Range(u) = Range(s) \cup Range(t)
  <2>1. ASSUME NEW h \in Range(u) PROVE h \in Range(s) \cup Range(t)
    <3> PICK i \in 1..(Len(s) + Len(t)) : u[i] = h
      BY <1>2 DEF Range
    <3> QED BY <1>4
  <2>2. ASSUME NEW h \in Range(s) PROVE h \in Range(u)
    <3> PICK i \in 1..Len(s) : s[i] = h
      BY <1>2 DEF Range
    <3>1. i \in DOMAIN u /\ u[i] = h
      BY <1>1, <1>2, <1>3
    <3> QED BY <3>1 DEF Range
  <2>3. ASSUME NEW h \in Range(t) PROVE h \in Range(u)
    <3> PICK i \in 1..Len(t) : t[i] = h
      BY <1>2 DEF Range
    <3>1. i + Len(s) \in DOMAIN u
      BY <1>1, <1>2
    <3>2. u[i + Len(s)] = t[i]
      <4>1. i + Len(s) \in Nat /\ i + Len(s) > Len(s) /\ (i + Len(s)) - Len(s) = i
        BY ONLY <1>1, i \in 1..Len(t)
      <4> QED BY ONLY <1>1, <1>2, <1>3, <3>1, <4>1
    <3> QED BY <3>1, <3>2 DEF Range
  <2> QED BY <2>1, <2>2, <2>3
<1> QED BY <1>1, <1>5, <1>6 DEF u

\* The queue without the goals in S: the others, each once.
LEMMA WithoutOnce ==
  ASSUME NEW q \in Seq(Goals), Once(q), NEW S
  PROVE  /\ Without(q, S) \in Seq(Goals) /\ Once(Without(q, S))
         /\ Range(Without(q, S)) = Range(q) \ S
<1>1. PICK f : Filters(f, q, S) /\ Without(q, S) = f[Len(q)]
  BY WithoutFilters
<1> DEFINE First(n) == {q[j] : j \in 1..n} \ S
           Good(n) == f[n] \in Seq(Goals) /\ Once(f[n]) /\ Range(f[n]) = First(n)
           T == {n \in 0..Len(q) : ~Good(n)}
<1>2. Len(q) \in Nat /\ DOMAIN q = 1..Len(q) /\ \A i \in 1..Len(q) : q[i] \in Goals
  OBVIOUS
<1>3. T = {}
  <2> SUFFICES ASSUME T # {} PROVE FALSE
    OBVIOUS
  <2>1. T \in SUBSET Nat
    BY <1>2
  <2> HIDE DEF T
  <2>2. PICK n \in T : \A m \in T : n <= m
    BY <2>1, LeastNumber
  <2>3. n \in 0..Len(q) /\ ~Good(n) /\ n \in Nat
    BY <2>1, <2>2 DEF T
  <2>4. CASE n = 0
    <3>1. f[0] = <<>>
      BY <1>1, <1>2 DEF Filters
    <3>2. f[0] \in Seq(Goals) /\ Once(f[0]) /\ Range(f[0]) = {}
      BY <3>1 DEF Once, Range
    <3>3. First(0) = {}
      OBVIOUS
    <3> QED BY <2>3, <2>4, <3>2, <3>3
  <2>5. CASE n # 0
    <3>1. n - 1 \in 0..Len(q) /\ n - 1 \notin T /\ n - 1 \in Nat /\ n \in 1..Len(q)
      BY <1>2, <2>1, <2>2, <2>3, <2>5
    <3>2. Good(n - 1)
      BY <3>1 DEF T
    <3>3. First(n) = First(n - 1) \cup ({q[n]} \ S)
      <4>1. 1..n = 1..(n - 1) \cup {n}
        BY <2>3, <3>1
      <4>2. {q[j] : j \in 1..n} = {q[j] : j \in 1..(n - 1)} \cup {q[n]}
        BY <4>1
      <4> QED BY <4>2
    <3>4. f[n] = IF q[n] \in S THEN f[n - 1] ELSE Append(f[n - 1], q[n])
      BY <1>1, <2>3, <2>5 DEF Filters
    <3>5. CASE q[n] \in S
      <4>1. f[n] = f[n - 1] /\ First(n) = First(n - 1)
        BY <3>3, <3>4, <3>5
      <4> QED BY <2>3, <3>2, <4>1
    <3>6. CASE q[n] \notin S
      <4>1. q[n] \notin First(n - 1)
        <5> SUFFICES ASSUME NEW j \in 1..(n - 1), q[j] = q[n] PROVE FALSE
          OBVIOUS
        <5>1. j \in DOMAIN q /\ n \in DOMAIN q /\ j # n
          BY <1>2, <2>3, <3>1
        <5> QED BY <5>1 DEF Once
      <4>2. f[n] = Append(f[n - 1], q[n]) /\ First(n) = First(n - 1) \cup {q[n]}
        BY <3>3, <3>4, <3>6
      <4>3. q[n] \in Goals
        BY <1>2, <3>1
      <4> HIDE DEF First
      <4>4. Good(n)
        BY <3>2, <4>1, <4>2, <4>3, AppendOnce
      <4> QED BY <2>3, <4>4
    <3> QED BY <3>5, <3>6
  <2> QED BY <2>4, <2>5
<1>4. Good(Len(q))
  BY <1>2, <1>3, SMTT(30)
<1>5. First(Len(q)) = Range(q) \ S
  BY <1>2 DEF Range
<1> QED BY <1>1, <1>4, <1>5

-----------------------------------------------------------------------------
(* The invariant.                                                          *)

\* The queue holds the queued goals, each once.
Queues(x) == /\ x.queue \in Seq(Goals) /\ Once(x.queue)
             /\ Range(x.queue) = {g \in Goals : x.status[g] = "Queued"}

\* Attempts stay within their budget, and a goal nobody enqueued has none.
Fits(x) == /\ \A g \in Goals : /\ Len(x.runs[g]) <= MaxAttempts[g]
                               /\ x.status[g] \in {"Absent", "Proposed"} => Len(x.runs[g]) = 0
           /\ x.approved \subseteq Goals /\ x.epoch <= MaxEpoch

\* Goal g waits, parked on a child.
Parked(x, g) == x.status[g] = "Waiting" /\ x.runs[g][Len(x.runs[g])].wait \in Goals

\* The goal h is cancelled but the edge from g, which only wants it to end, is
\* still open: what interrupt_runs leaves of a goal that was being cancelled.
Overlooks(x, g, h) == /\ x.edges[<<g, h>>].state = "Open" /\ x.edges[<<g, h>>].kind = "terminal"
                      /\ x.status[h] = "Cancelled"

\* The edge from g to h keeps g from being ready, or does no more only because
\* the end of h was overlooked.
Blocks(x, g, h) ==
  \/ x.edges[<<g, h>>].state \in {"Failed", "Cancelled"}
  \/ x.edges[<<g, h>>].state = "Open" /\ ~Met(x, h, x.edges[<<g, h>>].kind)
  \/ Overlooks(x, g, h)

Wakes(x) == \A g \in Goals : Parked(x, g) => \E h \in Goals : Blocks(x, g, h)

\* An edge that is open was opened by an enqueue or is of a kind callers add.
Wanted(x) == \A g, h \in Goals : x.edges[<<g, h>>].state = "Open"
                                   => x.edges[<<g, h>>].kind \in Kinds \cup {"success"}

QInv == Queues(c) /\ Fits(c) /\ Wakes(c) /\ Wanted(c)

\* The parts survive the change from x to y.
Carries(x, y) == /\ Queues(x) => Queues(y)
                 /\ Fits(x) => Fits(y)
                 /\ Fits(x) /\ Wakes(x) => Wakes(y)
                 /\ Wanted(x) => Wanted(y)

-----------------------------------------------------------------------------
(* When the parts survive.                                                 *)

\* The queue is not touched.
LEMMA QueueStays ==
  ASSUME NEW x, NEW y, Queues(x), y.queue = x.queue,
         \A g \in Goals : y.status[g] = "Queued" <=> x.status[g] = "Queued"
  PROVE  Queues(y)
  BY DEF Queues

\* The goals in S leave the queue.
LEMMA QueueDrops ==
  ASSUME NEW x, NEW y, NEW S, Queues(x), y.queue = Without(x.queue, S),
         \A g \in Goals : y.status[g] = "Queued" <=> x.status[g] = "Queued" /\ g \notin S
  PROVE  Queues(y)
<1>1. /\ y.queue \in Seq(Goals) /\ Once(y.queue) /\ Range(y.queue) = Range(x.queue) \ S
  BY WithoutOnce DEF Queues
<1> QED BY <1>1 DEF Queues

\* A goal enters the queue, or moves to its end.
LEMMA QueueGrows ==
  ASSUME NEW x, NEW y, NEW g \in Goals, Queues(x),
         \/ y.queue = Append(Without(x.queue, {g}), g)
         \/ y.queue = Append(x.queue, g) /\ x.status[g] # "Queued",
         \A h \in Goals : y.status[h] = "Queued" <=> x.status[h] = "Queued" \/ h = g
  PROVE  Queues(y)
<1>1. /\ x.queue \in Seq(Goals) /\ Once(x.queue)
      /\ Range(x.queue) = {h \in Goals : x.status[h] = "Queued"}
  BY DEF Queues
<1>2. \E q \in Seq(Goals) : /\ Once(q) /\ g \notin Range(q) /\ y.queue = Append(q, g)
                            /\ Range(q) = Range(x.queue) \ {g}
  <2>1. CASE y.queue = Append(x.queue, g) /\ x.status[g] # "Queued"
    <3>1. g \notin Range(x.queue)
      BY <1>1, <2>1
    <3>2. Range(x.queue) = Range(x.queue) \ {g}
      BY <3>1
    <3> QED BY <1>1, <2>1, <3>1, <3>2
  <2>2. CASE y.queue = Append(Without(x.queue, {g}), g)
    <3> DEFINE w == Without(x.queue, {g})
    <3>1. w \in Seq(Goals) /\ Once(w) /\ Range(w) = Range(x.queue) \ {g}
      BY <1>1, WithoutOnce
    <3> HIDE DEF w
    <3> QED BY <2>2, <3>1 DEF w
  <2> QED BY <2>1, <2>2
<1>3. PICK q \in Seq(Goals) : /\ Once(q) /\ g \notin Range(q) /\ y.queue = Append(q, g)
                              /\ Range(q) = Range(x.queue) \ {g}
  BY <1>2
<1>4. y.queue \in Seq(Goals) /\ Once(y.queue) /\ Range(y.queue) = Range(q) \cup {g}
  BY <1>3, AppendOnce
<1>5. Range(y.queue) = {h \in Goals : y.status[h] = "Queued"}
  BY <1>1, <1>3, <1>4
<1> QED BY <1>4, <1>5 DEF Queues

\* The goals in S are queued again, in any order.
LEMMA QueueGathers ==
  ASSUME NEW x, NEW y, NEW S \in SUBSET Goals, NEW order \in SetToSeqs(S), Queues(x),
         y.queue = Without(x.queue, Range(order)) \o order,
         \A h \in Goals : y.status[h] = "Queued" <=> x.status[h] = "Queued" \/ h \in S
  PROVE  Queues(y) /\ Range(order) = S
<1>1. IsFiniteSet(S)
  BY CoordinatorAssumption, FS_Subset
<1>2. Range(order) = S
  BY <1>1, OrderHasAll
<1>3. order \in Seq(Goals) /\ Once(order)
  <2>1. Cardinality(S) \in Nat
    BY <1>1, FS_CardinalityType
  <2>2. /\ order \in [1..Cardinality(S) -> S]
        /\ \A i, j \in 1..Cardinality(S) : i # j => order[i] # order[j]
    BY DEF SetToSeqs
  <2>3. order \in [1..Cardinality(S) -> Goals]
    BY <2>2
  <2>4. order \in Seq(Goals)
    BY <2>1, <2>3, SeqDef
  <2> QED BY <2>2, <2>4 DEF Once
<1> DEFINE w == Without(x.queue, S)
<1>4. /\ w \in Seq(Goals) /\ Once(w) /\ Range(w) = Range(x.queue) \ S
      /\ Range(x.queue) = {h \in Goals : x.status[h] = "Queued"}
  BY WithoutOnce DEF Queues
<1>5. y.queue = w \o order
  BY <1>2
<1> HIDE DEF w
<1>6. /\ y.queue \in Seq(Goals) /\ Once(y.queue) /\ Range(y.queue) = Range(w) \cup Range(order)
  <2>1. Range(w) \cap Range(order) = {}
    BY <1>2, <1>4
  <2> QED BY <1>3, <1>4, <1>5, <2>1, ConcatOnce
<1>7. Range(y.queue) = {h \in Goals : y.status[h] = "Queued"}
  BY <1>2, <1>4, <1>6
<1> QED BY <1>2, <1>6, <1>7 DEF Queues

\* No run is added and no goal returns to where it has none.
LEMMA FitStays ==
  ASSUME NEW x, NEW y, Fits(x), y.approved \subseteq Goals, y.epoch = x.epoch,
         \A g \in Goals : Len(y.runs[g]) = Len(x.runs[g]),
         \A g \in Goals : y.status[g] \in {"Absent", "Proposed"}
                            => x.status[g] \in {"Absent", "Proposed"}
  PROVE  Fits(y)
  BY DEF Fits

\* No edge opens.
LEMMA WantedStays ==
  ASSUME NEW x, NEW y, Wanted(x),
         \A g, h \in Goals : \/ y.edges[<<g, h>>] = x.edges[<<g, h>>]
                             \/ y.edges[<<g, h>>].state # "Open"
  PROVE  Wanted(y)
  BY DEF Wanted

\* The newest run of h that is over was approved.
ApprovedIn(x, h) ==
  \E k \in Attempts(x, h) : /\ x.runs[h][k].state \in RunOver /\ x.runs[h][k].outcome = "approved"
                            /\ \A j \in Attempts(x, h) : x.runs[h][j].state \in RunOver => j <= k

\* What each kind of edge asks of h.
LEMMA MetMeans ==
  ASSUME NEW x, NEW h
  PROVE  /\ Met(x, h, "terminal") <=> x.status[h] \in Ended
         /\ Met(x, h, "success") <=> x.status[h] = "Succeeded"
         /\ Met(x, h, "approved") <=> ApprovedIn(x, h)
<1>1. Met(x, h, "terminal") <=> x.status[h] \in Ended
  BY DEF Met
<1>2. Met(x, h, "success") <=> x.status[h] = "Succeeded"
  BY DEF Met
<1>3. Met(x, h, "approved") <=> ApprovedIn(x, h)
  BY DEF Met, ApprovedIn
<1> QED BY <1>1, <1>2, <1>3

\* Nothing about h that an open edge may ask for comes true, but for the end of
\* a goal by cancellation.
NoNewVerdict(x, y, h) ==
  /\ y.status[h] \in {"Succeeded", "Failed"} => x.status[h] = y.status[h]
  /\ \/ \A k \in Attempts(y, h) : y.runs[h][k].state \in RunOver =>
          k \in Attempts(x, h) /\ x.runs[h][k].state \in RunOver
     \/ /\ Len(y.runs[h]) \in Attempts(y, h)
        /\ y.runs[h][Len(y.runs[h])].state \in RunOver
        /\ y.runs[h][Len(y.runs[h])].outcome # "approved"

\* A run that is over stays the newest one until another is.
LEMMA NoNewApproval ==
  ASSUME NEW x, Typed(x), NEW y, Typed(y), Kept(x, y), NEW h \in Goals, NoNewVerdict(x, y, h),
         ApprovedIn(y, h)
  PROVE  ApprovedIn(x, h)
<1>1. PICK k \in Attempts(y, h) :
        /\ y.runs[h][k].state \in RunOver /\ y.runs[h][k].outcome = "approved"
        /\ \A j \in Attempts(y, h) : y.runs[h][j].state \in RunOver => j <= k
  BY DEF ApprovedIn
<1>2. \A k2 \in Attempts(y, h) : k2 \in Nat /\ k2 <= Len(y.runs[h]) /\ Len(y.runs[h]) \in Nat
  <2>1. y.runs[h] \in Seq(Run)
    BY DEF Typed
  <2>2. DOMAIN y.runs[h] = 1..Len(y.runs[h]) /\ Len(y.runs[h]) \in Nat
    BY <2>1
  <2> QED BY <2>2 DEF Attempts
<1>3. CASE \A i \in Attempts(y, h) : y.runs[h][i].state \in RunOver =>
             i \in Attempts(x, h) /\ x.runs[h][i].state \in RunOver
  <2>1. k \in Attempts(x, h) /\ x.runs[h][k].state \in RunOver
    BY <1>1, <1>3
  <2>2. \A j \in Attempts(x, h) : /\ j \in Attempts(y, h)
                                  /\ x.runs[h][j].state \in RunOver
                                       => y.runs[h][j] = x.runs[h][j]
    BY DEF Kept
  <2> QED BY <1>1, <2>1, <2>2 DEF ApprovedIn
<1>4. CASE /\ Len(y.runs[h]) \in Attempts(y, h)
           /\ y.runs[h][Len(y.runs[h])].state \in RunOver
           /\ y.runs[h][Len(y.runs[h])].outcome # "approved"
  <2>1. Len(y.runs[h]) <= k /\ k <= Len(y.runs[h]) /\ k \in Nat /\ Len(y.runs[h]) \in Nat
    BY <1>1, <1>2, <1>4
  <2>2. k = Len(y.runs[h])
    BY <2>1
  <2> QED BY <1>1, <1>4, <2>2
<1> QED BY <1>3, <1>4 DEF NoNewVerdict

\* An edge that keeps a goal waiting does so until its child gets a verdict.
LEMMA BlocksStay ==
  ASSUME NEW x, Typed(x), NEW y, Typed(y), Kept(x, y), NEW g \in Goals, NEW h \in Goals,
         \/ y.edges[<<g, h>>] = x.edges[<<g, h>>] /\ NoNewVerdict(x, y, h)
         \/ y.edges[<<g, h>>].state \in {"Failed", "Cancelled"},
         Blocks(x, g, h)
  PROVE  Blocks(y, g, h)
<1>1. CASE y.edges[<<g, h>>].state \in {"Failed", "Cancelled"}
  BY <1>1 DEF Blocks
<1>2. CASE y.edges[<<g, h>>].state \notin {"Failed", "Cancelled"}
  <2> DEFINE e == x.edges[<<g, h>>]
  <2>1. e = y.edges[<<g, h>>] /\ NoNewVerdict(x, y, h) /\ e \in Edge
    BY <1>2 DEF Typed
  <2> HIDE DEF e
  <2>2. /\ e.state = "Open" /\ e.kind \in {"success", "terminal", "approved"}
        /\ \/ ~Met(x, h, e.kind)
           \/ e.kind = "terminal" /\ x.status[h] = "Cancelled"
    BY <1>2, <2>1 DEF Blocks, Overlooks, Edge, DependencyKind, e
  <2>3. CASE e.kind = "success"
    <3>1. x.status[h] # "Succeeded"
      BY <2>2, <2>3, MetMeans
    <3>2. y.status[h] # "Succeeded"
      BY <2>1, <3>1 DEF NoNewVerdict
    <3>3. ~Met(y, h, e.kind)
      BY <2>3, <3>2, MetMeans
    <3> QED BY <2>1, <2>2, <3>3 DEF Blocks
  <2>4. CASE e.kind = "terminal"
    <3>1. x.status[h] \notin {"Succeeded", "Failed"}
      <4>1. Met(x, h, "terminal") <=> x.status[h] \in Ended
        BY MetMeans
      <4> QED BY <2>2, <2>4, <4>1 DEF Ended
    <3>2. y.status[h] \notin {"Succeeded", "Failed"}
      BY <2>1, <3>1 DEF NoNewVerdict
    <3>3. Met(y, h, "terminal") <=> y.status[h] \in Ended
      BY MetMeans
    <3>4. ~Met(y, h, e.kind) \/ y.status[h] = "Cancelled"
      BY <2>4, <3>2, <3>3 DEF Ended
    <3> QED BY <2>1, <2>2, <2>4, <3>4 DEF Blocks, Overlooks
  <2>5. CASE e.kind = "approved"
    <3>1. ~ApprovedIn(x, h)
      BY <2>2, <2>5, MetMeans
    <3>2. ~ApprovedIn(y, h)
      BY <2>1, <3>1, NoNewApproval
    <3>3. ~Met(y, h, e.kind)
      BY <2>5, <3>2, MetMeans
    <3> QED BY <2>1, <2>2, <3>3 DEF Blocks
  <2> QED BY <2>2, <2>3, <2>4, <2>5
<1> QED BY <1>1, <1>2

\* Nobody is parked anew, edges at most fail or are cancelled, and no goal
\* that somebody waits for gets a verdict.
LEMMA WaitGoesOn ==
  ASSUME NEW x, Typed(x), NEW y, Typed(y), Kept(x, y), Wakes(x),
         \A g \in Goals : Parked(y, g) => Parked(x, g),
         \A g, h \in Goals : \/ x.edges[<<g, h>>].state = "None"
                             \/ y.edges[<<g, h>>] = x.edges[<<g, h>>]
                             \/ y.edges[<<g, h>>].state \in {"Failed", "Cancelled"},
         \A g, h \in Goals : y.edges[<<g, h>>].state = "Open" => NoNewVerdict(x, y, h)
  PROVE  Wakes(y)
<1> SUFFICES ASSUME NEW g \in Goals, Parked(y, g)
             PROVE  \E h \in Goals : Blocks(y, g, h)
  BY DEF Wakes
<1>1. PICK h \in Goals : Blocks(x, g, h)
  BY DEF Wakes
<1>2. x.edges[<<g, h>>].state \in {"Open", "Failed", "Cancelled"}
  BY <1>1 DEF Blocks, Overlooks
<1>3. CASE y.edges[<<g, h>>].state \in {"Failed", "Cancelled"}
  BY <1>3 DEF Blocks
<1>4. CASE y.edges[<<g, h>>].state \notin {"Failed", "Cancelled"}
  <2>1. y.edges[<<g, h>>] = x.edges[<<g, h>>] /\ y.edges[<<g, h>>].state = "Open"
    BY <1>2, <1>4
  <2>2. NoNewVerdict(x, y, h)
    BY <2>1
  <2> QED BY <1>1, <2>1, <2>2, BlocksStay
<1> QED BY <1>3, <1>4

\* One run of one goal turns: the verdicts on other goals stay.
LEMMA TurnGivesNoVerdict ==
  ASSUME NEW x, Typed(x), NEW y, Typed(y), NEW g \in Goals, NEW k \in Attempts(x, g),
         k = Len(x.runs[g]), NEW r \in Run, RunBecomes(x, y, g, k, r),
         r.state \in RunOver => r.outcome # "approved",
         \A h \in Goals : y.status[h] \in {"Succeeded", "Failed"} => x.status[h] = y.status[h],
         NEW h \in Goals
  PROVE  NoNewVerdict(x, y, h)
<1>1. /\ Attempts(y, h) = Attempts(x, h) /\ Len(y.runs[h]) = Len(x.runs[h])
      /\ \A j \in Attempts(x, h) : y.runs[h][j] = IF h = g /\ j = k THEN r ELSE x.runs[h][j]
  BY DEF RunBecomes
<1>2. CASE h = g /\ r.state \in RunOver
  <2>1. Len(y.runs[h]) = k /\ k \in Attempts(y, h) /\ y.runs[h][k] = r
    BY <1>1, <1>2
  <2> QED BY <1>2, <2>1 DEF NoNewVerdict
<1>3. CASE ~(h = g /\ r.state \in RunOver)
  <2>1. \A j \in Attempts(y, h) : y.runs[h][j].state \in RunOver =>
          j \in Attempts(x, h) /\ x.runs[h][j].state \in RunOver
    BY <1>1, <1>3
  <2> QED BY <2>1 DEF NoNewVerdict
<1> QED BY <1>2, <1>3

\* One run of one goal turns: no other goal is parked by it.
LEMMA TurnParksNoOther ==
  ASSUME NEW x, NEW y, Agrees(y), NEW g \in Goals, NEW k \in Attempts(x, g),
         NEW r \in Run, RunBecomes(x, y, g, k, r),
         k = Len(x.runs[g]) /\ (y.status[g] = "Waiting" => r.wait \notin Goals),
         \A h \in Goals \ {g} : y.status[h] = "Waiting" => x.status[h] = "Waiting",
         NEW h \in Goals, Parked(y, h)
  PROVE  Parked(x, h)
<1>1. /\ Attempts(y, h) = Attempts(x, h) /\ Len(y.runs[h]) = Len(x.runs[h])
      /\ \A j \in Attempts(x, h) : y.runs[h][j] = IF h = g /\ j = k THEN r ELSE x.runs[h][j]
  BY DEF RunBecomes
<1>2. y.status[h] = "Waiting" /\ y.runs[h][Len(y.runs[h])].wait \in Goals
  BY DEF Parked
<1>3. Len(y.runs[h]) \in Attempts(y, h)
  BY <1>2 DEF Agrees, GoalAgrees
<1>4. h # g
  BY <1>1, <1>2, <1>3
<1> QED BY <1>1, <1>2, <1>3, <1>4 DEF Parked

\* The newest run of a goal is parked, requeued or retried, and its edges stay.
LEMMA TurnCarries ==
  ASSUME NEW x, Typed(x), NEW y, Typed(y), Agrees(y), Kept(x, y),
         NEW g \in Goals, NEW k \in Attempts(x, g), k = Len(x.runs[g]),
         NEW r \in Run, RunBecomes(x, y, g, k, r),
         r.state \in RunOver => r.outcome # "approved",
         y.status[g] \in {"Waiting", "Queued"}, y.status[g] = "Waiting" => r.wait \notin Goals,
         \A h \in Goals \ {g} : y.status[h] = x.status[h],
         y.edges = x.edges, y.approved = x.approved, y.epoch = x.epoch
  PROVE  /\ Fits(x) => Fits(y)
         /\ Wakes(x) => Wakes(y)
<1>2. Fits(x) => Fits(y)
  <2> SUFFICES ASSUME Fits(x) PROVE Fits(y)
    OBVIOUS
  <2>1. \A h \in Goals : Len(y.runs[h]) = Len(x.runs[h])
    BY DEF RunBecomes
  <2>2. \A h \in Goals : y.status[h] \in {"Absent", "Proposed"}
                            => x.status[h] \in {"Absent", "Proposed"}
    OBVIOUS
  <2>3. y.approved \subseteq Goals
    BY DEF Fits
  <2> QED BY <2>1, <2>2, <2>3, FitStays
<1>3. Wakes(x) => Wakes(y)
  <2> SUFFICES ASSUME Wakes(x) PROVE Wakes(y)
    OBVIOUS
  <2>1. \A h \in Goals : y.status[h] \in {"Succeeded", "Failed"} => x.status[h] = y.status[h]
    OBVIOUS
  <2>2. \A h \in Goals : NoNewVerdict(x, y, h)
    BY <2>1, TurnGivesNoVerdict
  <2>3. \A h \in Goals \ {g} : y.status[h] = "Waiting" => x.status[h] = "Waiting"
    OBVIOUS
  <2>5. \A h \in Goals : Parked(y, h) => Parked(x, h)
    BY <2>3, TurnParksNoOther
  <2> QED BY <2>2, <2>5, WaitGoesOn
<1> QED BY <1>2, <1>3

-----------------------------------------------------------------------------
(* The operations on one run.                                              *)

\* What yielding changes.
LEMMA YieldedEffect ==
  ASSUME NEW x, Typed(x), Agrees(x), NEW g \in Goals, NEW k \in Attempts(x, g),
         x.runs[g][k].state = "Open", NEW why \in WaitReason
  PROVE  LET y == Yielded(x, g, k, why)
         IN /\ Typed(y) /\ Only(x, y, {"slots", "outbox", "runs", "status"})
            /\ y.status = [x.status EXCEPT ![g] = "Waiting"]
            /\ \E r \in Run : r.state = "Waiting" /\ r.wait = why /\ RunBecomes(x, y, g, k, r)
<1> DEFINE u == SupersedeDispatch(ReleaseSlot(x, g), g, k)
           v == [u EXCEPT !.runs[g][k].state = "Waiting", !.runs[g][k].wait = why]
           y == Yielded(x, g, k, why)
           r == [u.runs[g][k] EXCEPT !.state = "Waiting", !.wait = why]
<1>1. /\ Typed(u) /\ Only(x, u, {"slots", "outbox"})
  BY DetachEffect
<1>2. y = [v EXCEPT !.status[g] = "Waiting"]
  <2>1. y = [u EXCEPT !.runs[g][k].state = "Waiting", !.runs[g][k].wait = why,
                      !.status[g] = "Waiting"]
    BY DEF Yielded
  <2> HIDE DEF u, y
  <2> QED BY <1>1, <2>1 DEF Typed, Record, Fields
<1> HIDE DEF u, y
<1>3. u.runs = x.runs /\ k \in Attempts(u, g)
  BY <1>1 DEF Only, Record, Fields, Attempts
<1>4. /\ Typed(v) /\ Only(u, v, {"runs"})
      /\ r \in Run /\ r.state = "Waiting" /\ RunBecomes(u, v, g, k, r)
  BY <1>1, <1>3, ParkEffect
<1>5. r.wait = why
  <2>1. u.runs[g][k] \in Run
    BY <1>1, <1>3 DEF Typed, Attempts
  <2> QED BY <2>1 DEF Run
<1> HIDE DEF v, r
<1>6. Typed(y) /\ Only(v, y, {"status"}) /\ y.status = [v.status EXCEPT ![g] = "Waiting"]
  BY <1>2, <1>4, StatusEffect DEF Statuses
<1>7. /\ Only(x, y, {"slots", "outbox", "runs", "status"})
      /\ y.status = [x.status EXCEPT ![g] = "Waiting"]
      /\ y.runs = v.runs
  BY <1>1, <1>4, <1>6 DEF Only, Record, Fields
<1>8. RunBecomes(x, y, g, k, r)
  BY <1>3, <1>4, <1>7 DEF RunBecomes, Attempts
<1> QED BY <1>4, <1>5, <1>6, <1>7, <1>8 DEF y

\* A run that yields for another reason than a child.
LEMMA YieldCarries ==
  ASSUME Typed(c), Agrees(c), Typed(c'), Agrees(c'), Kept(c, c'),
         NEW g \in Goals, NEW k \in Attempts(c, g),
         NEW why \in {"verification", "other"}, CanYield(c, g, k), c' = Yielded(c, g, k, why)
  PROVE  Carries(c, c')
<1> DEFINE y == Yielded(c, g, k, why)
<1>1. why \in WaitReason /\ why \notin Goals /\ c.runs[g][k].state = "Open"
  BY CoordinatorAssumption DEF WaitReason, CanYield
<1>2. /\ Only(c, y, {"slots", "outbox", "runs", "status"})
      /\ y.status = [c.status EXCEPT ![g] = "Waiting"]
      /\ \E r \in Run : r.state = "Waiting" /\ r.wait = why /\ RunBecomes(c, y, g, k, r)
  BY <1>1, YieldedEffect
<1>3. y = c'
  OBVIOUS
<1> HIDE DEF y
<1>4. PICK r \in Run : r.state = "Waiting" /\ r.wait = why /\ RunBecomes(c, y, g, k, r)
  BY <1>2
<1>5. /\ y.edges = c.edges /\ y.approved = c.approved /\ y.epoch = c.epoch /\ y.queue = c.queue
  BY <1>2 DEF Only, Record, Fields
<1>6. k = Len(c.runs[g]) /\ c.status[g] = "Active"
  BY <1>1, OpenHolds DEF Holding
<1>7. r.state \notin RunOver /\ r.wait \notin Goals
  BY <1>1, <1>4 DEF RunOver, Ended
<1>8. /\ Fits(c) => Fits(y)
      /\ Wakes(c) => Wakes(y)
  <2>1. /\ Typed(y) /\ Agrees(y) /\ Kept(c, y)
        /\ y.status[g] = "Waiting" /\ \A h \in Goals \ {g} : y.status[h] = c.status[h]
    BY <1>2, <1>3 DEF Typed
  <2>2. /\ r.state \in RunOver => r.outcome # "approved"
        /\ y.status[g] \in {"Waiting", "Queued"}
        /\ y.status[g] = "Waiting" => r.wait \notin Goals
    BY <1>7, <2>1
  <2>3. k = Len(c.runs[g]) /\ RunBecomes(c, y, g, k, r)
    BY <1>4, <1>6
  <2> QED BY ONLY Typed(c), g \in Goals, k \in Attempts(c, g), r \in Run,  <1>5, <2>1, <2>2, <2>3,
              TurnCarries
<1>9. \A h \in Goals : y.status[h] = "Queued" <=> c.status[h] = "Queued"
  BY <1>2, <1>6 DEF Typed
<1>10. Queues(c) => Queues(y)
  BY <1>5, <1>9, QueueStays
<1>w. Wanted(c) => Wanted(y)
  BY ONLY <1>5 DEF Wanted
<1> QED BY <1>3, <1>8, <1>10, <1>w DEF Carries

\* What ending a run changes, with the outcome it gets.
LEMMA EndRunTurns ==
  ASSUME NEW x, Typed(x), NEW g \in Goals, NEW k \in Attempts(x, g),
         NEW state \in Holding \cup {"Waiting"} \cup RunOver,
         NEW outcome \in {"none", "approved", "other"}
  PROVE  LET y == EndRun(x, g, k, state, outcome)
         IN /\ Typed(y) /\ Only(x, y, {"runs"})
            /\ \E r \in Run : r.state = state /\ r.outcome = outcome /\ RunBecomes(x, y, g, k, r)
<1> DEFINE y == EndRun(x, g, k, state, outcome)
           r == [x.runs[g][k] EXCEPT !.state = state, !.outcome = outcome]
<1>1. x.runs[g] \in Seq(Run) /\ x.runs[g][k] \in Run
  BY DEF Typed, Attempts
<1>2. r \in Run /\ r.state = state /\ r.outcome = outcome
  BY <1>1 DEF Run
<1>3. Only(x, y, {"runs"}) /\ y.runs = [x.runs EXCEPT ![g] = [@ EXCEPT ![k] = r]]
  BY <1>1 DEF EndRun, Typed, Record, Fields, Only, Run, Attempts
<1> HIDE DEF r, y
<1>4. y.runs \in [Goals -> Seq(Run)] /\ RunBecomes(x, y, g, k, r)
  BY <1>2, <1>3, OneRun DEF Typed
<1>5. Typed(y)
  BY <1>3, <1>4 DEF Typed, Record, Fields, Only
<1> QED BY <1>2, <1>3, <1>4, <1>5 DEF y

\* What taking a run off its agent changes.
LEMMA DetachedEffect ==
  ASSUME NEW x, Typed(x), Agrees(x), NEW g \in Goals, NEW k \in Attempts(x, g)
  PROVE  Typed(Detached(x, g, k)) /\ Only(x, Detached(x, g, k), {"slots", "outbox"})
<1>1. CASE x.runs[g][k].state = "Open"
  <2>1. Detached(x, g, k) = SupersedeDispatch(ReleaseSlot(x, g), g, k)
    BY <1>1 DEF Detached
  <2>2. /\ Typed(SupersedeDispatch(ReleaseSlot(x, g), g, k))
        /\ Only(x, SupersedeDispatch(ReleaseSlot(x, g), g, k), {"slots", "outbox"})
    BY <1>1, DetachEffect
  <2> QED BY <2>1, <2>2
<1>2. CASE x.runs[g][k].state # "Open"
  <2>1. Detached(x, g, k) = x
    BY <1>2 DEF Detached
  <2> QED BY <2>1 DEF Only, Typed
<1> QED BY <1>1, <1>2

\* Where requeueing puts a goal in the queue.
LEMMA RequeueQueue ==
  ASSUME NEW x, Typed(x), NEW g \in Goals
  PROVE  Requeue(x, g).queue = Append(Without(x.queue, {g}), g)
  BY DEF Requeue, DropQueue, Typed, Record, Fields

\* A run that is parked or over without approval, and its goal queued again.
LEMMA RequeueCarries ==
  ASSUME NEW x, Typed(x), NEW g \in Goals, NEW k \in Attempts(x, g), k = Len(x.runs[g]),
         NEW u, Typed(u), Only(x, u, {"slots", "outbox", "runs"}),
         NEW r \in Run, RunBecomes(x, u, g, k, r),
         r.state \in RunOver => r.outcome # "approved",
         NEW y, y = Requeue(u, g), Typed(y), Agrees(y), Kept(x, y)
  PROVE  Carries(x, y)
<1>1. /\ Only(u, y, {"status", "queue"}) /\ y.status = [u.status EXCEPT ![g] = "Queued"]
      /\ y.queue = Append(Without(u.queue, {g}), g)
  BY RequeueEffect, RequeueQueue
<1>2. /\ y.edges = x.edges /\ y.approved = x.approved /\ y.epoch = x.epoch
      /\ y.runs = u.runs /\ u.status = x.status /\ u.queue = x.queue
  BY <1>1 DEF Only, Record, Fields
<1>3. RunBecomes(x, y, g, k, r)
  BY <1>2 DEF RunBecomes, Attempts
<1>4. y.status[g] = "Queued" /\ \A h \in Goals \ {g} : y.status[h] = x.status[h]
  BY <1>1, <1>2 DEF Typed
<1>5. /\ Fits(x) => Fits(y)
      /\ Wakes(x) => Wakes(y)
  <2>1. /\ y.status[g] \in {"Waiting", "Queued"}
        /\ y.status[g] = "Waiting" => r.wait \notin Goals
    BY <1>4
  <2> QED BY <1>2, <1>3, <1>4, <2>1, TurnCarries
<1>6. Queues(x) => Queues(y)
  <2>1. y.queue = Append(Without(x.queue, {g}), g)
    BY <1>1, <1>2
  <2>2. \A h \in Goals : y.status[h] = "Queued" <=> x.status[h] = "Queued" \/ h = g
    BY <1>4
  <2> QED BY <2>1, <2>2, QueueGrows, ZenonT(40)
<1>w. Wanted(x) => Wanted(y)
  BY ONLY <1>2 DEF Wanted
<1> QED BY <1>5, <1>6, <1>w DEF Carries

\* The runtime could not hand the run over.
LEMMA RollbackCarries ==
  ASSUME Typed(c), Agrees(c), Typed(c'), Agrees(c'), Kept(c, c'),
         NEW g \in Goals, NEW k \in Attempts(c, g), Rollback(g, k)
  PROVE  Carries(c, c')
<1> DEFINE u == SupersedeDispatch(ReleaseSlot(c, g), g, k)
           v == [u EXCEPT !.runs[g][k].state = "Waiting", !.runs[g][k].wait = "other"]
           r == [u.runs[g][k] EXCEPT !.state = "Waiting", !.wait = "other"]
<1>1. c.runs[g][k].state = "Open" /\ c' = Requeue(v, g)
  BY DEF Rollback, CanRollback
<1>2. Typed(u) /\ Only(c, u, {"slots", "outbox"})
  BY <1>1, DetachEffect
<1> HIDE DEF u
<1>3. u.runs = c.runs /\ k \in Attempts(u, g)
  BY <1>2 DEF Only, Record, Fields, Attempts
<1>4. /\ Typed(v) /\ Only(u, v, {"runs"})
      /\ r \in Run /\ r.state = "Waiting" /\ RunBecomes(u, v, g, k, r)
  BY <1>2, <1>3, ParkEffect DEF WaitReason
<1> HIDE DEF v, r
<1>5. RunBecomes(c, v, g, k, r) /\ Only(c, v, {"slots", "outbox", "runs"})
  <2>1. RunBecomes(c, v, g, k, r)
    BY <1>3, <1>4 DEF RunBecomes, Attempts
  <2> QED BY <1>2, <1>4, <2>1 DEF Only, Record, Fields
<1>6. k = Len(c.runs[g]) /\ r.state \notin RunOver
  BY <1>1, <1>4, OpenHolds DEF Holding, RunOver, Ended
<1>7. r.state \in RunOver => r.outcome # "approved"
  BY <1>6
<1> QED BY <1>1, <1>4, <1>5, <1>6, <1>7, RequeueCarries

\* A run that ends does not approve what it ends without.
LEMMA RetryCarries ==
  ASSUME Typed(c), Agrees(c), Typed(c'), Agrees(c'), Kept(c, c'),
         NEW g \in Goals, NEW k \in Attempts(c, g), k = Len(c.runs[g]),
         c' = Requeue(EndRun(Detached(c, g, k), g, k, "Failed", "other"), g)
  PROVE  Carries(c, c')
<1> DEFINE u == Detached(c, g, k)
           v == EndRun(u, g, k, "Failed", "other")
<1>1. Typed(u) /\ Only(c, u, {"slots", "outbox"})
  BY DetachedEffect
<1> HIDE DEF u
<1>2. u.runs = c.runs /\ k \in Attempts(u, g)
  BY <1>1 DEF Only, Record, Fields, Attempts
<1>3. /\ Typed(v) /\ Only(u, v, {"runs"})
      /\ \E r \in Run : r.state = "Failed" /\ r.outcome = "other" /\ RunBecomes(u, v, g, k, r)
  BY <1>1, <1>2, EndRunTurns DEF RunOver, Ended
<1>4. c' = Requeue(v, g)
  BY DEF u
<1> HIDE DEF v
<1>5. PICK r \in Run : r.state = "Failed" /\ r.outcome = "other" /\ RunBecomes(u, v, g, k, r)
  BY <1>3
<1>6. RunBecomes(c, v, g, k, r) /\ Only(c, v, {"slots", "outbox", "runs"})
  <2>1. RunBecomes(c, v, g, k, r)
    BY <1>2, <1>5 DEF RunBecomes, Attempts
  <2> QED BY <1>1, <1>3, <2>1 DEF Only, Record, Fields
<1>7. r.state \in RunOver => r.outcome # "approved"
  BY <1>5
<1> QED BY <1>3, <1>4, <1>6, <1>7, RequeueCarries

\* Run k of g comes to be in the given state with the given outcome.
RunEnds(x, y, g, k, state, outcome) ==
  \E r \in Run : r.state = state /\ r.outcome = outcome /\ RunBecomes(x, y, g, k, r)

\* What a run's end with its goal changes.
LEMMA EndedEffect ==
  ASSUME NEW x, Typed(x), Agrees(x), NEW g \in Goals, NEW k \in Attempts(x, g),
         NEW status \in {"Succeeded", "Failed"}, NEW outcome \in {"none", "approved", "other"},
         NEW y, y = Close(EndRun(Detached(x, g, k), g, k, status, outcome), g, status)
  PROVE  /\ Typed(y) /\ Only(x, y, {"slots", "outbox", "runs", "status", "live"})
         /\ \A h \in Goals : y.status[h] = IF h = g THEN status ELSE x.status[h]
         /\ RunEnds(x, y, g, k, status, outcome)
<1> DEFINE u == Detached(x, g, k)
           v == EndRun(u, g, k, status, outcome)
<1>1. Typed(u) /\ Only(x, u, {"slots", "outbox"})
  BY DetachedEffect
<1> HIDE DEF u
<1>2. u.runs = x.runs /\ k \in Attempts(u, g)
  BY <1>1 DEF Only, Record, Fields, Attempts
<1>3. /\ Typed(v) /\ Only(u, v, {"runs"})
      /\ \E r \in Run : r.state = status /\ r.outcome = outcome /\ RunBecomes(u, v, g, k, r)
  <2>1. status \in Holding \cup {"Waiting"} \cup RunOver
    BY DEF RunOver, Ended
  <2> QED BY <1>1, <1>2, <2>1, EndRunTurns
<1>y. y = Close(v, g, status)
  BY DEF u
<1> HIDE DEF v
<1>4. PICK r \in Run : r.state = status /\ r.outcome = outcome /\ RunBecomes(u, v, g, k, r)
  BY <1>3
<1>5. /\ Typed(y) /\ Only(v, y, {"status", "live"})
      /\ y.status = [v.status EXCEPT ![g] = status]
  <2>1. Typed(v) /\ status \in Statuses
    BY <1>3 DEF Statuses, Ended
  <2> QED BY ONLY g \in Goals, <1>y, <2>1, CloseEffect
<1>6. /\ Only(x, y, {"slots", "outbox", "runs", "status", "live"})
      /\ y.status = [x.status EXCEPT ![g] = status] /\ y.runs = v.runs
  BY <1>1, <1>3, <1>5 DEF Only, Record, Fields
<1>7. RunBecomes(x, y, g, k, r)
  BY <1>2, <1>4, <1>6 DEF RunBecomes, Attempts
<1>8. \A h \in Goals : y.status[h] = IF h = g THEN status ELSE x.status[h]
  BY <1>6 DEF Typed
<1> QED BY <1>4, <1>5, <1>6, <1>7, <1>8 DEF RunEnds

\* What a failure does to the goals that wait for it.
LEMMA FailDependentsEffect ==
  ASSUME NEW x, Typed(x), NEW g \in Goals, CanFailDependents(x, g),
         NEW y, y = FailDependents(x, g)
  PROVE  /\ Only(x, y, {"status", "queue", "edges"})
         /\ \A p \in Goals :
              y.status[p] = IF p \in Blockable(x, g) THEN "Blocked" ELSE x.status[p]
         /\ \A p \in Blockable(x, g) : x.status[p] \in {"Queued", "Waiting"}
         /\ y.queue = Without(x.queue, Blockable(x, g))
         /\ \A p, h \in Goals : /\ h # g => y.edges[<<p, h>>] = x.edges[<<p, h>>]
                                /\ y.edges[<<p, g>>].state # "Open"
                                /\ \/ y.edges[<<p, h>>] = x.edges[<<p, h>>]
                                   \/ y.edges[<<p, h>>].state = "Failed"
<1> DEFINE B == Blockable(x, g)
           z == [x EXCEPT !.status = [p \in Goals |-> IF p \in B THEN "Blocked" ELSE @[p]],
                          !.queue = Without(@, B)]
<1>1. /\ Only(x, z, {"status", "queue"})
      /\ z.status = [p \in Goals |-> IF p \in B THEN "Blocked" ELSE x.status[p]]
      /\ z.queue = Without(x.queue, B)
  BY DEF Typed, Record, Fields, Only
<1>2. y = SettleEdges(z, Goals \X {g}, "Failed")
  BY DEF FailDependents
<1> HIDE DEF z
<1>3. \A p \in B : x.status[p] \in {"Queued", "Waiting"}
  <2>1. \A p \in B : /\ ValidMove(x.status[p], "Blocked") /\ x.status[p] \in Statuses
                     /\ x.status[p] \notin {"Active", "Proposed"}
    BY DEF CanFailDependents, Blockable, Parents, Typed
  <2> QED BY <2>1 DEF ValidMove, Statuses, Ended
<1> HIDE DEF B
<1>4. /\ Only(z, y, {"edges"})
      /\ y.edges = [e \in Goals \X Goals |->
                      IF z.edges[e].state = "Open" /\ e \in Goals \X {g}
                      THEN [z.edges[e] EXCEPT !.state = "Failed"] ELSE z.edges[e]]
  BY <1>1, <1>2 DEF SettleEdges, Record, Fields, Only
<1>5. /\ Only(x, y, {"status", "queue", "edges"}) /\ z.edges = x.edges
      /\ y.status = z.status /\ y.queue = z.queue
  BY <1>1, <1>4 DEF Only, Record, Fields
<1>6. ASSUME NEW p \in Goals, NEW h \in Goals
      PROVE  /\ h # g => y.edges[<<p, h>>] = x.edges[<<p, h>>]
             /\ y.edges[<<p, g>>].state # "Open"
             /\ \/ y.edges[<<p, h>>] = x.edges[<<p, h>>]
                \/ y.edges[<<p, h>>].state = "Failed"
  <2>1. ASSUME NEW i \in Goals
        PROVE  /\ x.edges[<<p, i>>] \in Edge
               /\ y.edges[<<p, i>>] = IF x.edges[<<p, i>>].state = "Open" /\ i = g
                                      THEN [x.edges[<<p, i>>] EXCEPT !.state = "Failed"]
                                      ELSE x.edges[<<p, i>>]
    BY <1>4, <1>5 DEF Typed
  <2>2. ASSUME NEW e \in Edge PROVE [e EXCEPT !.state = "Failed"].state = "Failed"
    BY DEF Edge
  <2>3. ASSUME NEW i \in Goals
        PROVE  IF x.edges[<<p, i>>].state = "Open" /\ i = g
               THEN y.edges[<<p, i>>].state = "Failed"
               ELSE y.edges[<<p, i>>] = x.edges[<<p, i>>]
    BY <2>1, <2>2
  <2> QED BY <2>3
<1> QED BY <1>1, <1>3, <1>5, <1>6 DEF B

\* One run of one goal turns: the verdicts on the others stay.
LEMMA TurnLeavesOthers ==
  ASSUME NEW x, NEW y, NEW g \in Goals, NEW k, NEW r, RunBecomes(x, y, g, k, r),
         NEW h \in Goals, h # g,
         y.status[h] \in {"Succeeded", "Failed"} => x.status[h] = y.status[h]
  PROVE  NoNewVerdict(x, y, h)
<1>1. /\ Attempts(y, h) = Attempts(x, h)
      /\ \A j \in Attempts(x, h) : y.runs[h][j] = x.runs[h][j]
  BY DEF RunBecomes
<1> QED BY <1>1 DEF NoNewVerdict

\* A failure that is not tried again.
LEMMA FinalFailureCarries ==
  ASSUME Typed(c), Agrees(c), Typed(c'), Agrees(c'), Kept(c, c'),
         NEW g \in Goals, NEW k \in Attempts(c, g), k = Len(c.runs[g]),
         ValidMove(c.status[g], "Failed"),
         CanFailDependents(EndRun(Detached(c, g, k), g, k, "Failed", "other"), g),
         c' = FailDependents(Close(EndRun(Detached(c, g, k), g, k, "Failed", "other"),
                                   g, "Failed"), g)
  PROVE  Carries(c, c')
<1> DEFINE u == Detached(c, g, k)
           v == EndRun(u, g, k, "Failed", "other")
           z == Close(v, g, "Failed")
           B == Blockable(z, g)
<1>1. /\ Typed(z) /\ Only(c, z, {"slots", "outbox", "runs", "status", "live"})
      /\ \A h \in Goals : z.status[h] = IF h = g THEN "Failed" ELSE c.status[h]
      /\ RunEnds(c, z, g, k, "Failed", "other")
  <2>1. z = Close(EndRun(Detached(c, g, k), g, k, "Failed", "other"), g, "Failed")
    OBVIOUS
  <2> HIDE DEF z
  <2>2. "Failed" \in {"Succeeded", "Failed"} /\ "other" \in {"none", "approved", "other"}
    OBVIOUS
  <2> QED BY ONLY Typed(c), Agrees(c), g \in Goals, k \in Attempts(c, g), <2>1, <2>2, EndedEffect
<1>2. Typed(v)
  <2>1. Typed(u) /\ Only(c, u, {"slots", "outbox"})
    BY DetachedEffect
  <2> HIDE DEF u
  <2>2. k \in Attempts(u, g)
    BY <2>1 DEF Only, Record, Fields, Attempts
  <2> QED BY <2>1, <2>2, EndRunEffect DEF RunOver, Ended
<1>3. CanFailDependents(v, g) /\ c' = FailDependents(z, g)
  OBVIOUS
<1> HIDE DEF u, v
<1>4. CanFailDependents(z, g)
  <2>1. Only(v, z, {"status", "live"}) /\ z.status = [v.status EXCEPT ![g] = "Failed"]
    BY <1>2, CloseEffect DEF Statuses, Ended
  <2>2. /\ z.edges = v.edges /\ z.status[g] = "Failed"
        /\ \A p \in Goals : p # g => z.status[p] = v.status[p]
    BY <1>2, <2>1 DEF Only, Record, Fields, Typed
  <2> HIDE DEF z
  <2> QED BY <1>3, <2>2 DEF CanFailDependents, Blockable, Parents, Ended
<1> HIDE DEF z
<1>5. PICK r \in Run : r.state = "Failed" /\ r.outcome = "other" /\ RunBecomes(c, z, g, k, r)
  BY <1>1 DEF RunEnds
<1>6. /\ Only(z, c', {"status", "queue", "edges"})
      /\ \A p \in Goals : c'.status[p] = IF p \in B THEN "Blocked" ELSE z.status[p]
      /\ \A p \in B : z.status[p] \in {"Queued", "Waiting"}
      /\ c'.queue = Without(z.queue, B)
      /\ \A p, h \in Goals : /\ h # g => c'.edges[<<p, h>>] = z.edges[<<p, h>>]
                             /\ c'.edges[<<p, g>>].state # "Open"
                             /\ \/ c'.edges[<<p, h>>] = z.edges[<<p, h>>]
                                \/ c'.edges[<<p, h>>].state = "Failed"
  <2>1. Typed(z) /\ CanFailDependents(z, g) /\ c' = FailDependents(z, g)
    BY <1>1, <1>3, <1>4
  <2> QED BY ONLY g \in Goals, <2>1, FailDependentsEffect DEF B
<1>7. g \notin B /\ B \subseteq Goals
  <2>1. z.status[g] = "Failed"
    BY ONLY g \in Goals, Typed(c), <1>1 DEF Typed
  <2> QED BY ONLY <2>1 DEF Blockable, Parents, Ended
<1> HIDE DEF B
<1>8. /\ z.queue = c.queue /\ z.edges = c.edges /\ c'.runs = z.runs
      /\ c'.approved = c.approved /\ c'.epoch = c.epoch
  BY ONLY <1>1, <1>6 DEF Only, Record, Fields
<1>9. RunBecomes(c, c', g, k, r)
  BY ONLY g \in Goals, <1>5, <1>8 DEF RunBecomes, Attempts
<1>10. \A p \in Goals : /\ p = g => c'.status[p] = "Failed"
                        /\ p # g /\ p \notin B => c'.status[p] = c.status[p]
                        /\ p \in B => /\ c'.status[p] = "Blocked" /\ p # g
                                      /\ c.status[p] \in {"Queued", "Waiting"}
  BY ONLY g \in Goals, Typed(c), <1>1, <1>6, <1>7 DEF Typed
<1>11. c.status[g] \in {"Active", "Waiting", "Blocked"}
  <2>1. c.status[g] \in Statuses
    BY DEF Typed
  <2> QED BY <2>1 DEF ValidMove, Statuses, Ended
<1>12. Queues(c) => Queues(c')
  <2> SUFFICES ASSUME Queues(c) PROVE Queues(c')
    OBVIOUS
  <2>1. \A p \in Goals : c'.status[p] = "Queued" <=> c.status[p] = "Queued" /\ p \notin B
    BY ONLY g \in Goals, <1>10, <1>11
  <2>2. c'.queue = Without(c.queue, B)
    BY ONLY <1>6, <1>8
  <2> QED BY ONLY Queues(c), <2>1, <2>2, QueueDrops
<1>13. Fits(c) => Fits(c')
  <2> SUFFICES ASSUME Fits(c) PROVE Fits(c')
    OBVIOUS
  <2>1. \A h \in Goals : Len(c'.runs[h]) = Len(c.runs[h])
    BY ONLY <1>9 DEF RunBecomes
  <2>2. \A h \in Goals : c'.status[h] \in {"Absent", "Proposed"}
                            => c.status[h] \in {"Absent", "Proposed"}
    BY <1>10
  <2>3. c'.approved \subseteq Goals
    BY <1>8 DEF Fits
  <2> QED BY ONLY Fits(c), <1>8, <2>1, <2>2, <2>3, FitStays
<1>14. Wakes(c) => Wakes(c')
  <2> SUFFICES ASSUME Wakes(c) PROVE Wakes(c')
    OBVIOUS
  <2>1. ASSUME NEW h \in Goals, Parked(c', h) PROVE Parked(c, h)
    <3>1. k = Len(c.runs[g]) /\ (c'.status[g] = "Waiting" => r.wait \notin Goals)
      BY <1>10
    <3>2. \A p \in Goals \ {g} : c'.status[p] = "Waiting" => c.status[p] = "Waiting"
      BY <1>10
    <3> QED BY ONLY Agrees(c'), g \in Goals, k \in Attempts(c, g), r \in Run, h \in Goals,
                <1>9, <2>1, <3>1, <3>2, TurnParksNoOther
  <2>2. ASSUME NEW p \in Goals, NEW h \in Goals
        PROVE  /\ \/ c'.edges[<<p, h>>] = c.edges[<<p, h>>]
                  \/ c'.edges[<<p, h>>].state \in {"Failed", "Cancelled"}
               /\ c'.edges[<<p, h>>].state = "Open" => h # g
    BY ONLY <1>6, <1>8
  <2>3. ASSUME NEW p \in Goals, NEW h \in Goals, c'.edges[<<p, h>>].state = "Open"
        PROVE  NoNewVerdict(c, c', h)
    <3>1. h # g
      BY <2>2, <2>3
    <3>2. c'.status[h] \in {"Succeeded", "Failed"} => c.status[h] = c'.status[h]
      BY <1>10, <3>1
    <3> QED BY ONLY g \in Goals, h \in Goals, <1>9, <3>1, <3>2, TurnLeavesOthers
  <2> QED BY ONLY Typed(c), Typed(c'), Kept(c, c'), Wakes(c), <2>1, <2>2, <2>3, WaitGoesOn
<1>w. Wanted(c) => Wanted(c')
  <2>1. \A p, h \in Goals : \/ c'.edges[<<p, h>>] = c.edges[<<p, h>>]
                            \/ c'.edges[<<p, h>>].state # "Open"
    BY ONLY <1>6, <1>8
  <2> QED BY <2>1, WantedStays
<1> QED BY <1>12, <1>13, <1>14, <1>w DEF Carries

\* A reported failure, tried again or not.
LEMMA FailureCarries ==
  ASSUME Typed(c), Agrees(c), Typed(c'), Agrees(c'), Kept(c, c'),
         NEW g \in Goals, NEW k \in Attempts(c, g), NEW retry \in BOOLEAN,
         CompleteFailure(g, k, retry)
  PROVE  Carries(c, c')
<1> DEFINE v == EndRun(Detached(c, g, k), g, k, "Failed", "other")
<1>1. /\ k = Len(c.runs[g])
      /\ \/ c' = Requeue(v, g)
         \/ /\ ValidMove(c.status[g], "Failed")
            /\ CanFailDependents(v, g)
            /\ c' = FailDependents(Close(v, g, "Failed"), g)
  BY DEF CompleteFailure, CanFail, Failed, CanComplete
<1> QED BY <1>1, RetryCarries, FinalFailureCarries

\* What settling edges changes, edge by edge.
LEMMA SettledEdges ==
  ASSUME NEW x, Typed(x), NEW E, NEW verdict \in Settled,
         NEW y, y = SettleEdges(x, E, verdict)
  PROVE  /\ Typed(y) /\ Only(x, y, {"edges"})
         /\ \A p, h \in Goals : IF x.edges[<<p, h>>].state = "Open" /\ <<p, h>> \in E
                                THEN y.edges[<<p, h>>].state = verdict
                                ELSE y.edges[<<p, h>>] = x.edges[<<p, h>>]
<1>1. Typed(y) /\ Only(x, y, {"edges"})
  BY SettleEdgesEffect
<1>2. y.edges = [e \in Goals \X Goals |->
                   IF x.edges[e].state = "Open" /\ e \in E
                   THEN [x.edges[e] EXCEPT !.state = verdict] ELSE x.edges[e]]
  BY DEF SettleEdges, Typed, Record, Fields
<1>3. ASSUME NEW e \in Edge PROVE [e EXCEPT !.state = verdict].state = verdict
  BY DEF Edge
<1>4. ASSUME NEW p \in Goals, NEW h \in Goals
      PROVE  IF x.edges[<<p, h>>].state = "Open" /\ <<p, h>> \in E
             THEN y.edges[<<p, h>>].state = verdict
             ELSE y.edges[<<p, h>>] = x.edges[<<p, h>>]
  <2>1. /\ x.edges[<<p, h>>] \in Edge
        /\ y.edges[<<p, h>>] = IF x.edges[<<p, h>>].state = "Open" /\ <<p, h>> \in E
                               THEN [x.edges[<<p, h>>] EXCEPT !.state = verdict]
                               ELSE x.edges[<<p, h>>]
    BY ONLY Typed(x), p \in Goals, h \in Goals, <1>2 DEF Typed
  <2> QED BY ONLY <1>3, <2>1
<1> QED BY <1>1, <1>4

\* What queueing several goals again changes, goal by goal.
LEMMA RequeuedAll ==
  ASSUME NEW x, Typed(x), NEW S \in SUBSET Goals, NEW order \in SetToSeqs(S),
         NEW y, y = RequeueAll(x, order)
  PROVE  /\ Typed(y) /\ Only(x, y, {"status", "queue"})
         /\ \A h \in Goals : y.status[h] = IF h \in S THEN "Queued" ELSE x.status[h]
         /\ y.queue = Without(x.queue, Range(order)) \o order
<1>1. Range(order) = S
  <2>1. IsFiniteSet(S)
    BY CoordinatorAssumption, FS_Subset
  <2> QED BY <2>1, OrderHasAll
<1>2. /\ Typed(y) /\ Only(x, y, {"status", "queue"})
      /\ y.status = [g \in Goals |-> IF g \in Range(order) THEN "Queued" ELSE x.status[g]]
  BY RequeueAllEffect
<1>3. y.queue = Without(x.queue, Range(order)) \o order
  BY DEF RequeueAll, Typed, Record, Fields
<1>4. \A h \in Goals : y.status[h] = IF h \in S THEN "Queued" ELSE x.status[h]
  BY ONLY <1>1, <1>2
<1> QED BY <1>2, <1>3, <1>4

\* A goal that is not ready has an edge that says why.
LEMMA UnreadyIsBlocked ==
  ASSUME NEW x, Typed(x), NEW g \in Goals, ~DependenciesReady(x, g)
  PROVE  \E h \in Goals : Blocks(x, g, h)
<1> PICK h \in Goals : LET e == x.edges[<<g, h>>]
                       IN /\ e.state \notin {"None", "Satisfied"}
                          /\ ~(e.state = "Open" /\ Met(x, h, e.kind))
  BY DEF DependenciesReady
<1>1. x.edges[<<g, h>>] \in Edge
  BY DEF Typed
<1>2. x.edges[<<g, h>>].state \in {"None", "Open", "Satisfied", "Failed", "Cancelled"}
  BY <1>1 DEF Edge, Settled
<1> QED BY <1>2 DEF Blocks

\* A goal whose newest run is over without approval is not approved.
LEMMA NotApproved ==
  ASSUME NEW x, Typed(x), NEW h \in Goals, Len(x.runs[h]) \in Attempts(x, h),
         x.runs[h][Len(x.runs[h])].state \in RunOver,
         x.runs[h][Len(x.runs[h])].outcome # "approved"
  PROVE  ~ApprovedIn(x, h)
<1> SUFFICES ASSUME NEW k \in Attempts(x, h), x.runs[h][k].outcome = "approved",
                    \A j \in Attempts(x, h) : x.runs[h][j].state \in RunOver => j <= k
             PROVE  FALSE
  BY DEF ApprovedIn
<1>1. Len(x.runs[h]) <= k
  OBVIOUS
<1>2. k \in 1..Len(x.runs[h]) /\ Len(x.runs[h]) \in Nat
  <2>1. x.runs[h] \in Seq(Run)
    BY DEF Typed
  <2> QED BY <2>1 DEF Attempts
<1>3. k = Len(x.runs[h])
  BY ONLY <1>1, <1>2
<1> QED BY <1>3

\* A reported success wakes whom it leaves without a reason to wait.
LEMMA SuccessCarries ==
  ASSUME Typed(c), Agrees(c), Typed(c'), Agrees(c'), Kept(c, c'),
         NEW g \in Goals, NEW k \in Attempts(c, g), NEW outcome \in {"approved", "other"},
         CompleteSuccess(g, k, outcome)
  PROVE  Carries(c, c')
<1> DEFINE ended == Close(EndRun(Detached(c, g, k), g, k, "Succeeded", outcome),
                          g, "Succeeded")
           P == SatisfiedBy(ended, g, outcome)
           told == SettleEdges(ended, P \X {g}, "Satisfied")
           S == Woken(told, P)
<1>1. /\ CanComplete(c, g, k) /\ ValidMove(c.status[g], "Succeeded")
      /\ \E order \in SetToSeqs(S) : c' = RequeueAll(told, order)
  BY DEF CompleteSuccess, CanSucceed
<1>2. Agrees(ended)
  BY <1>1, CompletingCloses DEF Becomes
<1>3. ended = Close(EndRun(Detached(c, g, k), g, k, "Succeeded", outcome), g, "Succeeded")
  OBVIOUS
<1> HIDE DEF ended
<1>4. /\ Typed(ended) /\ Only(c, ended, {"slots", "outbox", "runs", "status", "live"})
      /\ \A h \in Goals : ended.status[h] = IF h = g THEN "Succeeded" ELSE c.status[h]
      /\ RunEnds(c, ended, g, k, "Succeeded", outcome)
  <2>1. "Succeeded" \in {"Succeeded", "Failed"} /\ outcome \in {"none", "approved", "other"}
    OBVIOUS
  <2> QED BY ONLY Typed(c), Agrees(c), g \in Goals, k \in Attempts(c, g),
                  <1>3, <2>1, EndedEffect
<1>5. PICK r \in Run : /\ r.state = "Succeeded" /\ r.outcome = outcome
                      /\ RunBecomes(c, ended, g, k, r)
  BY <1>4 DEF RunEnds
<1>6. PICK order \in SetToSeqs(S) : c' = RequeueAll(told, order)
  BY <1>1
<1>7. told = SettleEdges(ended, P \X {g}, "Satisfied")
  OBVIOUS
<1> HIDE DEF told
<1>8. /\ Typed(told) /\ Only(ended, told, {"edges"})
      /\ \A p, h \in Goals : IF ended.edges[<<p, h>>].state = "Open" /\ <<p, h>> \in P \X {g}
                             THEN told.edges[<<p, h>>].state = "Satisfied"
                             ELSE told.edges[<<p, h>>] = ended.edges[<<p, h>>]
  <2>1. "Satisfied" \in Settled
    BY DEF Settled
  <2> QED BY ONLY <1>4, <1>7, <2>1, SettledEdges
<1>9. /\ S \subseteq P /\ P \subseteq Goals /\ S \subseteq Goals
      /\ \A p \in P : p \in S <=> /\ told.status[p] = "Waiting" /\ p \in told.live
                                  /\ DependenciesReady(told, p)
      /\ \A p \in Goals : p \in P <=>
           /\ ended.edges[<<p, g>>].state = "Open"
           /\ ended.edges[<<p, g>>].kind = "approved" => outcome = "approved"
  BY DEF Woken, SatisfiedBy, Parents
<1> HIDE DEF S, P
<1>10. /\ Only(told, c', {"status", "queue"})
       /\ \A h \in Goals : c'.status[h] = IF h \in S THEN "Queued" ELSE told.status[h]
       /\ c'.queue = Without(told.queue, Range(order)) \o order
  <2>1. Typed(told) /\ S \in SUBSET Goals
    BY <1>8, <1>9
  <2> QED BY ONLY <1>6, <2>1, RequeuedAll
<1>11. /\ ended.edges = c.edges /\ ended.queue = c.queue
       /\ told.status = ended.status /\ told.queue = ended.queue /\ told.live = ended.live
       /\ told.runs = ended.runs /\ c'.runs = told.runs /\ c'.edges = told.edges
       /\ c'.approved = c.approved /\ c'.epoch = c.epoch
  BY ONLY <1>4, <1>8, <1>10 DEF Only, Record, Fields
<1>12. RunBecomes(c, c', g, k, r)
  BY ONLY <1>5, <1>11 DEF RunBecomes, Attempts
<1>13. c.status[g] \in {"Active", "Waiting"} /\ g \notin S
  <2>1. c.status[g] \in Statuses
    BY DEF Typed
  <2>2. c.status[g] \in {"Active", "Waiting"}
    BY <1>1, <2>1 DEF ValidMove, Statuses, Ended
  <2>3. told.status[g] = "Succeeded"
    BY ONLY <1>4, <1>11, g \in Goals
  <2> QED BY <1>9, <2>2, <2>3
<1>14. \A h \in Goals : /\ h = g => c'.status[h] = "Succeeded"
                        /\ h # g => c'.status[h] = IF h \in S THEN "Queued" ELSE c.status[h]
  BY ONLY <1>4, <1>10, <1>11, <1>13, g \in Goals
<1>15. Queues(c) => Queues(c')
  <2> SUFFICES ASSUME Queues(c) PROVE Queues(c')
    OBVIOUS
  <2>1. c'.queue = Without(c.queue, Range(order)) \o order
    BY ONLY <1>10, <1>11
  <2>2. \A h \in Goals : c'.status[h] = "Queued" <=> c.status[h] = "Queued" \/ h \in S
    BY ONLY <1>13, <1>14, g \in Goals
  <2>3. S \in SUBSET Goals
    BY <1>9
  <2> QED BY ONLY Queues(c), order \in SetToSeqs(S), <2>1, <2>2, <2>3, QueueGathers
<1>16. Fits(c) => Fits(c')
  <2> SUFFICES ASSUME Fits(c) PROVE Fits(c')
    OBVIOUS
  <2>1. \A h \in Goals : Len(c'.runs[h]) = Len(c.runs[h])
    BY ONLY <1>12 DEF RunBecomes
  <2>2. \A h \in Goals : c'.status[h] \in {"Absent", "Proposed"}
                            => c.status[h] \in {"Absent", "Proposed"}
    BY ONLY <1>14
  <2>3. c'.approved \subseteq Goals
    BY ONLY Fits(c), <1>11 DEF Fits
  <2> QED BY ONLY Fits(c), <1>11, <2>1, <2>2, <2>3, FitStays
<1>17. ASSUME Wakes(c), NEW q \in Goals, Parked(c', q)
       PROVE  \E h \in Goals : Blocks(c', q, h)
  <2>1. Parked(c, q) /\ q # g /\ q \notin S
    <3>1. c'.status[q] = "Waiting"
      BY <1>17 DEF Parked
    <3>2. q # g /\ q \notin S
      BY ONLY <1>14, <3>1, q \in Goals
    <3>3. k = Len(c.runs[g]) /\ (c'.status[g] = "Waiting" => r.wait \notin Goals)
      BY <1>1, <1>14 DEF CanComplete
    <3>4. \A h \in Goals \ {g} : c'.status[h] = "Waiting" => c.status[h] = "Waiting"
      BY ONLY <1>14
    <3>5. Parked(c, q)
      BY ONLY Agrees(c'), g \in Goals, k \in Attempts(c, g), r \in Run, q \in Goals,
              Parked(c', q), <1>12, <1>17, <3>3, <3>4, TurnParksNoOther
    <3> QED BY <3>2, <3>5
  <2> PICK h \in Goals : Blocks(c, q, h)
    BY <1>17, <2>1 DEF Wakes
  <2>2. CASE h # g
    <3>1. c'.edges[<<q, h>>] = c.edges[<<q, h>>]
      BY ONLY <1>8, <1>11, <2>2, h \in Goals, q \in Goals
    <3>2. c'.status[h] \in {"Succeeded", "Failed"} => c.status[h] = c'.status[h]
      BY ONLY <1>14, <2>2, h \in Goals
    <3>3. NoNewVerdict(c, c', h)
      BY ONLY g \in Goals, h \in Goals, <1>12, <2>2, <3>2, TurnLeavesOthers
    <3>4. Blocks(c', q, h)
      BY ONLY Typed(c), Typed(c'), Kept(c, c'), q \in Goals, h \in Goals, Blocks(c, q, h),
              <3>1, <3>3, BlocksStay
    <3> QED BY <3>4
  <2>3. CASE h = g /\ q \in P
    <3>1. told.status[q] = "Waiting" /\ q \in told.live
      <4>1. ended.status[q] = "Waiting"
        BY <1>4, <2>1 DEF Parked
      <4>2. q \in ended.live
        BY <1>2, <4>1 DEF Agrees, InPlay, Ended
      <4> QED BY <1>11, <4>1, <4>2
    <3>2. ~DependenciesReady(told, q)
      BY <1>9, <2>1, <2>3, <3>1
    <3>3. PICK i \in Goals : Blocks(told, q, i)
      BY <1>8, <3>2, UnreadyIsBlocked
    <3>4. /\ Kept(told, c') /\ NoNewVerdict(told, c', i)
          /\ c'.edges[<<q, i>>] = told.edges[<<q, i>>]
      <4>1. c'.status[i] \in {"Succeeded", "Failed"} => told.status[i] = c'.status[i]
        BY ONLY <1>10, i \in Goals
      <4>2. Attempts(c', i) = Attempts(told, i) /\ c'.runs = told.runs
        BY ONLY <1>11 DEF Attempts
      <4>3. \A f \in Goals : told.status[f] \in Ended => c'.status[f] = told.status[f]
        BY ONLY <1>9, <1>10 DEF Ended
      <4>4. Kept(told, c')
        BY ONLY <1>11, <4>3 DEF Kept, Attempts
      <4> QED BY <1>11, <4>1, <4>2, <4>4 DEF NoNewVerdict
    <3>5. Blocks(c', q, i)
      BY ONLY Typed(c'), q \in Goals, i \in Goals, <1>8, <3>3, <3>4, BlocksStay
    <3> QED BY <3>5
  <2>4. CASE h = g /\ q \notin P
    <3>1. c'.edges[<<q, g>>] = c.edges[<<q, g>>]
      BY ONLY <1>8, <1>11, <2>4, g \in Goals, q \in Goals
    <3>2. CASE c.edges[<<q, g>>].state # "Open"
      BY <2>4, <3>1, <3>2 DEF Blocks, Overlooks
    <3>3. CASE c.edges[<<q, g>>].state = "Open"
      <4>1. c.edges[<<q, g>>].kind = "approved" /\ outcome # "approved"
        BY ONLY <1>9, <1>11, <2>4, <3>3, q \in Goals
      <4>2. /\ Len(c'.runs[g]) = k /\ k \in Attempts(c', g) /\ c'.runs[g][k] = r
            /\ r.state \in RunOver
        BY <1>1, <1>5, <1>12 DEF CanComplete, RunBecomes, RunOver, Ended
      <4>3. ~ApprovedIn(c', g)
        BY <1>5, <4>1, <4>2, NotApproved
      <4>4. ~Met(c', g, c'.edges[<<q, g>>].kind)
        BY <3>1, <4>1, <4>3, MetMeans
      <4> QED BY <3>1, <3>3, <4>4 DEF Blocks
    <3> QED BY <3>2, <3>3
  <2> QED BY <2>2, <2>3, <2>4
<1>18. Wakes(c) => Wakes(c')
  BY <1>17 DEF Wakes
<1>w. Wanted(c) => Wanted(c')
  <2>1. ASSUME NEW p \in Goals, NEW h \in Goals, c'.edges[<<p, h>>].state = "Open"
        PROVE  c'.edges[<<p, h>>] = c.edges[<<p, h>>]
    <3>1. told.edges[<<p, h>>].state # "Satisfied" /\ told.edges = c'.edges
      BY ONLY <1>11, <2>1
    <3>2. told.edges[<<p, h>>] = ended.edges[<<p, h>>]
      BY ONLY <1>8, <3>1, p \in Goals, h \in Goals
    <3> QED BY ONLY <1>11, <3>1, <3>2
  <2> QED BY <2>1, WantedStays
<1> QED BY <1>15, <1>16, <1>18, <1>w DEF Carries

-----------------------------------------------------------------------------
(* The operations on one goal, and on edges, gates, claims and the outbox. *)

\* No run changes and nobody is parked: edges open, fail or are cancelled.
LEMMA QuietCarries ==
  ASSUME NEW x, Typed(x), NEW y, Typed(y), Kept(x, y), y.runs = x.runs, y.epoch = x.epoch,
         x.approved \subseteq Goals => y.approved \subseteq Goals,
         \A h \in Goals : y.status[h] \in {"Succeeded", "Failed", "Waiting"}
                            => x.status[h] = y.status[h],
         \A h \in Goals : y.status[h] \in {"Absent", "Proposed"}
                            => x.status[h] \in {"Absent", "Proposed"},
         \A g, h \in Goals : \/ x.edges[<<g, h>>].state = "None"
                             \/ y.edges[<<g, h>>] = x.edges[<<g, h>>]
                             \/ y.edges[<<g, h>>].state \in {"Failed", "Cancelled"}
  PROVE  /\ Fits(x) => Fits(y)
         /\ Wakes(x) => Wakes(y)
<1>1. Fits(x) => Fits(y)
  BY FitStays DEF Fits
<1>2. Wakes(x) => Wakes(y)
  <2> SUFFICES ASSUME Wakes(x) PROVE Wakes(y)
    OBVIOUS
  <2>1. \A h \in Goals : NoNewVerdict(x, y, h)
    BY DEF NoNewVerdict, Attempts
  <2>2. \A h \in Goals : Parked(y, h) => Parked(x, h)
    BY DEF Parked
  <2> QED BY <2>1, <2>2, WaitGoesOn
<1> QED BY <1>1, <1>2

\* A goal is proposed.
LEMMA RegisterCarries ==
  ASSUME Typed(c), Typed(c'), Kept(c, c'), NEW g \in Goals, Register(g)
  PROVE  Carries(c, c')
<1>1. c.status[g] = "Absent" /\ c' = [c EXCEPT !.status[g] = "Proposed"]
  BY DEF Register, Exists
<1>2. /\ Only(c, c', {"status"})
      /\ \A h \in Goals : c'.status[h] = IF h = g THEN "Proposed" ELSE c.status[h]
  BY <1>1 DEF Typed, Record, Fields, Only
<1>3. /\ c'.runs = c.runs /\ c'.edges = c.edges /\ c'.queue = c.queue
      /\ c'.approved = c.approved /\ c'.epoch = c.epoch
  BY ONLY <1>2 DEF Only, Record, Fields
<1>4. \A h \in Goals : /\ c'.status[h] \in {"Succeeded", "Failed", "Waiting"}
                            => c.status[h] = c'.status[h]
                       /\ c'.status[h] \in {"Absent", "Proposed"}
                            => c.status[h] \in {"Absent", "Proposed"}
                       /\ c'.status[h] = "Queued" <=> c.status[h] = "Queued"
  BY ONLY <1>1, <1>2
<1>5. /\ Fits(c) => Fits(c')
      /\ Wakes(c) => Wakes(c')
  BY ONLY Typed(c), Typed(c'), Kept(c, c'), <1>3, <1>4, QuietCarries
<1>6. Queues(c) => Queues(c')
  BY ONLY <1>3, <1>4, QueueStays
<1>w. Wanted(c) => Wanted(c')
  BY ONLY <1>3 DEF Wanted
<1> QED BY <1>5, <1>6, <1>w DEF Carries

\* What opening an edge changes.
LEMMA AddedEdge ==
  ASSUME NEW x, Typed(x), NEW p \in Goals, NEW h \in Goals, NEW kind \in DependencyKind,
         x.edges[<<p, h>>].state \in {"None", "Open"}, NEW y, y = AddEdge(x, p, h, kind)
  PROVE  /\ Typed(y) /\ Only(x, y, {"edges"})
         /\ y.edges[<<p, h>>].state = "Open"
         /\ \A q, i \in Goals : \/ x.edges[<<q, i>>].state = "None"
                                \/ y.edges[<<q, i>>] = x.edges[<<q, i>>]
         /\ \A q, i \in Goals : \/ y.edges[<<q, i>>] = x.edges[<<q, i>>]
                                \/ y.edges[<<q, i>>].kind = kind
         /\ \A q, i \in Goals : q # p => y.edges[<<q, i>>] = x.edges[<<q, i>>]
<1>1. /\ Typed(y) /\ Only(x, y, {"edges"})
      /\ \A e \in Goals \X Goals :
           e # <<p, h>> \/ x.edges[e].state = "Open" => y.edges[e] = x.edges[e]
  BY AddEdgeEffect, SMTT(30)
<1>2. /\ y.edges[<<p, h>>].state = "Open"
      /\ y.edges[<<p, h>>] = x.edges[<<p, h>>] \/ y.edges[<<p, h>>].kind = kind
  <2>1. CASE x.edges[<<p, h>>].state = "Open"
    BY ONLY <1>1, <2>1, p \in Goals, h \in Goals
  <2>2. CASE x.edges[<<p, h>>].state # "Open"
    <3> DEFINE e1 == [state |-> "Open", kind |-> kind]
    <3>1. y = [x EXCEPT !.edges = [@ EXCEPT ![<<p, h>>] = e1]]
      BY <2>2 DEF AddEdge
    <3>2. e1.state = "Open" /\ e1.kind = kind
      OBVIOUS
    <3> HIDE DEF e1
    <3>3. y.edges = [x.edges EXCEPT ![<<p, h>>] = e1]
      BY ONLY Typed(x), <3>1 DEF Typed, Record, Fields
    <3>4. y.edges[<<p, h>>] = e1
      BY ONLY Typed(x), <3>3, p \in Goals, h \in Goals DEF Typed
    <3> QED BY ONLY <3>2, <3>4
  <2> QED BY <2>1, <2>2
<1>3. ASSUME NEW q \in Goals, NEW i \in Goals
      PROVE  /\ \/ x.edges[<<q, i>>].state = "None"
                \/ y.edges[<<q, i>>] = x.edges[<<q, i>>]
             /\ q # p => y.edges[<<q, i>>] = x.edges[<<q, i>>]
             /\ \/ y.edges[<<q, i>>] = x.edges[<<q, i>>]
                \/ y.edges[<<q, i>>].kind = kind
  BY <1>1, <1>2
<1> QED BY <1>1, <1>2, <1>3

\* A dependency is added.
LEMMA AddDependencyCarries ==
  ASSUME Typed(c), Typed(c'), Kept(c, c'), NEW p \in Goals, NEW h \in Goals, NEW kind \in Kinds,
         AddDependency(p, h, kind)
  PROVE  Carries(c, c')
<1>1. /\ kind \in DependencyKind /\ c' = AddEdge(c, p, h, kind)
      /\ c.edges[<<p, h>>].state \in {"None", "Open"}
  BY CoordinatorAssumption DEF AddDependency, CanAddEdge
<1>2. /\ Only(c, c', {"edges"})
      /\ \A q, i \in Goals : \/ c.edges[<<q, i>>].state = "None"
                             \/ c'.edges[<<q, i>>] = c.edges[<<q, i>>]
      /\ \A q, i \in Goals : \/ c'.edges[<<q, i>>] = c.edges[<<q, i>>]
                             \/ c'.edges[<<q, i>>].kind = kind
  BY ONLY Typed(c), p \in Goals, h \in Goals, <1>1, AddedEdge
<1>3. /\ c'.runs = c.runs /\ c'.status = c.status /\ c'.queue = c.queue
      /\ c'.approved = c.approved /\ c'.epoch = c.epoch
  BY ONLY <1>2 DEF Only, Record, Fields
<1>4. /\ Fits(c) => Fits(c')
      /\ Wakes(c) => Wakes(c')
  BY ONLY Typed(c), Typed(c'), Kept(c, c'), <1>2, <1>3, QuietCarries
<1>5. Queues(c) => Queues(c')
  BY ONLY <1>3, QueueStays
<1>w. Wanted(c) => Wanted(c')
  BY ONLY <1>2, kind \in Kinds DEF Wanted
<1> QED BY <1>4, <1>5, <1>w DEF Carries

\* A gate opens, a claim changes or an entry is acknowledged.
LEMMA NothingCarries ==
  ASSUME Typed(c), Typed(c'), Kept(c, c'), Only(c, c', {"approved", "outbox", "claims"}),
         c.approved \subseteq Goals => c'.approved \subseteq Goals
  PROVE  Carries(c, c')
<1>1. /\ c'.runs = c.runs /\ c'.status = c.status /\ c'.queue = c.queue
      /\ c'.edges = c.edges /\ c'.epoch = c.epoch
  BY DEF Only, Record, Fields
<1>2. /\ Fits(c) => Fits(c')
      /\ Wakes(c) => Wakes(c')
  BY <1>1, QuietCarries
<1>3. Queues(c) => Queues(c')
  BY ONLY <1>1, QueueStays
<1>w. Wanted(c) => Wanted(c')
  BY ONLY <1>1 DEF Wanted
<1> QED BY <1>2, <1>3, <1>w DEF Carries

\* A goal is enqueued with what it waits for.
LEMMA EnqueueCarries ==
  ASSUME Typed(c), Typed(c'), Kept(c, c'), NEW g \in Goals,
         NEW W \in SUBSET {h \in Goals : <<g, h>> \in Pairs}, Enqueue(g, W)
  PROVE  Carries(c, c')
<1>1. /\ c.status[g] \in {"Absent", "Proposed"}
      /\ \A h \in W : c.edges[<<g, h>>].state \in {"None", "Open"}
      /\ c' = [Enqueued(c, g) EXCEPT
                 !.edges = [e \in Goals \X Goals |->
                              IF e[1] = g /\ e[2] \in W
                              THEN AddEdge(c, g, e[2], "success").edges[e] ELSE @[e]]]
  BY DEF Enqueue, CanAddEdge
<1>2. /\ Only(c, c', {"status", "live", "queue", "edges"})
      /\ c'.status = [c.status EXCEPT ![g] = "Queued"]
      /\ c'.queue = Append(c.queue, g)
      /\ c'.edges = [e \in Goals \X Goals |->
                       IF e[1] = g /\ e[2] \in W
                       THEN AddEdge(c, g, e[2], "success").edges[e] ELSE c.edges[e]]
  BY <1>1 DEF Enqueued, Typed, Record, Fields, Only
<1>3. /\ c'.runs = c.runs /\ c'.approved = c.approved /\ c'.epoch = c.epoch
      /\ \A h \in Goals : c'.status[h] = IF h = g THEN "Queued" ELSE c.status[h]
  BY ONLY Typed(c), <1>2 DEF Only, Record, Fields, Typed
<1>4. ASSUME NEW q \in Goals, NEW i \in Goals
      PROVE  \/ c.edges[<<q, i>>].state = "None"
             \/ c'.edges[<<q, i>>] = c.edges[<<q, i>>]
  <2>1. CASE q = g /\ i \in W
    <3> DEFINE z == AddEdge(c, g, i, "success")
    <3>1. c.edges[<<g, i>>].state = "Open" => z = c
      BY DEF AddEdge
    <3>2. c'.edges[<<g, i>>] = z.edges[<<g, i>>]
      BY ONLY <1>2, <2>1, g \in Goals, i \in Goals
    <3> QED BY ONLY <1>1, <2>1, <3>1, <3>2
  <2>2. CASE ~(q = g /\ i \in W)
    BY ONLY <1>2, <2>2, q \in Goals, i \in Goals
  <2> QED BY <2>1, <2>2
<1>5. \A h \in Goals : /\ c'.status[h] \in {"Succeeded", "Failed", "Waiting"}
                            => c.status[h] = c'.status[h]
                       /\ c'.status[h] \in {"Absent", "Proposed"}
                            => c.status[h] \in {"Absent", "Proposed"}
                       /\ c'.status[h] = "Queued" <=> c.status[h] = "Queued" \/ h = g
  BY ONLY <1>3
<1>6. /\ Fits(c) => Fits(c')
      /\ Wakes(c) => Wakes(c')
  BY ONLY Typed(c), Typed(c'), Kept(c, c'), <1>3, <1>4, <1>5, QuietCarries
<1>7. Queues(c) => Queues(c')
  <2>1. c'.queue = Append(c.queue, g) /\ c.status[g] # "Queued"
    BY <1>1, <1>2
  <2> QED BY ONLY g \in Goals, <1>5, <2>1, QueueGrows, ZenonT(40)
<1>w. Wanted(c) => Wanted(c')
  <2> SUFFICES ASSUME NEW q \in Goals, NEW i \in Goals
               PROVE  c'.edges[<<q, i>>] = c.edges[<<q, i>>] \/ c'.edges[<<q, i>>].kind = "success"
    BY DEF Wanted
  <2>1. CASE q = g /\ i \in W
    <3> DEFINE z == AddEdge(c, g, i, "success")
    <3>1. z = AddEdge(c, g, i, "success") /\ "success" \in DependencyKind
      BY DEF DependencyKind
    <3>2. c'.edges[<<g, i>>] = z.edges[<<g, i>>] /\ c.edges[<<g, i>>].state \in {"None", "Open"}
      BY ONLY <1>1, <1>2, <2>1, g \in Goals, i \in Goals
    <3> HIDE DEF z
    <3>3. z.edges[<<g, i>>] = c.edges[<<g, i>>] \/ z.edges[<<g, i>>].kind = "success"
      BY ONLY Typed(c), g \in Goals, i \in Goals, <3>1, <3>2, AddedEdge
    <3> QED BY ONLY <2>1, <3>2, <3>3
  <2>2. CASE ~(q = g /\ i \in W)
    BY ONLY <1>2, <2>2, q \in Goals, i \in Goals
  <2> QED BY <2>1, <2>2
<1> QED BY <1>6, <1>7, <1>w DEF Carries

\* A goal that never ran and has not ended keeps whoever waits for it waiting.
LEMMA NewGoalBlocks ==
  ASSUME NEW y, Typed(y), NEW p \in Goals, NEW h \in Goals, y.edges[<<p, h>>].state = "Open",
         y.status[h] = "Queued", Len(y.runs[h]) = 0
  PROVE  Blocks(y, p, h)
<1>1. y.edges[<<p, h>>] \in Edge /\ y.runs[h] \in Seq(Run)
  BY DEF Typed
<1>2. y.edges[<<p, h>>].kind \in {"success", "terminal", "approved"}
  BY <1>1 DEF Edge, DependencyKind
<1>3. ~ApprovedIn(y, h)
  BY <1>1 DEF ApprovedIn, Attempts
<1>4. ~Met(y, h, y.edges[<<p, h>>].kind)
  BY <1>2, <1>3, MetMeans DEF Ended
<1> QED BY <1>4 DEF Blocks

\* The parent's run is parked on the child it enqueues.
LEMMA EnqueueChildCarries ==
  ASSUME Typed(c), Agrees(c), Typed(c'), Agrees(c'), Kept(c, c'),
         NEW h \in Goals, NEW p \in Goals, NEW k \in Attempts(c, p), EnqueueChild(h, p, k)
  PROVE  Carries(c, c')
<1> DEFINE z == Yielded(c, p, k, h)
           w == Enqueued(z, h)
<1>1. /\ c.status[h] \in {"Absent", "Proposed"} /\ c.runs[p][k].state = "Open"
      /\ p # h /\ c.edges[<<p, h>>].state \in {"None", "Open"}
      /\ c' = AddEdge(w, p, h, "success")
  BY DEF EnqueueChild, CanYield, CanAddEdge
<1>2. /\ Typed(z) /\ Only(c, z, {"slots", "outbox", "runs", "status"})
      /\ z.status = [c.status EXCEPT ![p] = "Waiting"]
      /\ \E r \in Run : r.state = "Waiting" /\ r.wait = h /\ RunBecomes(c, z, p, k, r)
  <2>1. h \in WaitReason
    BY DEF WaitReason
  <2> QED BY <1>1, <2>1, YieldedEffect
<1> HIDE DEF z
<1>3. PICK r \in Run : r.state = "Waiting" /\ r.wait = h /\ RunBecomes(c, z, p, k, r)
  BY <1>2
<1>4. /\ Only(z, w, {"status", "live", "queue"})
      /\ w.status = [z.status EXCEPT ![h] = "Queued"] /\ w.live = z.live \cup {h}
      /\ w.queue = Append(z.queue, h)
  BY <1>2 DEF Enqueued, Typed, Record, Fields, Only
<1> HIDE DEF w
<1>5. Typed(w)
  <2>1. w.status \in [Goals -> Statuses] /\ w.live \in SUBSET Goals
    BY ONLY h \in Goals, <1>2, <1>4 DEF Typed, Statuses
  <2> QED BY <1>2, <1>4, <2>1 DEF Typed, Record, Fields, Only
<1>6. w.edges = c.edges
  BY ONLY <1>2, <1>4 DEF Only, Record, Fields
<1>7. /\ Only(w, c', {"edges"}) /\ c'.edges[<<p, h>>].state = "Open"
      /\ \A q, i \in Goals : q # p => c'.edges[<<q, i>>] = c.edges[<<q, i>>]
      /\ \A q, i \in Goals : \/ c'.edges[<<q, i>>] = c.edges[<<q, i>>]
                             \/ c'.edges[<<q, i>>].kind = "success"
  <2>1. "success" \in DependencyKind /\ w.edges[<<p, h>>].state \in {"None", "Open"}
    BY <1>1, <1>6 DEF DependencyKind
  <2> QED BY ONLY p \in Goals, h \in Goals, <1>1, <1>5, <1>6, <2>1, AddedEdge
<1>8. /\ c'.runs = z.runs /\ c'.approved = c.approved /\ c'.epoch = c.epoch
      /\ c'.queue = Append(c.queue, h)
      /\ \A g \in Goals : c'.status[g] = IF g = h THEN "Queued"
                                         ELSE IF g = p THEN "Waiting" ELSE c.status[g]
  <2>a. /\ z.approved = c.approved /\ z.epoch = c.epoch /\ z.queue = c.queue
    BY ONLY <1>2 DEF Only, Record, Fields
  <2>b. /\ w.approved = z.approved /\ w.epoch = z.epoch /\ w.runs = z.runs
    BY ONLY <1>4 DEF Only, Record, Fields
  <2>c. /\ c'.approved = w.approved /\ c'.epoch = w.epoch /\ c'.runs = w.runs
        /\ c'.queue = w.queue /\ c'.status = w.status
    BY ONLY <1>7 DEF Only, Record, Fields
  <2>1. /\ c'.runs = z.runs /\ c'.approved = c.approved /\ c'.epoch = c.epoch
        /\ c'.queue = w.queue /\ z.queue = c.queue /\ c'.status = w.status
    BY ONLY <2>a, <2>b, <2>c
  <2>2. \A g \in Goals : w.status[g] = IF g = h THEN "Queued"
                                       ELSE IF g = p THEN "Waiting" ELSE c.status[g]
    BY ONLY Typed(c), <1>1, <1>2, <1>4 DEF Typed
  <2> QED BY ONLY <1>4, <2>1, <2>2
<1>9. RunBecomes(c, c', p, k, r)
  BY ONLY <1>3, <1>8 DEF RunBecomes, Attempts
<1>10. k = Len(c.runs[p]) /\ c.status[p] = "Active"
  BY <1>1, OpenHolds DEF Holding
<1>11. Queues(c) => Queues(c')
  <2>1. /\ c'.queue = Append(c.queue, h) /\ c.status[h] # "Queued"
        /\ \A g \in Goals : c'.status[g] = "Queued" <=> c.status[g] = "Queued" \/ g = h
    BY ONLY <1>1, <1>8, <1>10
  <2> QED BY ONLY h \in Goals, <2>1, QueueGrows
<1>12. Fits(c) => Fits(c')
  <2> SUFFICES ASSUME Fits(c) PROVE Fits(c')
    OBVIOUS
  <2>1. \A g \in Goals : Len(c'.runs[g]) = Len(c.runs[g])
    BY ONLY <1>9 DEF RunBecomes
  <2>2. \A g \in Goals : c'.status[g] \in {"Absent", "Proposed"}
                            => c.status[g] \in {"Absent", "Proposed"}
    BY ONLY <1>8
  <2>3. c'.approved \subseteq Goals
    BY ONLY Fits(c), <1>8 DEF Fits
  <2> QED BY ONLY Fits(c), <1>8, <2>1, <2>2, <2>3, FitStays
<1>13. ASSUME Fits(c), Wakes(c), NEW q \in Goals, Parked(c', q)
       PROVE  \E g \in Goals : Blocks(c', q, g)
  <2>1. CASE q = p
    <3>1. Len(c'.runs[h]) = 0
      BY <1>1, <1>9, <1>13 DEF Fits, RunBecomes
    <3>2. Blocks(c', p, h)
      BY <1>7, <1>8, <3>1, NewGoalBlocks
    <3> QED BY <2>1, <3>2
  <2>2. CASE q # p
    <3>1. Parked(c, q)
      <4>1. /\ c'.runs[q] = z.runs[q] /\ Len(c'.runs[q]) = Len(c.runs[q])
            /\ \A j \in Attempts(c, q) : c'.runs[q][j] = c.runs[q][j]
            /\ Attempts(c', q) = Attempts(c, q)
        BY <1>8, <1>9, <2>2 DEF RunBecomes
      <4>2. Len(c'.runs[q]) \in Attempts(c', q)
        BY <1>13 DEF Parked, Agrees, GoalAgrees
      <4>3. c.status[q] = "Waiting"
        BY <1>8, <1>13, <2>2 DEF Parked
      <4> QED BY <1>13, <4>1, <4>2, <4>3 DEF Parked
    <3>2. PICK i \in Goals : Blocks(c, q, i)
      BY <1>13, <3>1 DEF Wakes
    <3>3. NoNewVerdict(c, c', i)
      <4>1. \A g \in Goals : c'.status[g] \in {"Succeeded", "Failed"} => c.status[g] = c'.status[g]
        BY ONLY <1>8
      <4>2. r.state \in RunOver => r.outcome # "approved"
        BY <1>3 DEF RunOver, Ended
      <4> QED BY ONLY Typed(c), Typed(c'), p \in Goals, k \in Attempts(c, p), r \in Run,
                      i \in Goals, <1>9, <1>10, <4>1, <4>2, TurnGivesNoVerdict
    <3>4. Blocks(c', q, i)
      BY <1>7, <2>2, <3>2, <3>3, BlocksStay
    <3> QED BY <3>4
  <2> QED BY <2>1, <2>2
<1>14. Fits(c) /\ Wakes(c) => Wakes(c')
  BY <1>13 DEF Wakes
<1>w. Wanted(c) => Wanted(c')
  BY ONLY <1>7 DEF Wanted
<1> QED BY <1>11, <1>12, <1>14, <1>w DEF Carries

\* A queued goal starts its next attempt.
LEMMA ActivateCarries ==
  ASSUME Typed(c), Agrees(c), Typed(c'), Kept(c, c'), NEW g \in Goals, Activate(g)
  PROVE  Carries(c, c')
<1> DEFINE y == Activated(c, g)
<1>1. /\ y = c' /\ g \in Range(c.queue) /\ Len(c.runs[g]) < MaxAttempts[g]
      /\ c.status[g] \in {"Queued", "Waiting", "Blocked"}
  BY DEF Activate, CanActivate, HasAttemptsLeft
<1>2. /\ y.edges = c.edges /\ y.epoch = c.epoch /\ y.status = [c.status EXCEPT ![g] = "Active"]
      /\ \A h \in Goals \ {g} : y.runs[h] = c.runs[h]
      /\ Attempts(y, g) = Attempts(c, g) \cup {Len(c.runs[g]) + 1}
      /\ Len(y.runs[g]) = Len(c.runs[g]) + 1
      /\ \A j \in Attempts(c, g) : y.runs[g][j] = c.runs[g][j]
      /\ y.runs[g][Len(c.runs[g]) + 1].state = "Open"
  BY ActivatedEffect, ZenonT(40)
<1>3. y.queue = Without(c.queue, {g}) /\ y.approved = c.approved
  <2> DEFINE z == DropQueue(c, g)
  <2>1. Record(z) /\ z.queue = Without(c.queue, {g}) /\ z.approved = c.approved
    BY DEF DropQueue, Typed, Record, Fields
  <2> QED BY <2>1 DEF Activated, Record, Fields
<1> HIDE DEF y
<1>4. \A h \in Goals : y.status[h] = IF h = g THEN "Active" ELSE c.status[h]
  BY ONLY Typed(c), <1>2 DEF Typed
<1>5. Queues(c) => Queues(y)
  <2> SUFFICES ASSUME Queues(c) PROVE Queues(y)
    OBVIOUS
  <2>1. \A h \in Goals : y.status[h] = "Queued" <=> c.status[h] = "Queued" /\ h \notin {g}
    BY ONLY <1>4
  <2> QED BY ONLY Queues(c), <1>3, <2>1, QueueDrops
<1>6. Fits(c) => Fits(y)
  <2> SUFFICES ASSUME Fits(c) PROVE Fits(y)
    OBVIOUS
  <2>1. Len(c.runs[g]) \in Nat /\ MaxAttempts[g] \in Nat
    BY CoordinatorAssumption DEF Typed
  <2>2. Len(c.runs[g]) + 1 <= MaxAttempts[g]
    BY ONLY <1>1, <2>1
  <2>3. ASSUME NEW h \in Goals
        PROVE  /\ Len(y.runs[h]) <= MaxAttempts[h]
               /\ y.status[h] \in {"Absent", "Proposed"} => Len(y.runs[h]) = 0
    BY <1>2, <1>4, <2>2 DEF Fits
  <2>4. y.approved \subseteq Goals /\ y.epoch <= MaxEpoch
    BY <1>2, <1>3 DEF Fits
  <2> QED BY ONLY <2>3, <2>4 DEF Fits
<1>7. Wakes(c) => Wakes(y)
  <2> SUFFICES ASSUME Wakes(c) PROVE Wakes(y)
    OBVIOUS
  <2>1. ASSUME NEW h \in Goals PROVE NoNewVerdict(c, y, h)
    <3>1. y.status[h] \in {"Succeeded", "Failed"} => c.status[h] = y.status[h]
      BY ONLY <1>4, h \in Goals
    <3>2. ASSUME NEW k \in Attempts(y, h), y.runs[h][k].state \in RunOver
          PROVE  k \in Attempts(c, h) /\ c.runs[h][k].state \in RunOver
      <4>1. CASE h # g
        BY <1>2, <3>2, <4>1 DEF Attempts
      <4>2. CASE h = g
        <5>1. y.runs[g][k].state # "Open"
          BY <3>2, <4>2 DEF RunOver, Ended
        <5> QED BY <1>2, <3>2, <4>2, <5>1
      <4> QED BY <4>1, <4>2
    <3> QED BY <3>1, <3>2 DEF NoNewVerdict
  <2>2. ASSUME NEW h \in Goals, Parked(y, h) PROVE Parked(c, h)
    <3>1. y.status[h] = "Waiting" /\ h # g
      BY <1>4, <2>2 DEF Parked
    <3> QED BY <1>2, <1>4, <2>2, <3>1 DEF Parked
  <2>3. Typed(y) /\ Kept(c, y)
    BY <1>1
  <2> QED BY <1>2, <2>1, <2>2, <2>3, WaitGoesOn
<1>w. Wanted(c) => Wanted(y)
  BY ONLY <1>2 DEF Wanted
<1> QED BY <1>1, <1>5, <1>6, <1>7, <1>w DEF Carries

\* A cancelled run gives up its agent, and its goal is over.
LEMMA SettleCancelCarries ==
  ASSUME Typed(c), Agrees(c), Typed(c'), Agrees(c'), Kept(c, c'),
         NEW g \in Goals, NEW k \in Attempts(c, g), SettleCancel(g, k)
  PROVE  Carries(c, c')
<1> DEFINE z == ReleaseSlot(c, g)
           u == SupersedeGoal(z, {g})
           v == EndRun(u, g, k, "Cancelled", "other")
           ended == Close(v, g, "Cancelled")
<1>1. /\ c.runs[g][k].state = "CancelRequested" \/ c.status[g] = "Cancelling"
      /\ CanRelease(c, g, k)
      /\ c' = SettleEdges(ended, Goals \X {g}, "Cancelled")
  BY DEF SettleCancel, CancelDependents
<1>2. k = Len(c.runs[g]) /\ c.status[g] \in {"Active", "Cancelling"}
  <2>1. CASE c.runs[g][k].state = "CancelRequested"
    BY <2>1, OpenHolds DEF Holding
  <2>2. CASE c.status[g] = "Cancelling"
    <3>1. PICK j \in HolderOf(c, g) : TRUE
      BY <2>2 DEF Agrees, GoalAgrees
    <3>2. c.slots[Target[g]].attempt = j /\ c.slots[Target[g]] # NoSlot
      BY SlotOf
    <3>3. c.slots[Target[g]].attempt = k
      BY <1>1, <3>2 DEF CanRelease
    <3>4. j = Len(c.runs[g])
      BY <3>1 DEF Agrees, GoalAgrees
    <3> QED BY <2>2, <3>2, <3>3, <3>4
  <2> QED BY <1>1, <2>1, <2>2
<1>3. Typed(z) /\ Only(c, z, {"slots"})
  BY ReleaseSlotEffect
<1> HIDE DEF z
<1>4. Typed(u) /\ Only(z, u, {"outbox"})
  BY <1>3, SupersedeGoalEffect
<1> HIDE DEF u
<1>5. u.runs = c.runs /\ k \in Attempts(u, g)
  BY <1>3, <1>4 DEF Only, Record, Fields, Attempts
<1>6. /\ Typed(v) /\ Only(u, v, {"runs"})
      /\ \E r \in Run : r.state = "Cancelled" /\ r.outcome = "other" /\ RunBecomes(u, v, g, k, r)
  BY <1>4, <1>5, EndRunTurns DEF RunOver, Ended
<1> HIDE DEF v
<1>7. PICK r \in Run : r.state = "Cancelled" /\ r.outcome = "other" /\ RunBecomes(u, v, g, k, r)
  BY <1>6
<1>e. ended = Close(v, g, "Cancelled")
  OBVIOUS
<1> HIDE DEF ended
<1>8. /\ Typed(ended) /\ Only(v, ended, {"status", "live"})
      /\ ended.status = [v.status EXCEPT ![g] = "Cancelled"]
  <2>1. Typed(v) /\ "Cancelled" \in Statuses
    BY <1>6 DEF Statuses, Ended
  <2> QED BY ONLY g \in Goals, <1>e, <2>1, CloseEffect
<1>9. /\ Only(ended, c', {"edges"})
      /\ \A p, h \in Goals : IF ended.edges[<<p, h>>].state = "Open" /\ <<p, h>> \in Goals \X {g}
                             THEN c'.edges[<<p, h>>].state = "Cancelled"
                             ELSE c'.edges[<<p, h>>] = ended.edges[<<p, h>>]
  <2>1. "Cancelled" \in Settled
    BY DEF Settled
  <2> QED BY ONLY <1>1, <1>8, <2>1, SettledEdges
<1>10. /\ c'.runs = v.runs /\ c'.status = ended.status /\ v.status = c.status
       /\ c'.queue = c.queue /\ c'.approved = c.approved /\ c'.epoch = c.epoch
       /\ ended.edges = c.edges
  BY ONLY <1>3, <1>4, <1>6, <1>8, <1>9, SMTT(30) DEF Only, Record, Fields
<1>e2. ASSUME NEW p \in Goals, NEW h \in Goals
       PROVE  \/ c'.edges[<<p, h>>] = c.edges[<<p, h>>]
              \/ c'.edges[<<p, h>>].state = "Cancelled"
  <2>1. CASE c'.edges[<<p, h>>].state = "Cancelled"
    BY ONLY <2>1
  <2>2. CASE c'.edges[<<p, h>>].state # "Cancelled"
    <3>1. c'.edges[<<p, h>>] = ended.edges[<<p, h>>]
      BY ONLY <1>9, <2>2, p \in Goals, h \in Goals
    <3> QED BY ONLY <1>10, <3>1
  <2> QED BY ONLY <2>1, <2>2
<1>11. RunBecomes(c, c', g, k, r)
  BY ONLY g \in Goals, <1>5, <1>7, <1>10 DEF RunBecomes, Attempts
<1>12. \A h \in Goals : c'.status[h] = IF h = g THEN "Cancelled" ELSE c.status[h]
  BY ONLY Typed(c), <1>8, <1>10 DEF Typed
<1>13. Queues(c) => Queues(c')
  <2>1. \A h \in Goals : c'.status[h] = "Queued" <=> c.status[h] = "Queued"
    BY ONLY <1>2, <1>12
  <2> QED BY ONLY <1>10, <2>1, QueueStays
<1>14. Fits(c) => Fits(c')
  <2> SUFFICES ASSUME Fits(c) PROVE Fits(c')
    OBVIOUS
  <2>1. \A h \in Goals : Len(c'.runs[h]) = Len(c.runs[h])
    BY ONLY <1>11 DEF RunBecomes
  <2>2. \A h \in Goals : c'.status[h] \in {"Absent", "Proposed"}
                            => c.status[h] \in {"Absent", "Proposed"}
    BY ONLY <1>12
  <2>3. c'.approved \subseteq Goals
    BY ONLY Fits(c), <1>10 DEF Fits
  <2> QED BY ONLY Fits(c), <1>10, <2>1, <2>2, <2>3, FitStays
<1>15. Wakes(c) => Wakes(c')
  <2> SUFFICES ASSUME Wakes(c) PROVE Wakes(c')
    OBVIOUS
  <2>1. ASSUME NEW h \in Goals PROVE NoNewVerdict(c, c', h)
    <3>1. \A i \in Goals : c'.status[i] \in {"Succeeded", "Failed"} => c.status[i] = c'.status[i]
      BY ONLY <1>12
    <3>2. r.state \in RunOver => r.outcome # "approved"
      BY <1>7
    <3> QED BY ONLY Typed(c), Typed(c'), g \in Goals, k \in Attempts(c, g), r \in Run,
                    h \in Goals, <1>2, <1>11, <3>1, <3>2, TurnGivesNoVerdict
  <2>2. ASSUME NEW h \in Goals, Parked(c', h) PROVE Parked(c, h)
    <3>1. k = Len(c.runs[g]) /\ (c'.status[g] = "Waiting" => r.wait \notin Goals)
      BY <1>2, <1>12
    <3>2. \A p \in Goals \ {g} : c'.status[p] = "Waiting" => c.status[p] = "Waiting"
      BY ONLY <1>12
    <3> QED BY ONLY Agrees(c'), g \in Goals, k \in Attempts(c, g), r \in Run, h \in Goals,
                    <1>11, <2>2, <3>1, <3>2, TurnParksNoOther
  <2>3. ASSUME NEW p \in Goals, NEW h \in Goals
        PROVE  \/ c'.edges[<<p, h>>] = c.edges[<<p, h>>]
               \/ c'.edges[<<p, h>>].state \in {"Failed", "Cancelled"}
    BY ONLY <1>e2, p \in Goals, h \in Goals
  <2> QED BY ONLY Typed(c), Typed(c'), Kept(c, c'), Wakes(c), <2>1, <2>2, <2>3, WaitGoesOn
<1>w. Wanted(c) => Wanted(c')
  <2>1. ASSUME NEW p \in Goals, NEW h \in Goals
        PROVE  \/ c'.edges[<<p, h>>] = c.edges[<<p, h>>]
               \/ c'.edges[<<p, h>>].state # "Open"
    BY ONLY <1>e2, p \in Goals, h \in Goals
  <2> QED BY <2>1, WantedStays
<1> QED BY <1>13, <1>14, <1>15, <1>w DEF Carries

-----------------------------------------------------------------------------
(* The operations on many goals at once.                                   *)

\* One change after another.
LEMMA CarriesOn ==
  ASSUME NEW x, NEW y, NEW z, Carries(x, y), Carries(y, z)
  PROVE  Carries(x, z)
  BY DEF Carries

\* Goals that execute are told to stop.
LEMMA FencedCarries ==
  ASSUME NEW x, Typed(x), Agrees(x), NEW F \in SUBSET Goals, \A g \in F : x.status[g] = "Active"
  PROVE  Carries(x, Fenced(x, F))
<1> DEFINE y == Fenced(x, F)
<1>1. /\ Typed(y) /\ Only(x, y, {"status", "runs", "outbox"})
      /\ y.status = [g \in Goals |-> IF g \in F THEN "Cancelling" ELSE x.status[g]]
      /\ \A g \in Goals :
           /\ Attempts(y, g) = Attempts(x, g) /\ Len(y.runs[g]) = Len(x.runs[g])
           /\ \A k \in Attempts(x, g) :
                IF g \in F /\ x.runs[g][k].state = "Open"
                THEN y.runs[g][k].state = "CancelRequested"
                ELSE y.runs[g][k] = x.runs[g][k]
  BY FencedEffect
<1>2. Agrees(y) /\ Kept(x, y)
  BY FencedBecomes DEF Becomes
<1> HIDE DEF y
<1>3. /\ y.queue = x.queue /\ y.approved = x.approved /\ y.epoch = x.epoch /\ y.edges = x.edges
  BY ONLY <1>1 DEF Only, Record, Fields
<1>4. \A g \in Goals : y.status[g] = IF g \in F THEN "Cancelling" ELSE x.status[g]
  BY ONLY <1>1
<1>5. Queues(x) => Queues(y)
  <2>1. \A g \in Goals : y.status[g] = "Queued" <=> x.status[g] = "Queued"
    BY <1>4
  <2> QED BY ONLY <1>3, <2>1, QueueStays
<1>6. Fits(x) => Fits(y)
  <2> SUFFICES ASSUME Fits(x) PROVE Fits(y)
    OBVIOUS
  <2>1. \A g \in Goals : Len(y.runs[g]) = Len(x.runs[g])
    BY ONLY <1>1
  <2>2. \A g \in Goals : y.status[g] \in {"Absent", "Proposed"}
                            => x.status[g] \in {"Absent", "Proposed"}
    BY ONLY <1>4
  <2>3. y.approved \subseteq Goals
    BY ONLY Fits(x), <1>3 DEF Fits
  <2> QED BY ONLY Fits(x), <1>3, <2>1, <2>2, <2>3, FitStays
<1>7. Wakes(x) => Wakes(y)
  <2> SUFFICES ASSUME Wakes(x) PROVE Wakes(y)
    OBVIOUS
  <2>1. ASSUME NEW h \in Goals PROVE NoNewVerdict(x, y, h)
    <3>1. y.status[h] \in {"Succeeded", "Failed"} => x.status[h] = y.status[h]
      BY ONLY h \in Goals, <1>4
    <3>2. "CancelRequested" \notin RunOver
      BY DEF RunOver, Ended
    <3>3. \A k \in Attempts(y, h) : y.runs[h][k].state \in RunOver =>
            k \in Attempts(x, h) /\ x.runs[h][k].state \in RunOver
      BY ONLY h \in Goals, <1>1, <3>2
    <3> QED BY ONLY <3>1, <3>3 DEF NoNewVerdict
  <2>2. ASSUME NEW g \in Goals, Parked(y, g) PROVE Parked(x, g)
    <3>1. y.status[g] = "Waiting" /\ g \notin F /\ x.status[g] = "Waiting"
      BY <1>4, <2>2 DEF Parked
    <3>2. Len(y.runs[g]) \in Attempts(y, g)
      BY <1>2, <3>1 DEF Agrees, GoalAgrees
    <3> QED BY <1>1, <2>2, <3>1, <3>2 DEF Parked
  <2> QED BY <1>1, <1>2, <1>3, <2>1, <2>2, WaitGoesOn
<1>w. Wanted(x) => Wanted(y)
  BY ONLY <1>3 DEF Wanted
<1> QED BY <1>5, <1>6, <1>7, <1>w DEF Carries, y

\* What cancelling goals that do not execute changes.
LEMMA DroppedEffect ==
  ASSUME NEW x, Typed(x), NEW D \in SUBSET Goals, NEW y, y = Dropped(x, D), Typed(y)
  PROVE  /\ Only(x, y, {"status", "live", "queue", "runs", "outbox", "edges"})
         /\ \A g \in Goals : y.status[g] = IF g \in D THEN "Cancelled" ELSE x.status[g]
         /\ y.queue = Without(x.queue, D)
         /\ \A g \in Goals :
              /\ Attempts(y, g) = Attempts(x, g) /\ Len(y.runs[g]) = Len(x.runs[g])
              /\ g \notin D => \A k \in Attempts(x, g) : y.runs[g][k] = x.runs[g][k]
         /\ \A p, h \in Goals : /\ y.edges[<<p, h>>].state = "Open" => h \notin D
                                /\ \/ y.edges[<<p, h>>] = x.edges[<<p, h>>]
                                   \/ y.edges[<<p, h>>].state = "Cancelled"
<1> DEFINE ended(r) == [r EXCEPT !.state = "Cancelled", !.outcome = "other"]
           z == [SupersedeGoal(x, D) EXCEPT
                  !.status = [g \in Goals |-> IF g \in D THEN "Cancelled" ELSE @[g]],
                  !.live   = @ \ D,
                  !.queue  = Without(@, D),
                  !.runs   = [g \in Goals |-> [k \in DOMAIN @[g] |->
                                IF g \in D /\ @[g][k].state \notin RunOver
                                THEN [@[g][k] EXCEPT !.state = "Cancelled", !.outcome = "other"]
                                ELSE @[g][k]]]]
<1>1. y = SettleEdges(z, Goals \X D, "Cancelled")
  BY DEF Dropped, CancelDependents
<1>2. /\ Only(x, z, {"status", "live", "queue", "runs", "outbox"})
      /\ z.status = [g \in Goals |-> IF g \in D THEN "Cancelled" ELSE x.status[g]]
      /\ z.queue = Without(x.queue, D)
      /\ z.runs = [g \in Goals |-> [k \in DOMAIN x.runs[g] |->
                     IF g \in D /\ x.runs[g][k].state \notin RunOver
                     THEN ended(x.runs[g][k]) ELSE x.runs[g][k]]]
  BY ZenonT(40) DEF SupersedeGoal, Typed, Record, Fields, Only
<1> HIDE DEF z
<1>3. z.edges = x.edges
  BY ONLY <1>2 DEF Only, Record, Fields
<1>4. /\ Only(z, y, {"edges"})
      /\ y.edges = [e \in Goals \X Goals |->
                      IF z.edges[e].state = "Open" /\ e \in Goals \X D
                      THEN [z.edges[e] EXCEPT !.state = "Cancelled"] ELSE z.edges[e]]
  BY ONLY <1>1, <1>2 DEF SettleEdges, Record, Fields, Only
<1>5. /\ Only(x, y, {"status", "live", "queue", "runs", "outbox", "edges"})
      /\ y.status = z.status /\ y.queue = z.queue /\ y.runs = z.runs
  BY ONLY <1>2, <1>4 DEF Only, Record, Fields
<1> HIDE DEF ended
<1>6. ASSUME NEW g \in Goals
      PROVE  /\ y.runs[g] = [k \in Attempts(x, g) |-> y.runs[g][k]]
             /\ g \notin D => \A k \in Attempts(x, g) : y.runs[g][k] = x.runs[g][k]
  BY ONLY g \in Goals, <1>2, <1>5 DEF Attempts
<1>7. \A g \in Goals : Attempts(y, g) = Attempts(x, g) /\ Len(y.runs[g]) = Len(x.runs[g])
  <2>1. x.runs \in [Goals -> Seq(Run)] /\ y.runs \in [Goals -> Seq(Run)]
    BY DEF Typed
  <2>2. y.runs = [g \in Goals |-> y.runs[g]]
    BY ONLY <2>1
  <2>3. ASSUME NEW g \in Goals, NEW k \in Attempts(x, g) PROVE y.runs[g][k] \in Run
    <3>1. y.runs[g] \in Seq(Run) /\ k \in DOMAIN y.runs[g]
      BY ONLY <1>6, <2>1, <2>3, g \in Goals, k \in Attempts(x, g)
    <3> QED BY ONLY <3>1
  <2>4. \A g \in Goals : /\ y.runs[g] = [k \in Attempts(x, g) |-> y.runs[g][k]]
                         /\ \A k \in Attempts(x, g) : y.runs[g][k] \in Run
    BY <1>6, <2>3
  <2> QED BY ONLY <2>1, <2>2, <2>4, EveryRun
<1>8. ASSUME NEW p \in Goals, NEW h \in Goals
      PROVE  /\ y.edges[<<p, h>>].state = "Open" => h \notin D
             /\ \/ y.edges[<<p, h>>] = x.edges[<<p, h>>]
                \/ y.edges[<<p, h>>].state = "Cancelled"
  <2>1. /\ x.edges[<<p, h>>] \in Edge
        /\ y.edges[<<p, h>>] = IF x.edges[<<p, h>>].state = "Open" /\ h \in D
                               THEN [x.edges[<<p, h>>] EXCEPT !.state = "Cancelled"]
                               ELSE x.edges[<<p, h>>]
    BY ONLY Typed(x), p \in Goals, h \in Goals, <1>3, <1>4 DEF Typed
  <2>2. ASSUME NEW e \in Edge PROVE [e EXCEPT !.state = "Cancelled"].state = "Cancelled"
    BY DEF Edge
  <2> QED BY ONLY <2>1, <2>2
<1>9. \A g \in Goals : y.status[g] = IF g \in D THEN "Cancelled" ELSE x.status[g]
  BY ONLY <1>2, <1>5
<1> QED BY <1>2, <1>5, <1>6, <1>7, <1>8, <1>9

\* Goals that do not execute are cancelled.
LEMMA DroppedCarries ==
  ASSUME NEW x, Typed(x), Agrees(x), NEW D \in SUBSET Goals,
         \A g \in D : x.status[g] \notin Ended \cup {"Active", "Cancelling"}
  PROVE  Carries(x, Dropped(x, D))
<1> DEFINE y == Dropped(x, D)
<1>1. Typed(y) /\ Agrees(y) /\ Kept(x, y)
  BY DroppedBecomes DEF Becomes
<1>2. y = Dropped(x, D)
  OBVIOUS
<1> HIDE DEF y
<1>3. /\ Only(x, y, {"status", "live", "queue", "runs", "outbox", "edges"})
      /\ \A g \in Goals : y.status[g] = IF g \in D THEN "Cancelled" ELSE x.status[g]
      /\ y.queue = Without(x.queue, D)
      /\ \A g \in Goals :
           /\ Attempts(y, g) = Attempts(x, g) /\ Len(y.runs[g]) = Len(x.runs[g])
           /\ g \notin D => \A k \in Attempts(x, g) : y.runs[g][k] = x.runs[g][k]
      /\ \A p, h \in Goals : /\ y.edges[<<p, h>>].state = "Open" => h \notin D
                             /\ \/ y.edges[<<p, h>>] = x.edges[<<p, h>>]
                                \/ y.edges[<<p, h>>].state = "Cancelled"
  BY ONLY Typed(x), D \in SUBSET Goals, <1>1, <1>2, DroppedEffect
<1>4. y.approved = x.approved /\ y.epoch = x.epoch
  BY ONLY <1>3 DEF Only, Record, Fields
<1>5. Queues(x) => Queues(y)
  <2> SUFFICES ASSUME Queues(x) PROVE Queues(y)
    OBVIOUS
  <2>1. \A g \in Goals : y.status[g] = "Queued" <=> x.status[g] = "Queued" /\ g \notin D
    BY ONLY <1>3
  <2> QED BY ONLY Queues(x), <1>3, <2>1, QueueDrops
<1>6. Fits(x) => Fits(y)
  <2> SUFFICES ASSUME Fits(x) PROVE Fits(y)
    OBVIOUS
  <2>1. \A g \in Goals : Len(y.runs[g]) = Len(x.runs[g])
    BY ONLY <1>3
  <2>2. \A g \in Goals : y.status[g] \in {"Absent", "Proposed"}
                            => x.status[g] \in {"Absent", "Proposed"}
    BY ONLY <1>3
  <2>3. y.approved \subseteq Goals
    BY ONLY Fits(x), <1>4 DEF Fits
  <2> QED BY ONLY Fits(x), <1>4, <2>1, <2>2, <2>3, FitStays
<1>7. Wakes(x) => Wakes(y)
  <2> SUFFICES ASSUME Wakes(x) PROVE Wakes(y)
    OBVIOUS
  <2>1. ASSUME NEW p \in Goals, NEW h \in Goals, y.edges[<<p, h>>].state = "Open"
        PROVE  NoNewVerdict(x, y, h)
    <3>1. h \notin D
      BY ONLY p \in Goals, h \in Goals, <1>3, <2>1
    <3>2. y.status[h] = x.status[h]
      BY ONLY h \in Goals, <1>3, <3>1
    <3>3. \A k \in Attempts(y, h) : k \in Attempts(x, h) /\ y.runs[h][k] = x.runs[h][k]
      BY ONLY h \in Goals, <1>3, <3>1
    <3> QED BY ONLY <3>2, <3>3 DEF NoNewVerdict
  <2>2. ASSUME NEW g \in Goals, Parked(y, g) PROVE Parked(x, g)
    <3>1. y.status[g] = "Waiting" /\ g \notin D /\ x.status[g] = "Waiting"
      BY <1>3, <2>2 DEF Parked
    <3>2. Len(y.runs[g]) \in Attempts(y, g)
      BY <1>1, <3>1 DEF Agrees, GoalAgrees
    <3> QED BY <1>3, <2>2, <3>1, <3>2 DEF Parked
  <2>3. \A p, h \in Goals : \/ y.edges[<<p, h>>] = x.edges[<<p, h>>]
                            \/ y.edges[<<p, h>>].state \in {"Failed", "Cancelled"}
    BY ONLY <1>3
  <2> QED BY ONLY Typed(x), <1>1, Wakes(x), <2>1, <2>2, <2>3, WaitGoesOn
<1>w. Wanted(x) => Wanted(y)
  <2>1. \A p, h \in Goals : \/ y.edges[<<p, h>>] = x.edges[<<p, h>>]
                            \/ y.edges[<<p, h>>].state # "Open"
    BY ONLY <1>3
  <2> QED BY <2>1, WantedStays
<1> QED BY <1>5, <1>6, <1>7, <1>w DEF Carries, y

\* A cascade fences what executes and drops what does not.
LEMMA CancelAllCarries ==
  ASSUME NEW x, Typed(x), Agrees(x), NEW S \in SUBSET Goals, \A g \in S : x.status[g] \notin Ended
  PROVE  Carries(x, CancelAll(x, S))
<1> DEFINE F == {g \in S : x.status[g] = "Active"}
           D == {g \in S : x.status[g] \notin {"Active", "Cancelling"}}
           y == Fenced(x, F)
<1>1. /\ F \in SUBSET Goals /\ D \in SUBSET Goals /\ D \cap F = {}
      /\ \A g \in F : x.status[g] = "Active"
      /\ \A g \in D : x.status[g] \notin Ended \cup {"Active", "Cancelling"}
      /\ CancelAll(x, S) = Dropped(y, D)
  BY DEF CancelAll
<1> HIDE DEF F, D
<1>2. Typed(y) /\ Agrees(y) /\ \A g \in Goals \ F : y.status[g] = x.status[g]
  BY <1>1, FencedBecomes DEF Becomes
<1>3. Carries(x, y)
  BY <1>1, FencedCarries
<1> HIDE DEF y
<1>4. \A g \in D : y.status[g] \notin Ended \cup {"Active", "Cancelling"}
  BY <1>1, <1>2
<1>5. Carries(y, Dropped(y, D))
  BY <1>1, <1>2, <1>4, DroppedCarries
<1> QED BY <1>1, <1>3, <1>5, CarriesOn

\* A goal is cancelled, under any policy for the children.
LEMMA CancelCarries ==
  ASSUME Typed(c), Agrees(c), NEW g \in Goals, NEW policy, Cancel(g, policy)
  PROVE  Carries(c, c')
<1>1. CASE c' = CancelAll(c, CancelSet(c, g))
  <2>1. /\ CancelSet(c, g) \in SUBSET Goals
        /\ \A h \in CancelSet(c, g) : c.status[h] \notin Ended
    BY DEF CancelSet
  <2> QED BY <1>1, <2>1, CancelAllCarries
<1>2. CASE c' = CancelAll(SettleEdges(c, {g} \X Goals, "Cancelled"), {g})
  <2> DEFINE y == SettleEdges(c, {g} \X Goals, "Cancelled")
  <2>1. Typed(y) /\ Agrees(y) /\ Kept(c, y)
    BY SettleEdgesBecomes DEF Becomes, Settled
  <2>2. y = SettleEdges(c, {g} \X Goals, "Cancelled")
    OBVIOUS
  <2> HIDE DEF y
  <2>3. /\ Only(c, y, {"edges"})
        /\ \A p, h \in Goals : IF c.edges[<<p, h>>].state = "Open" /\ <<p, h>> \in {g} \X Goals
                               THEN y.edges[<<p, h>>].state = "Cancelled"
                               ELSE y.edges[<<p, h>>] = c.edges[<<p, h>>]
    <3>1. "Cancelled" \in Settled
      BY DEF Settled
    <3> QED BY ONLY Typed(c), <2>2, <3>1, SettledEdges
  <2>4. /\ y.runs = c.runs /\ y.status = c.status /\ y.queue = c.queue
        /\ y.approved = c.approved /\ y.epoch = c.epoch
    BY ONLY <2>3 DEF Only, Record, Fields
  <2>5. \A p, h \in Goals : \/ y.edges[<<p, h>>] = c.edges[<<p, h>>]
                            \/ y.edges[<<p, h>>].state \in {"Failed", "Cancelled"}
    BY ONLY <2>3
  <2>6. /\ Fits(c) => Fits(y)
        /\ Wakes(c) => Wakes(y)
    BY ONLY Typed(c), <2>1, <2>4, <2>5, QuietCarries
  <2>7. Queues(c) => Queues(y)
    BY ONLY <2>4, QueueStays
  <2>8. Carries(c, y)
    <3>1. \A p, h \in Goals : \/ y.edges[<<p, h>>] = c.edges[<<p, h>>]
                              \/ y.edges[<<p, h>>].state # "Open"
      BY ONLY <2>5
    <3>2. Wanted(c) => Wanted(y)
      BY <3>1, WantedStays
    <3> QED BY <2>6, <2>7, <3>2 DEF Carries
  <2>9. y.status[g] \notin Ended
    BY <2>4 DEF Cancel
  <2>10. Carries(y, CancelAll(y, {g}))
    BY <2>1, <2>9, CancelAllCarries
  <2> QED BY <1>2, <2>2, <2>8, <2>10, CarriesOn
<1>3. CASE c' = CancelAll(c, {g})
  <2>1. c.status[g] \notin Ended
    BY DEF Cancel
  <2> QED BY <1>3, <2>1, CancelAllCarries
<1> QED BY <1>1, <1>2, <1>3 DEF Cancel

-----------------------------------------------------------------------------
(* Expiry and restart.                                                     *)

\* What interrupting the runs that hold slots changes: the goals in S are
\* queued again, in some order.
Requeues(x, y, G, S) ==
  /\ S \subseteq G
  /\ \E order \in SetToSeqs(S) : y.queue = Without(x.queue, Range(order)) \o order
  /\ \A g \in Goals : IF g \in S THEN y.status[g] = "Queued"
                      ELSE IF g \in G THEN y.status[g] \in {"Cancelled", "Blocked"}
                      ELSE y.status[g] = x.status[g]

LEMMA InterruptedEffect ==
  ASSUME NEW x, Typed(x), NEW G \in SUBSET Goals, NEW y \in Interrupted(x, G)
  PROVE  /\ Only(x, y, {"slots", "runs", "status", "live", "outbox", "queue"})
         /\ \A g \in Goals : \A k \in Attempts(x, g) :
              IF g \in G /\ x.runs[g][k].state \in Holding
              THEN y.runs[g][k].state = "Interrupted" /\ y.runs[g][k].outcome = "other"
              ELSE y.runs[g][k] = x.runs[g][k]
         /\ \A g \in Goals : y.runs[g] = [k \in Attempts(x, g) |-> y.runs[g][k]]
         /\ \E S : Requeues(x, y, G, S)
<1> DEFINE stopped(r) == [r EXCEPT !.state = "Interrupted", !.outcome = "other"]
           dying == {g \in G : x.status[g] = "Cancelling"}
           again == (G \ dying) \cap RetrySafe
           over  == [x EXCEPT
             !.slots  = [a \in Agents |-> IF @[a].goal \in G THEN NoSlot ELSE @[a]],
             !.runs   = [g \in Goals |-> [k \in DOMAIN @[g] |->
                           IF g \in G /\ @[g][k].state \in Holding
                           THEN [@[g][k] EXCEPT !.state = "Interrupted", !.outcome = "other"]
                           ELSE @[g][k]]],
             !.status = [g \in Goals |-> IF g \in dying THEN "Cancelled"
                                         ELSE IF g \in G \ again THEN "Blocked" ELSE @[g]],
             !.live   = @ \ dying,
             !.outbox = {e \in @ : \/ e.goal \notin G
                                   \/ e.kind = "Cancel" /\ e.goal \notin dying}]
<1>1. PICK order \in SetToSeqs(again) : y = RequeueAll(over, order)
  BY ZenonT(40) DEF Interrupted
<1>2. /\ Only(x, over, {"slots", "runs", "status", "live", "outbox"})
      /\ over.status = [g \in Goals |-> IF g \in dying THEN "Cancelled"
                                        ELSE IF g \in G \ again THEN "Blocked" ELSE x.status[g]]
      /\ over.runs = [g \in Goals |-> [k \in Attempts(x, g) |->
                        IF g \in G /\ x.runs[g][k].state \in Holding
                        THEN stopped(x.runs[g][k]) ELSE x.runs[g][k]]]
  BY DEF Typed, Record, Fields, Attempts, Only
<1> HIDE DEF over, stopped
<1>3. Range(order) = again
  <2>1. IsFiniteSet(again)
    BY CoordinatorAssumption, FS_Subset
  <2> HIDE DEF again
  <2> QED BY <1>1, <2>1, OrderHasAll
<1>4. /\ Only(over, y, {"status", "queue"})
      /\ y.queue = Without(over.queue, Range(order)) \o order
      /\ y.status = [g \in Goals |-> IF g \in Range(order) THEN "Queued" ELSE over.status[g]]
  BY ONLY <1>1, <1>2 DEF RequeueAll, Record, Fields, Only
<1>5. /\ Only(x, y, {"slots", "runs", "status", "live", "outbox", "queue"})
      /\ y.runs = over.runs /\ over.queue = x.queue
  BY ONLY <1>2, <1>4 DEF Only, Record, Fields
<1>6. Requeues(x, y, G, again)
  <2>1. \A g \in Goals : IF g \in again THEN y.status[g] = "Queued"
                         ELSE IF g \in G THEN y.status[g] \in {"Cancelled", "Blocked"}
                         ELSE y.status[g] = x.status[g]
    BY ONLY <1>2, <1>3, <1>4
  <2>2. y.queue = Without(x.queue, Range(order)) \o order
    BY ONLY <1>4, <1>5
  <2> QED BY <1>1, <2>1, <2>2 DEF Requeues
<1>7. ASSUME NEW r \in Run
      PROVE  stopped(r).state = "Interrupted" /\ stopped(r).outcome = "other"
  BY DEF Run, stopped
<1>8. ASSUME NEW g \in Goals
      PROVE  /\ y.runs[g] = [k \in Attempts(x, g) |-> y.runs[g][k]]
             /\ \A k \in Attempts(x, g) :
                  y.runs[g][k] = IF g \in G /\ x.runs[g][k].state \in Holding
                                 THEN stopped(x.runs[g][k]) ELSE x.runs[g][k]
  BY ONLY g \in Goals, <1>2, <1>5
<1>9. \A g \in Goals : \A k \in Attempts(x, g) : x.runs[g][k] \in Run
  BY DEF Typed, Attempts
<1>10. \A g \in Goals : \A k \in Attempts(x, g) :
         IF g \in G /\ x.runs[g][k].state \in Holding
         THEN y.runs[g][k].state = "Interrupted" /\ y.runs[g][k].outcome = "other"
         ELSE y.runs[g][k] = x.runs[g][k]
  <2> SUFFICES ASSUME NEW g \in Goals, NEW k \in Attempts(x, g)
               PROVE  IF g \in G /\ x.runs[g][k].state \in Holding
                      THEN y.runs[g][k].state = "Interrupted" /\ y.runs[g][k].outcome = "other"
                      ELSE y.runs[g][k] = x.runs[g][k]
    OBVIOUS
  <2>1. CASE g \in G /\ x.runs[g][k].state \in Holding
    <3>1. y.runs[g][k] = stopped(x.runs[g][k])
      BY <1>8, <2>1
    <3> QED BY <1>7, <1>9, <2>1, <3>1
  <2>2. CASE ~(g \in G /\ x.runs[g][k].state \in Holding)
    BY <1>8, <2>2
  <2> QED BY <2>1, <2>2
<1> QED BY ONLY <1>5, <1>6, <1>8, <1>10

\* Nobody is parked or gets a good verdict because runs are interrupted.
LEMMA InterruptedLeaves ==
  ASSUME NEW x, Typed(x), Agrees(x), NEW A \in SUBSET Agents,
         NEW y \in Interrupted(x, SlotGoals(x, A))
  PROVE  /\ Typed(y) /\ Agrees(y) /\ Kept(x, y)
         /\ Queues(x) => Queues(y)
         /\ \A g \in Goals : Len(y.runs[g]) = Len(x.runs[g])
         /\ \A g \in Goals : y.status[g] \in {"Absent", "Proposed"}
                               => x.status[g] \in {"Absent", "Proposed"}
         /\ y.approved = x.approved /\ y.edges = x.edges /\ y.epoch = x.epoch
         /\ \A g \in Goals : Parked(y, g) => Parked(x, g)
         /\ \A h \in Goals : NoNewVerdict(x, y, h)
<1>1. Typed(y) /\ Agrees(y) /\ Kept(x, y)
  BY InterruptedBecomes DEF Becomes
<1> DEFINE G == SlotGoals(x, A)
<1>2. G \in SUBSET Goals
  BY DEF SlotGoals, Typed, Slot
<1>3. ASSUME NEW g \in G
      PROVE  /\ x.status[g] \in {"Active", "Cancelling"}
             /\ Len(x.runs[g]) \in Attempts(x, g)
             /\ x.runs[g][Len(x.runs[g])].state \in Holding
  <2>1. PICK a \in A : x.slots[a] # NoSlot /\ x.slots[a].goal = g
    BY DEF SlotGoals
  <2>2. x.slots[a].attempt \in HolderOf(x, g)
    BY <2>1 DEF Agrees, SlotsAgree
  <2>3. x.slots[a].attempt = Len(x.runs[g]) /\ x.status[g] \in {"Active", "Cancelling"}
    BY <1>2, <2>2 DEF Agrees, GoalAgrees
  <2> QED BY <2>2, <2>3 DEF HolderOf
<1>4. y \in Interrupted(x, G)
  OBVIOUS
<1> HIDE DEF G
<1>5. /\ Only(x, y, {"slots", "runs", "status", "live", "outbox", "queue"})
      /\ \A g \in Goals : \A k \in Attempts(x, g) :
           IF g \in G /\ x.runs[g][k].state \in Holding
           THEN y.runs[g][k].state = "Interrupted" /\ y.runs[g][k].outcome = "other"
           ELSE y.runs[g][k] = x.runs[g][k]
      /\ \A g \in Goals : y.runs[g] = [k \in Attempts(x, g) |-> y.runs[g][k]]
      /\ \E S : Requeues(x, y, G, S)
  BY ONLY Typed(x), <1>2, <1>4, InterruptedEffect
<1>6. PICK S : Requeues(x, y, G, S)
  BY <1>5
<1>7. /\ S \in SUBSET G
      /\ \E order \in SetToSeqs(S) : y.queue = Without(x.queue, Range(order)) \o order
      /\ \A g \in Goals : IF g \in S THEN y.status[g] = "Queued"
                          ELSE IF g \in G THEN y.status[g] \in {"Cancelled", "Blocked"}
                          ELSE y.status[g] = x.status[g]
  BY <1>6 DEF Requeues
<1>8. y.approved = x.approved /\ y.edges = x.edges /\ y.epoch = x.epoch
  BY ONLY <1>5 DEF Only, Record, Fields
<1>9. \A g \in Goals : Attempts(y, g) = Attempts(x, g) /\ Len(y.runs[g]) = Len(x.runs[g])
  <2> SUFFICES ASSUME NEW g \in Goals
               PROVE  Attempts(y, g) = Attempts(x, g) /\ Len(y.runs[g]) = Len(x.runs[g])
    OBVIOUS
  <2>1. x.runs[g] \in Seq(Run) /\ y.runs[g] \in Seq(Run)
    BY <1>1 DEF Typed
  <2>2. Attempts(y, g) = Attempts(x, g)
    BY ONLY <1>5, g \in Goals DEF Attempts
  <2>3. 1..Len(x.runs[g]) = 1..Len(y.runs[g]) /\ Len(x.runs[g]) \in Nat /\ Len(y.runs[g]) \in Nat
    BY ONLY <2>1, <2>2 DEF Attempts
  <2>4. Len(x.runs[g]) = Len(y.runs[g])
    BY ONLY <2>3
  <2> QED BY <2>2, <2>4
<1>10. ASSUME Queues(x) PROVE Queues(y)
  <2>1. PICK order \in SetToSeqs(S) : y.queue = Without(x.queue, Range(order)) \o order
    BY <1>7
  <2>2. S \in SUBSET Goals
    BY <1>2, <1>7
  <2>3. \A h \in Goals : y.status[h] = "Queued" <=> x.status[h] = "Queued" \/ h \in S
    BY <1>3, <1>7
  <2> QED BY ONLY <1>10, <2>1, <2>2, <2>3, QueueGathers
<1>11. \A g \in Goals : y.status[g] \in {"Absent", "Proposed"}
                          => x.status[g] \in {"Absent", "Proposed"}
  BY ONLY <1>7
<1>12. ASSUME NEW g \in Goals, Parked(y, g) PROVE Parked(x, g)
  <2>1. y.status[g] = "Waiting" /\ g \notin G /\ x.status[g] = "Waiting"
    BY <1>7, <1>12 DEF Parked
  <2>2. Len(y.runs[g]) \in Attempts(y, g)
    BY <1>1, <2>1 DEF Agrees, GoalAgrees
  <2>3. Len(x.runs[g]) = Len(y.runs[g]) /\ y.runs[g][Len(x.runs[g])] = x.runs[g][Len(x.runs[g])]
    BY <1>5, <1>9, <2>1, <2>2
  <2> QED BY <1>12, <2>1, <2>3 DEF Parked
<1>13. ASSUME NEW h \in Goals PROVE NoNewVerdict(x, y, h)
  <2>1. y.status[h] \in {"Succeeded", "Failed"} => x.status[h] = y.status[h]
    BY ONLY h \in Goals, <1>7
  <2>2. CASE h \in G
    <3>1. /\ Len(y.runs[h]) \in Attempts(y, h)
          /\ y.runs[h][Len(y.runs[h])].state = "Interrupted"
          /\ y.runs[h][Len(y.runs[h])].outcome = "other"
      BY <1>3, <1>5, <1>9, <2>2
    <3> QED BY <2>1, <3>1 DEF NoNewVerdict, RunOver
  <2>3. CASE h \notin G
    <3>1. \A k \in Attempts(y, h) : k \in Attempts(x, h) /\ y.runs[h][k] = x.runs[h][k]
      BY <1>5, <1>9, <2>3
    <3> QED BY <2>1, <3>1 DEF NoNewVerdict
  <2> QED BY <2>2, <2>3
<1> QED BY ONLY <1>1, <1>8, <1>9, <1>10, <1>11, <1>12, <1>13

\* Slots expire.
LEMMA FenceExpiredCarries ==
  ASSUME Typed(c), Agrees(c), NEW A \in SUBSET Agents, FenceExpired(A)
  PROVE  Carries(c, c')
<1>1. c' \in Interrupted(c, SlotGoals(c, A))
  BY DEF FenceExpired
<1>2. /\ Typed(c') /\ Agrees(c') /\ Kept(c, c')
      /\ Queues(c) => Queues(c')
      /\ \A g \in Goals : Len(c'.runs[g]) = Len(c.runs[g])
      /\ \A g \in Goals : c'.status[g] \in {"Absent", "Proposed"}
                            => c.status[g] \in {"Absent", "Proposed"}
      /\ c'.approved = c.approved /\ c'.edges = c.edges /\ c'.epoch = c.epoch
      /\ \A g \in Goals : Parked(c', g) => Parked(c, g)
      /\ \A h \in Goals : NoNewVerdict(c, c', h)
  BY <1>1, InterruptedLeaves
<1>3. Fits(c) => Fits(c')
  <2> SUFFICES ASSUME Fits(c) PROVE Fits(c')
    OBVIOUS
  <2>1. c'.approved \subseteq Goals
    BY ONLY Fits(c), <1>2 DEF Fits
  <2> QED BY ONLY Fits(c), <1>2, <2>1, FitStays
<1>4. Wakes(c) => Wakes(c')
  BY <1>2, WaitGoesOn
<1>w. Wanted(c) => Wanted(c')
  BY ONLY <1>2 DEF Wanted
<1> QED BY <1>2, <1>3, <1>4, <1>w DEF Carries

\* The daemon restarts.
LEMMA ReconcileCarries ==
  ASSUME Typed(c), Agrees(c), Typed(c'), Kept(c, c'), Reconcile
  PROVE  Carries(c, c')
<1>1. PICK x \in Interrupted(c, SlotGoals(c, Agents)) : c' = [x EXCEPT !.epoch = @ + 1]
  BY DEF Reconcile
<1>2. /\ Typed(x) /\ Agrees(x) /\ Kept(c, x)
      /\ Queues(c) => Queues(x)
      /\ \A g \in Goals : Len(x.runs[g]) = Len(c.runs[g])
      /\ \A g \in Goals : x.status[g] \in {"Absent", "Proposed"}
                            => c.status[g] \in {"Absent", "Proposed"}
      /\ x.approved = c.approved /\ x.edges = c.edges /\ x.epoch = c.epoch
      /\ \A g \in Goals : Parked(x, g) => Parked(c, g)
      /\ \A h \in Goals : NoNewVerdict(c, x, h)
  BY InterruptedLeaves
<1>3. Only(x, c', {"epoch"}) /\ c'.epoch = x.epoch + 1
  BY ONLY <1>1, <1>2 DEF Typed, Record, Fields, Only
<1>4. /\ c'.runs = x.runs /\ c'.status = x.status /\ c'.edges = x.edges
      /\ c'.queue = x.queue /\ c'.approved = x.approved
  BY ONLY <1>3 DEF Only, Record, Fields
<1>5. Queues(c) => Queues(c')
  BY ONLY <1>2, <1>4 DEF Queues
<1>6. Fits(c) => Fits(c')
  <2> SUFFICES ASSUME Fits(c) PROVE Fits(c')
    OBVIOUS
  <2>1. c.epoch \in Nat /\ MaxEpoch \in Nat /\ c.epoch < MaxEpoch
    BY CoordinatorAssumption DEF Typed, Reconcile
  <2>2. c'.epoch <= MaxEpoch
    BY ONLY <1>2, <1>3, <2>1
  <2>3. c'.approved \subseteq Goals
    BY ONLY Fits(c), <1>2, <1>4 DEF Fits
  <2>4. \A g \in Goals : /\ Len(c'.runs[g]) <= MaxAttempts[g]
                         /\ c'.status[g] \in {"Absent", "Proposed"} => Len(c'.runs[g]) = 0
    BY ONLY Fits(c), <1>2, <1>4 DEF Fits
  <2> QED BY ONLY <2>2, <2>3, <2>4 DEF Fits
<1>7. Wakes(c) => Wakes(c')
  <2> SUFFICES ASSUME Wakes(c) PROVE Wakes(c')
    OBVIOUS
  <2>1. \A g \in Goals : Parked(c', g) => Parked(c, g)
    BY ONLY <1>2, <1>4 DEF Parked
  <2>2. \A h \in Goals : NoNewVerdict(c, c', h)
    BY ONLY <1>2, <1>4 DEF NoNewVerdict, Attempts
  <2>3. c'.edges = c.edges
    BY ONLY <1>2, <1>4
  <2> QED BY <2>1, <2>2, <2>3, WaitGoesOn
<1>w. Wanted(c) => Wanted(c')
  BY ONLY <1>2, <1>4 DEF Wanted
<1> QED BY <1>5, <1>6, <1>7, <1>w DEF Carries

-----------------------------------------------------------------------------
(* Every step.                                                             *)

\* An operation on one run keeps the parts.
LEMMA RunStepCarries ==
  ASSUME Typed(c), Agrees(c), Typed(c'), Agrees(c'), Kept(c, c'), NEW g \in Goals, RunStep(g)
  PROVE  Carries(c, c')
<1>1. PICK k \in Attempts(c, g) :
        \/ Yield(g, k)
        \/ SubmitCandidate(g, k)
        \/ \E h \in Goals : EnqueueChild(h, g, k)
        \/ \E outcome \in {"approved", "other"} : CompleteSuccess(g, k, outcome)
        \/ \E retry \in BOOLEAN : CompleteFailure(g, k, retry)
        \/ Rollback(g, k)
        \/ SettleCancel(g, k)
  BY DEF RunStep
<1>2. CASE Yield(g, k) \/ SubmitCandidate(g, k)
  <2>1. PICK why \in {"verification", "other"} : CanYield(c, g, k) /\ c' = Yielded(c, g, k, why)
    BY <1>2 DEF Yield, SubmitCandidate
  <2> QED BY <2>1, YieldCarries
<1>3. CASE \E h \in Goals : EnqueueChild(h, g, k)
  BY <1>3, EnqueueChildCarries
<1>4. CASE \E outcome \in {"approved", "other"} : CompleteSuccess(g, k, outcome)
  BY <1>4, SuccessCarries
<1>5. CASE \E retry \in BOOLEAN : CompleteFailure(g, k, retry)
  BY <1>5, FailureCarries
<1>6. CASE Rollback(g, k)
  BY <1>6, RollbackCarries
<1>7. CASE SettleCancel(g, k)
  BY <1>7, SettleCancelCarries
<1> QED BY <1>1, <1>2, <1>3, <1>4, <1>5, <1>6, <1>7

\* An operation on a goal keeps the parts.
LEMMA GoalStepCarries ==
  ASSUME Typed(c), Agrees(c), Typed(c'), Agrees(c'), Kept(c, c'), NEW g \in Goals, GoalStep(g)
  PROVE  Carries(c, c')
<1>1. CASE Register(g)
  BY <1>1, RegisterCarries
<1>2. CASE \E W \in SUBSET {h \in Goals : <<g, h>> \in Pairs} : Enqueue(g, W)
  BY <1>2, EnqueueCarries
<1>3. CASE Activate(g)
  BY <1>3, ActivateCarries
<1>4. CASE \E policy \in {"Cancel", "Detach", "Wait"} : Cancel(g, policy)
  BY <1>4, CancelCarries
<1>5. CASE Approve(g)
  <2>1. c' = [c EXCEPT !.approved = @ \cup {g}]
    BY <1>5 DEF Approve
  <2>2. Only(c, c', {"approved", "outbox", "claims"}) /\ c'.approved = c.approved \cup {g}
    BY ONLY Typed(c), <2>1 DEF Only, Typed, Record, Fields
  <2> QED BY <2>2, NothingCarries
<1>6. CASE \E h \in Goals, kind \in Kinds : AddDependency(g, h, kind)
  BY <1>6, AddDependencyCarries
<1> QED BY <1>1, <1>2, <1>3, <1>4, <1>5, <1>6 DEF GoalStep

\* Every step keeps the parts.
LEMMA NextCarries ==
  ASSUME IInv, Next
  PROVE  Carries(c, c')
<1>1. /\ Typed(c) /\ Agrees(c) /\ Typed(c') /\ Agrees(c')
      /\ Kept(c, c')
  BY NextKind DEF IInv, StepKind, Becomes, Grants, Claims
<1>2. CASE \E g \in Goals : GoalStep(g) \/ RunStep(g)
  BY <1>1, <1>2, GoalStepCarries, RunStepCarries
<1>3. CASE \E a \in Agents : ActivateNext(a)
  <2>1. PICK g : Activate(g)
    BY <1>3 DEF ActivateNext
  <2>2. CanActivate(c, g)
    BY <2>1 DEF Activate
  <2>3. g \in Goals
    BY <1>1, <2>2 DEF CanActivate, Typed
  <2> QED BY <1>1, <2>1, <2>3, ActivateCarries
<1>4. CASE \E a \in Agents, h \in Holders : ClaimOccupancy(a, h) \/ ReleaseClaim(a, h)
  <2>1. PICK a \in Agents, h \in Holders \cup {Nobody} : c' = [c EXCEPT !.claims[a] = h]
    BY <1>4 DEF ClaimOccupancy, ReleaseClaim
  <2> DEFINE y == [c EXCEPT !.claims[a] = h]
  <2>2. Only(c, y, {"approved", "outbox", "claims"}) /\ y.approved = c.approved
    BY <1>1 DEF Only, Typed, Record, Fields
  <2>3. c' = y
    BY <2>1
  <2> HIDE DEF y
  <2> QED BY <1>1, <2>2, <2>3, NothingCarries
<1>5. CASE \E A \in SUBSET Agents : FenceExpired(A)
  BY <1>1, <1>5, FenceExpiredCarries
<1>6. CASE Reconcile
  BY <1>1, <1>6, ReconcileCarries
<1>7. CASE \E e \in c.outbox : AcknowledgeOutbox(e)
  <2>1. PICK e \in c.outbox : c' = [c EXCEPT !.outbox = @ \ {e}]
    BY <1>7 DEF AcknowledgeOutbox
  <2> DEFINE y == [c EXCEPT !.outbox = @ \ {e}]
  <2>2. Only(c, y, {"approved", "outbox", "claims"}) /\ y.approved = c.approved
    BY <1>1 DEF Only, Typed, Record, Fields
  <2>3. c' = y
    BY <2>1
  <2> HIDE DEF y
  <2> QED BY <1>1, <2>2, <2>3, NothingCarries
<1> QED BY <1>2, <1>3, <1>4, <1>5, <1>6, <1>7 DEF Next

\* Nothing is queued, run or parked at the start.
LEMMA InitQueues ==
  ASSUME Init
  PROVE  QInv
<1>1. /\ c.status = [g \in Goals |-> "Absent"] /\ c.runs = [g \in Goals |-> <<>>]
      /\ c.queue = <<>> /\ c.approved = {} /\ c.epoch = 0
      /\ c.edges = [e \in Goals \X Goals |-> NoEdge]
  BY DEF Init
<1>2. Queues(c)
  BY <1>1 DEF Queues, Once, Range
<1>3. Fits(c)
  <2>1. 0 <= MaxEpoch /\ \A g \in Goals : Len(c.runs[g]) = 0 /\ 0 <= MaxAttempts[g]
    BY <1>1, CoordinatorAssumption
  <2> QED BY <1>1, <2>1 DEF Fits
<1>4. Wakes(c)
  BY <1>1 DEF Wakes, Parked
<1>5. Wanted(c)
  BY <1>1 DEF Wanted, NoEdge
<1> QED BY <1>2, <1>3, <1>4, <1>5 DEF QInv

\* Queue, budgets and what is waited for are as the invariant says in every
\* history.
LEMMA AlwaysQueues == Spec => []QInv
<1>1. Init => QInv
  BY InitQueues
<1>2. IInv /\ QInv /\ [Next]_c => QInv'
  <2> SUFFICES ASSUME IInv, QInv, [Next]_c PROVE QInv'
    OBVIOUS
  <2>1. CASE Next
    <3>1. Carries(c, c')
      BY <2>1, NextCarries
    <3> QED BY <3>1 DEF QInv, Carries
  <2>2. CASE UNCHANGED c
    BY <2>2 DEF QInv
  <2> QED BY <2>1, <2>2
<1> QED BY <1>1, <1>2, AlwaysAgrees, PTL DEF Spec

-----------------------------------------------------------------------------
(* The theorems.                                                           *)

(* In every history the aggregate is well formed: every record has its      *)
(* type, no goal starts more attempts than its budget, and the daemon's     *)
(* lifetimes are counted within their bound.                                *)
THEOREM TypesHold == Spec => []TypeOK
<1>1. IInv /\ QInv => TypeOK
  <2> SUFFICES ASSUME IInv, QInv PROVE TypeOK
    OBVIOUS
  <2>1. Typed(c) /\ Queues(c) /\ Fits(c)
    BY DEF IInv, QInv
  <2>2. c.epoch \in 0..MaxEpoch
    <3>1. c.epoch \in Nat /\ c.epoch <= MaxEpoch /\ MaxEpoch \in Nat
      BY <2>1, CoordinatorAssumption DEF Typed, Fits
    <3> QED BY ONLY <3>1
  <2>3. \A g \in Goals : c.runs[g] \in Seq(Run) /\ Len(c.runs[g]) <= MaxAttempts[g]
    BY <2>1 DEF Typed, Fits
  <2>4. /\ c.status \in [Goals -> Statuses] /\ c.generations \in [Agents -> Nat]
        /\ c.claims \in [Agents -> Holders \cup {Nobody}] /\ c.queue \in Seq(Goals)
        /\ c.live \subseteq Goals /\ c.approved \subseteq Goals
    BY <2>1 DEF Typed, Queues, Fits
  <2>5. c.slots \in [Agents -> [goal: Goals, attempt: Nat, generation: Nat] \cup {NoSlot}]
    BY <2>1 DEF Typed, Slot
  <2>6. c.edges \in [Goals \X Goals ->
                       [state: {"None", "Open", "Satisfied", "Failed", "Cancelled"},
                        kind: DependencyKind]]
    BY <2>1 DEF Typed, Edge, Settled
  <2>7. c.outbox \subseteq [kind: {"Dispatch", "Cancel"}, goal: Goals, attempt: Nat]
    BY <2>1 DEF Typed, Outbox
  <2> QED BY ONLY <2>2, <2>3, <2>4, <2>5, <2>6, <2>7 DEF TypeOK
<1> QED BY <1>1, AlwaysAgrees, AlwaysQueues, PTL

\* The queue holds what it should, in the form the model states it.
LEMMA QueuesMatch ==
  ASSUME IInv, QInv
  PROVE  QueueMatchesStatus
<1>1. /\ c.queue \in Seq(Goals) /\ Once(c.queue)
      /\ Range(c.queue) = {g \in Goals : c.status[g] = "Queued"}
  BY DEF QInv, Queues
<1>2. \A i, j \in DOMAIN c.queue : c.queue[i] = c.queue[j] => i = j
  BY <1>1 DEF Once
<1>3. \A g \in Range(c.queue) : /\ c.status[g] \in {"Queued", "Waiting", "Blocked"}
                                /\ g \in c.live
  BY <1>1 DEF IInv, Agrees, InPlay, Ended
<1>4. \A g \in Goals : c.status[g] = "Queued" => g \in Range(c.queue)
  BY <1>1
<1> QED BY <1>2, <1>3, <1>4 DEF QueueMatchesStatus

(* In every history validate_coordinator has nothing to refuse: slots, runs *)
(* and statuses agree, the queue holds exactly the queued goals and each    *)
(* once, the goals in play are those assigned, and no goals wait in a       *)
(* circle.                                                                  *)
THEOREM NothingToRefuse == Spec => []Consistent
<1>1. IInv /\ QInv => QueueMatchesStatus
  BY QueuesMatch
<1>2. SlotsMatchRuns /\ StatusMatchesRuns /\ QueueMatchesStatus /\ GoalsInPlay /\ Acyclic
        => Consistent
  BY DEF Consistent
<1> QED BY <1>1, <1>2, AlwaysAgrees, AlwaysQueues, CheckedSlots, CheckedStatuses,
           CheckedAssignments, NoCircularWait, PTL

\* An edge that blocks keeps its goal from being ready, unless the end of its
\* child was overlooked.
LEMMA BlockedIsUnready ==
  ASSUME Typed(c), NEW g \in Goals, NEW h \in Goals, Blocks(c, g, h)
  PROVE  ~DependenciesReady(c, g) \/ Overlooks(c, g, h)
<1>1. CASE c.edges[<<g, h>>].state \in {"Failed", "Cancelled"}
  BY <1>1 DEF DependenciesReady
<1>2. CASE c.edges[<<g, h>>].state = "Open" /\ ~Met(c, h, c.edges[<<g, h>>].kind)
  BY <1>2 DEF DependenciesReady
<1>3. CASE Overlooks(c, g, h)
  BY <1>3
<1> QED BY <1>1, <1>2, <1>3 DEF Blocks

(* A goal parked on a child has something left to wait for, or it waits for *)
(* the end, whatever it is, of a goal whose cancellation nobody told it: a  *)
(* goal that was being cancelled when its slot expired or the daemon went   *)
(* down.  That is the one way a wakeup is lost.                             *)
THEOREM OnlyOverlookedEndsLoseAWakeup ==
  Spec => [](\A g \in Goals :
               c.status[g] = "Waiting" /\ c.runs[g][Len(c.runs[g])].wait \in Goals
                 => ~DependenciesReady(c, g) \/ \E h \in Goals : Overlooks(c, g, h))
<1>1. IInv /\ QInv => \A g \in Goals :
         c.status[g] = "Waiting" /\ c.runs[g][Len(c.runs[g])].wait \in Goals
           => ~DependenciesReady(c, g) \/ \E h \in Goals : Overlooks(c, g, h)
  <2> SUFFICES ASSUME IInv, QInv, NEW g \in Goals, Parked(c, g)
               PROVE  ~DependenciesReady(c, g) \/ \E h \in Goals : Overlooks(c, g, h)
    BY DEF Parked
  <2>1. PICK h \in Goals : Blocks(c, g, h)
    BY DEF QInv, Wakes
  <2> QED BY <2>1, BlockedIsUnready DEF IInv
<1> QED BY <1>1, AlwaysAgrees, AlwaysQueues, PTL

(* Where callers add no edge that waits for a goal to end whatever its      *)
(* verdict, no wakeup is ever lost: a goal parked on a child is queued by   *)
(* the time its last dependency is met.                                     *)
THEOREM NoWakeupIsLost == "terminal" \notin Kinds => (Spec => []NoLostWakeup)
<1> SUFFICES ASSUME "terminal" \notin Kinds PROVE Spec => []NoLostWakeup
  OBVIOUS
<1>1. IInv /\ QInv => NoLostWakeup
  <2> SUFFICES ASSUME IInv, QInv, NEW g \in Goals, Parked(c, g)
               PROVE  ~DependenciesReady(c, g)
    BY DEF Parked, NoLostWakeup
  <2>1. PICK h \in Goals : Blocks(c, g, h)
    BY DEF QInv, Wakes
  <2>2. ~Overlooks(c, g, h)
    BY DEF Overlooks, QInv, Wanted
  <2> QED BY <2>1, <2>2, BlockedIsUnready DEF IInv
<1> QED BY <1>1, AlwaysAgrees, AlwaysQueues, PTL
=============================================================================
