--------------------------- MODULE CollectorProofs ---------------------------
(***************************************************************************)
(* Safety of the collector for every heap.  The first part is about        *)
(* finalizers, whatever the handlers do: who is owed one is alive, on at   *)
(* most one of the two queues, and once.  The second is about marking and  *)
(* sweeping, while handlers leave the heap alone (Quiet), as they do in    *)
(* the shipped program, which never registers one.  The third is about the *)
(* string table, again whatever the handlers do.                           *)
(***************************************************************************)
EXTENDS Collector, ChainLemmas, FiniteSetTheorems

HeapType == heap \in [Allocated -> ObjectType] /\ Allocated \subseteq Addr /\ currentWhite \in {0, 1}

----------------------------------------------------------------------------
(* Recolouring keeps everything but colours *)

SameButColour(old, new) ==
    /\ new.refs = old.refs /\ new.entries = old.entries /\ new.mode = old.mode
    /\ new.otype = old.otype
    /\ new \in ObjectType

\* Recolouring an object touches nothing but its colour.
LEMMA Recoloured ==
    ASSUME NEW obj \in ObjectType, NEW c \in 0 .. 3
    PROVE  /\ SameButColour(obj, [obj EXCEPT !.color = c])
           /\ [obj EXCEPT !.color = c].color = c
  BY DEF ObjectType, SameButColour

\* References do not depend on colours.
LEMMA SameEdges ==
    ASSUME NEW a, NEW b, SameButColour(a, b)
    PROVE  Refs(a) = Refs(b) /\ Strong(a) = Strong(b)
  BY DEF SameButColour, Refs, Strong

\* Colouring a set of objects keeps the shape of the heap and every reference.
LEMMA ColouredType ==
    ASSUME HeapType, NEW S, NEW c \in 0 .. 3
    PROVE  /\ Colored(S, c) \in [Allocated -> ObjectType]
           /\ \A o \in Allocated : SameButColour(heap[o], Colored(S, c)[o])
           /\ \A o \in Allocated : Colored(S, c)[o].color = IF o \in S THEN c ELSE heap[o].color
  <1>1. \A o \in Allocated : heap[o] \in ObjectType
    BY DEF HeapType
  <1>2. ASSUME NEW o \in Allocated
        PROVE  /\ Colored(S, c)[o] \in ObjectType
               /\ SameButColour(heap[o], Colored(S, c)[o])
               /\ Colored(S, c)[o].color = IF o \in S THEN c ELSE heap[o].color
    <2>1. CASE o \in S
      <3>1. Colored(S, c)[o] = [heap[o] EXCEPT !.color = c]
        BY <2>1 DEF Colored
      <3>2. heap[o] \in ObjectType
        BY <1>1
      <3>3. SameButColour(heap[o], Colored(S, c)[o]) /\ Colored(S, c)[o].color = c
        BY <3>1, <3>2, Recoloured, Zenon
      <3> QED
        BY <2>1, <3>3 DEF SameButColour
    <2>2. CASE o \notin S
      BY <1>1, <2>2 DEF Colored, SameButColour
    <2> QED
      BY <2>1, <2>2
  <1> QED
    BY <1>2 DEF Colored

----------------------------------------------------------------------------
(* What Selected computes *)

\* The recursion of Selected, for a function g on the first n elements.
Turn(s, S, g, i) ==
    IF i = 0 THEN <<>> ELSE IF s[i] \in S THEN Append(g[i - 1], s[i]) ELSE g[i - 1]
\* What it has of the first i elements: those in S, each as often as it was there.
Sifted(s, S, i, t) ==
    /\ \A x : x \in ToSet(t) <=> x \in S /\ \E k \in 1 .. i : s[k] = x
    /\ IsInjective(s) => IsInjective(t)
Unrolled(A, s, S, n, g) ==
    /\ g \in [0 .. n -> Seq(A)]
    /\ \A i \in 0 .. n : g[i] = Turn(s, S, g, i) /\ Sifted(s, S, i, g[i])

\* One more element: either it is left out, or it is appended and was not there.
LEMMA SiftOne ==
    ASSUME NEW A, NEW s \in Seq(A), NEW S, NEW n \in Nat, n + 1 <= Len(s),
           NEW t \in Seq(A), Sifted(s, S, n, t)
    PROVE  LET u == IF s[n + 1] \in S THEN Append(t, s[n + 1]) ELSE t
           IN  u \in Seq(A) /\ Sifted(s, S, n + 1, u)
<1> DEFINE x == s[n + 1]
<1>1. x \in A /\ n + 1 \in 1 .. Len(s) /\ Len(s) \in Nat /\ DOMAIN s = 1 .. Len(s)
  OBVIOUS
<1>2. \A k : k \in 1 .. n + 1 <=> k \in 1 .. n \/ k = n + 1
  OBVIOUS
<1>3. CASE x \notin S
  <2>1. Sifted(s, S, n + 1, t)
    BY <1>2, <1>3 DEF Sifted
  <2> QED BY <2>1, <1>3
<1>4. CASE x \in S
  <2> DEFINE u == Append(t, x)
  <2>1. /\ u \in Seq(A) /\ Len(u) = Len(t) + 1 /\ u[Len(u)] = x
        /\ \A i \in 1 .. Len(t) : u[i] = t[i]
    BY <1>1
  <2>2. DOMAIN u = 1 .. Len(t) + 1 /\ DOMAIN t = 1 .. Len(t) /\ Len(t) \in Nat
    BY <2>1
  <2> HIDE DEF u
  <2>3. \A y : y \in ToSet(u) <=> y \in ToSet(t) \/ y = x
    BY <2>1, <2>2 DEF ToSet
  <2>4. \A y : y \in ToSet(u) <=> y \in S /\ \E k \in 1 .. n + 1 : s[k] = y
    BY <2>3, <1>2, <1>4 DEF Sifted
  <2>5. ASSUME IsInjective(s) PROVE IsInjective(u)
    <3>1. x \notin ToSet(t)
      <4>1. \A k \in 1 .. n : s[k] # x
        BY <2>5, <1>1 DEF IsInjective
      <4> QED BY <4>1 DEF Sifted
    <3>2. \A i \in 1 .. Len(t) : u[i] # x
      BY <3>1, <2>1, <2>2 DEF ToSet
    <3>3. \A i, j \in 1 .. Len(t) : u[i] = u[j] => i = j
      BY <2>1, <2>2, <2>5 DEF Sifted, IsInjective
    <3> QED BY <3>2, <3>3, <2>1, <2>2 DEF IsInjective
  <2>6. Sifted(s, S, n + 1, u)
    BY <2>4, <2>5 DEF Sifted
  <2> QED BY <2>1, <2>6, <1>4 DEF u
<1> QED BY <1>3, <1>4

\* So the recursion can be unrolled as far as the sequence goes.
LEMMA Unrolls ==
    ASSUME NEW A, NEW s \in Seq(A), NEW S
    PROVE  \E g : Unrolled(A, s, S, Len(s), g)
<1> DEFINE T == {n \in Nat : n <= Len(s) /\ ~ \E g : Unrolled(A, s, S, n, g)}
<1>1. SUFFICES ASSUME T # {} PROVE FALSE
  <2>1. Len(s) \in Nat /\ Len(s) <= Len(s)
    OBVIOUS
  <2> QED BY <2>1 DEF T
<1>2. PICK m \in T : \A n \in T : m <= n
  <2>1. T \in SUBSET Nat
    OBVIOUS
  <2> HIDE DEF T
  <2> QED BY <1>1, <2>1, Least
<1>3. m \in Nat /\ m <= Len(s) /\ ~ \E g : Unrolled(A, s, S, m, g)
  BY <1>2
<1>4. CASE m = 0
  <2> DEFINE g == [i \in 0 .. 0 |-> <<>>]
  <2>1. g \in [0 .. 0 -> Seq(A)] /\ g[0] = <<>>
    OBVIOUS
  <2>2. Sifted(s, S, 0, <<>>)
    BY DEF Sifted, ToSet, IsInjective
  <2>3. \A i \in 0 .. 0 : g[i] = Turn(s, S, g, i) /\ Sifted(s, S, i, g[i])
    BY <2>1, <2>2 DEF Turn
  <2> QED BY <1>3, <1>4, <2>1, <2>3 DEF Unrolled
<1>5. CASE m # 0
  <2> DEFINE n == m - 1
  <2>1. n \in Nat /\ n + 1 = m /\ n < m
    BY <1>3, <1>5
  <2>2. PICK g : Unrolled(A, s, S, n, g)
    BY <1>2, <1>3, <2>1
  <2> HIDE DEF n
  <2> DEFINE u == IF s[m] \in S THEN Append(g[n], s[m]) ELSE g[n]
             h == [i \in 0 .. m |-> IF i = m THEN u ELSE g[i]]
  <2>3. g[n] \in Seq(A) /\ Sifted(s, S, n, g[n])
    BY <2>1, <2>2 DEF Unrolled
  <2>4. u \in Seq(A) /\ Sifted(s, S, m, u)
    BY <1>3, <2>1, <2>3, SiftOne
  <2> HIDE DEF u
  <2>5. h \in [0 .. m -> Seq(A)] /\ h[m] = u /\ \A i \in 0 .. n : h[i] = g[i]
    BY <1>3, <2>1, <2>2, <2>4 DEF Unrolled
  <2> HIDE DEF h
  <2>6. h[m] = Turn(s, S, h, m)
    BY <1>5, <2>1, <2>5 DEF Turn, u
  <2>7. ASSUME NEW i \in 0 .. n PROVE h[i] = Turn(s, S, h, i)
    <3>1. g[i] = Turn(s, S, g, i)
      BY <2>2 DEF Unrolled
    <3>2. i = 0 \/ (i - 1 \in 0 .. n /\ h[i - 1] = g[i - 1])
      BY <2>1, <2>5
    <3> QED BY <3>1, <3>2, <2>5 DEF Turn
  <2>8. \A i \in 0 .. m : h[i] = Turn(s, S, h, i) /\ Sifted(s, S, i, h[i])
    <3>1. \A i \in 0 .. m : i = m \/ i \in 0 .. n
      BY <2>1
    <3>2. \A i \in 0 .. n : Sifted(s, S, i, g[i])
      BY <2>2 DEF Unrolled
    <3> QED BY <3>1, <3>2, <2>4, <2>5, <2>6, <2>7
  <2> QED BY <1>3, <2>5, <2>8 DEF Unrolled
<1> QED BY <1>4, <1>5

\* The function that the definition of Selected chooses.
Steps(s, S, f) ==
    [i \in 0 .. Len(s) |->
        IF i = 0 THEN <<>> ELSE IF s[i] \in S THEN Append(f[i - 1], s[i]) ELSE f[i - 1]]

\* The recursion has one solution.
LEMMA OneSolution ==
    ASSUME NEW s, NEW S, Len(s) \in Nat, NEW f, NEW g, f = Steps(s, S, f), g = Steps(s, S, g)
    PROVE  f[Len(s)] = g[Len(s)]
<1> DEFINE T == {i \in Nat : i <= Len(s) /\ f[i] # g[i]}
<1>1. SUFFICES ASSUME T # {} PROVE FALSE
  BY DEF T
<1>2. PICK m \in T : \A i \in T : m <= i
  <2>1. T \in SUBSET Nat
    OBVIOUS
  <2> HIDE DEF T
  <2> QED BY <1>1, <2>1, Least
<1>3. m \in Nat /\ m <= Len(s) /\ f[m] # g[m] /\ m \in 0 .. Len(s)
  BY <1>2
<1>4. f[m] = Steps(s, S, f)[m] /\ g[m] = Steps(s, S, g)[m]
  OBVIOUS
<1>5. CASE m = 0
  BY <1>3, <1>4, <1>5 DEF Steps
<1>6. CASE m # 0
  <2>1. m - 1 \in Nat /\ m - 1 <= Len(s) /\ ~ (m <= m - 1)
    BY <1>3, <1>6
  <2>2. f[m - 1] = g[m - 1]
    BY <1>2, <2>1
  <2> QED BY <1>3, <1>4, <1>6, <2>2 DEF Steps
<1> QED BY <1>5, <1>6

\* Selected(s, S) has the elements of s that are in S, and repeats none that s did not.
LEMMA SelectedIs ==
    ASSUME NEW A, NEW s \in Seq(A), NEW S
    PROVE  /\ Selected(s, S) \in Seq(A)
           /\ ToSet(Selected(s, S)) = ToSet(s) \cap S
           /\ IsInjective(s) => IsInjective(Selected(s, S))
<1> DEFINE n == Len(s)
           F == CHOOSE f : f = Steps(s, S, f)
<1>1. Selected(s, S) = F[n]
  BY DEF Selected, Steps
<1>2. PICK g : Unrolled(A, s, S, n, g)
  BY Unrolls
<1>3. g = Steps(s, S, g)
  <2>1. \A i \in 0 .. n : g[i] = Steps(s, S, g)[i]
    BY <1>2 DEF Unrolled, Turn, Steps
  <2>2. DOMAIN g = 0 .. n /\ g = [i \in DOMAIN g |-> g[i]]
    BY <1>2 DEF Unrolled
  <2> QED BY <2>1, <2>2 DEF Steps
<1>4. F = Steps(s, S, F)
  BY <1>3
<1>5. F[n] = g[n] /\ n \in Nat
  <2> HIDE DEF F
  <2>1. Len(s) \in Nat
    OBVIOUS
  <2> QED BY <1>3, <1>4, <2>1, OneSolution
<1>6. n \in 0 .. n
  BY <1>5
<1>7. Selected(s, S) \in Seq(A) /\ Sifted(s, S, n, Selected(s, S))
  BY <1>1, <1>2, <1>5, <1>6 DEF Unrolled
<1>8. \A x : x \in ToSet(s) <=> \E k \in 1 .. n : s[k] = x
  BY DEF ToSet
<1>9. \A x : x \in ToSet(Selected(s, S)) <=> x \in ToSet(s) \cap S
  BY <1>7, <1>8 DEF Sifted
<1> QED BY <1>7, <1>9 DEF Sifted

----------------------------------------------------------------------------
(* Queues without repetition *)

\* A new element at the end of a queue.
LEMMA AppendOnce ==
    ASSUME NEW A, NEW s \in Seq(A), NEW x \in A
    PROVE  /\ Append(s, x) \in Seq(A) /\ ToSet(Append(s, x)) = ToSet(s) \cup {x}
           /\ IsInjective(s) /\ x \notin ToSet(s) => IsInjective(Append(s, x))
<1> DEFINE u == Append(s, x)
<1>1. /\ u \in Seq(A) /\ Len(u) = Len(s) + 1 /\ u[Len(u)] = x
      /\ \A i \in 1 .. Len(s) : u[i] = s[i]
  OBVIOUS
<1>2. DOMAIN u = 1 .. Len(s) + 1 /\ DOMAIN s = 1 .. Len(s) /\ Len(s) \in Nat
  BY <1>1
<1> HIDE DEF u
<1>3. \A y : y \in ToSet(u) <=> y \in ToSet(s) \/ y = x
  BY <1>1, <1>2 DEF ToSet
<1>4. ASSUME IsInjective(s), x \notin ToSet(s) PROVE IsInjective(u)
  <2>1. \A i \in 1 .. Len(s) : u[i] # x
    BY <1>1, <1>2, <1>4 DEF ToSet
  <2>2. \A i, j \in 1 .. Len(s) : u[i] = u[j] => i = j
    BY <1>1, <1>2, <1>4 DEF IsInjective
  <2> QED BY <1>1, <1>2, <2>1, <2>2 DEF IsInjective
<1> QED BY <1>1, <1>3, <1>4 DEF u

\* The last element of a queue is taken.
LEMMA FrontOnce ==
    ASSUME NEW A, NEW s \in Seq(A), s # <<>>
    PROVE  /\ Front(s) \in Seq(A) /\ ToSet(Front(s)) \subseteq ToSet(s)
           /\ Last(s) \in A /\ Last(s) \in ToSet(s)
           /\ IsInjective(s) => IsInjective(Front(s))
<1>1. Len(s) \in Nat \ {0} /\ DOMAIN s = 1 .. Len(s)
  OBVIOUS
<1>2. /\ Front(s) \in Seq(A) /\ Len(Front(s)) = Len(s) - 1
      /\ \A i \in 1 .. Len(s) - 1 : Front(s)[i] = s[i]
  BY <1>1 DEF Front
<1>3. DOMAIN Front(s) = 1 .. Len(s) - 1
  BY <1>2
<1>4. Last(s) \in A /\ Last(s) \in ToSet(s)
  BY <1>1 DEF Last, ToSet
<1>5. \A y \in ToSet(Front(s)) : y \in ToSet(s)
  BY <1>1, <1>2, <1>3 DEF ToSet
<1>6. ASSUME IsInjective(s) PROVE IsInjective(Front(s))
  BY <1>1, <1>2, <1>3, <1>6 DEF IsInjective
<1> QED BY <1>2, <1>4, <1>5, <1>6

\* Two queues without repetition and without a common element, one after the other.
LEMMA ConcatOnce ==
    ASSUME NEW A, NEW s \in Seq(A), NEW t \in Seq(A),
           IsInjective(s), IsInjective(t), ToSet(s) \cap ToSet(t) = {}
    PROVE  IsInjective(s \o t)
<1> DEFINE u == s \o t
<1>1. /\ DOMAIN u = 1 .. Len(s) + Len(t) /\ Len(s) \in Nat /\ Len(t) \in Nat
      /\ DOMAIN s = 1 .. Len(s) /\ DOMAIN t = 1 .. Len(t)
      /\ \A i \in 1 .. Len(s) + Len(t) : u[i] = IF i <= Len(s) THEN s[i] ELSE t[i - Len(s)]
  OBVIOUS
<1> HIDE DEF u
<1>2. SUFFICES ASSUME NEW i \in DOMAIN u, NEW j \in DOMAIN u, u[i] = u[j] PROVE i = j
  BY DEF IsInjective, u
<1>3. \A k \in DOMAIN u : \/ k \in DOMAIN s /\ u[k] = s[k]
                          \/ k - Len(s) \in DOMAIN t /\ k \notin DOMAIN s /\ u[k] = t[k - Len(s)]
  BY <1>1
<1>4. \A k \in DOMAIN s, l \in DOMAIN t : s[k] # t[l]
  BY DEF ToSet
<1>5. i \in Nat /\ j \in Nat
  BY <1>1
<1>6. CASE i \in DOMAIN s /\ j \in DOMAIN s
  BY <1>2, <1>3, <1>6, <1>1 DEF IsInjective
<1>7. CASE i \notin DOMAIN s /\ j \notin DOMAIN s
  <2>1. i - Len(s) = j - Len(s)
    BY <1>2, <1>3, <1>7 DEF IsInjective
  <2> QED BY <1>1, <1>5, <2>1
<1>8. CASE i \in DOMAIN s /\ j \notin DOMAIN s
  BY <1>2, <1>3, <1>4, <1>8, <1>1
<1>9. CASE i \notin DOMAIN s /\ j \in DOMAIN s
  BY <1>2, <1>3, <1>4, <1>9, <1>1
<1> QED BY <1>6, <1>7, <1>8, <1>9

----------------------------------------------------------------------------
(* The invariant *)

Userdata == {o \in Allocated : heap[o].otype = "userdata"}
Queued == ToSet(finalizeList) \cup ToSet(toRunFinalizers)
\* Who has a finalizer is alive, and waits on at most one of the queues.
Waiting ==
    /\ hasFinalizer \subseteq Userdata
    /\ Queued \subseteq hasFinalizer
    /\ IsInjective(finalizeList) /\ IsInjective(toRunFinalizers)
    /\ ToSet(finalizeList) \cap ToSet(toRunFinalizers) = {}
\* What the program holds is alive; nothing is left to run when a collection
\* starts; once marking has begun no root is about to be swept, and once the
\* unreached userdata have been set aside, nobody who waits is.
Between ==
    /\ roots \subseteq Allocated
    /\ phase \in {"mutate", "mark", "separate"} => toRunFinalizers = <<>>
    /\ phase \in {"mark", "separate", "clear", "sweep"} => \A o \in roots : ~ Dead(o)
    /\ phase \in {"clear", "sweep"} => \A ud \in Queued : ~ Dead(ud)
FInv == TypeOK /\ Waiting /\ Between

\* The queues stay as they are while no object goes away or changes its type.
LEMMA QueuesKept ==
    ASSUME FInv, TypeOK', UNCHANGED finalizing,
           \A o \in Allocated : o \in Allocated' /\ heap'[o].otype = heap[o].otype,
           Between'
    PROVE  FInv'
<1>1. Queued' = Queued /\ hasFinalizer' = hasFinalizer
  BY DEF finalizing, Queued
<1>2. \A o \in Userdata : o \in Userdata'
  BY DEF Userdata, Allocated
<1>3. Waiting'
  BY <1>1, <1>2 DEF FInv, Waiting, finalizing
<1> QED BY <1>3 DEF FInv

\* Recolouring an object leaves its type.
LEMMA SameKind ==
    ASSUME NEW obj \in ObjectType, NEW c \in 0 .. 3
    PROVE  [obj EXCEPT !.color = c] \in ObjectType /\ [obj EXCEPT !.color = c].otype = obj.otype
  BY DEF ObjectType

\* The colours are among the four.
LEMMA FourColours ==
    ASSUME TypeOK
    PROVE  deadWhite \in 0 .. 3 /\ currentWhite \in 0 .. 3 /\ Gray \in 0 .. 3 /\ Black \in 0 .. 3 /\ Black # deadWhite
  BY DEF TypeOK, deadWhite, Gray, Black

----------------------------------------------------------------------------
(* The program *)

\* Whatever the program does but registering: objects come and change, none goes.
LEMMA LifeGoesOn ==
    ASSUME FInv, Running, UNCHANGED <<collectorVars, finalizing>>,
           DOMAIN heap' \subseteq Addr, heap' \in [DOMAIN heap' -> ObjectType], roots' \subseteq DOMAIN heap',
           \A o \in Allocated : o \in DOMAIN heap' /\ heap'[o].otype = heap[o].otype
    PROVE  FInv'
<1>1. UNCHANGED <<currentWhite, phase, gray, weakList>> /\ UNCHANGED finalizing
  BY DEF collectorVars
<1>2. TypeOK'
  BY <1>1 DEF FInv, TypeOK, Allocated, finalizing
<1>3. Between'
  BY <1>1 DEF FInv, Between, Running, finalizing, Allocated
<1> QED BY <1>1, <1>2, <1>3, QueuesKept DEF Allocated

\* A newborn.
LEMMA BornStep ==
    ASSUME FInv, Running, UNCHANGED <<collectorVars, finalizing>>,
           NEW a \in Addr \ Allocated, NEW k \in OTypes \cup {"string"}, NEW c \in Contents \cup {Scalar},
           LinkSweep(a, Object(k, c)), roots' = roots \cup {a}
    PROVE  FInv'
<1>1. TypeOK
  BY DEF FInv
<1>2. DOMAIN heap' = Allocated \cup {a} /\ \A o \in Allocated : heap'[o] = heap[o]
  BY DEF LinkSweep
<1>3. heap'[a] = [Object(k, c) EXCEPT !.color = deadWhite]
  BY DEF LinkSweep, NewColor
<1>4. Object(k, c) \in ObjectType
  <2> DEFINE E == [key : Addr \cup {Scalar}, val : Addr \cup {Scalar}]
  <2>1. /\ k \in OTypes \cup {"string"} /\ 0 \in 0 .. 3 /\ {} \in SUBSET Addr /\ {} \in SUBSET E
        /\ "" \in Modes \cup {""} /\ c \in Contents \cup {Scalar}
    OBVIOUS
  <2> HIDE DEF E
  <2>2. Object(k, c) \in [otype : OTypes \cup {"string"}, color : 0 .. 3, refs : SUBSET Addr,
                         entries : SUBSET E, mode : Modes \cup {""}, content : Contents \cup {Scalar}]
    BY <2>1 DEF Object
  <2> QED BY <2>2 DEF ObjectType, E
<1>5. heap'[a] \in ObjectType
  BY <1>1, <1>3, <1>4, SameKind, FourColours, Zenon
<1>6. \A o \in Allocated : heap[o] \in ObjectType
  BY <1>1 DEF TypeOK
<1>7. heap' \in [DOMAIN heap' -> ObjectType]
  BY <1>2, <1>5, <1>6 DEF LinkSweep
<1>8. DOMAIN heap' \subseteq Addr /\ roots' \subseteq DOMAIN heap'
  BY <1>1, <1>2 DEF TypeOK, FInv, Between
<1> QED BY <1>2, <1>7, <1>8, LifeGoesOn

\* A store into an object.
LEMMA WriteStep ==
    ASSUME FInv, Running, NEW o \in Allocated, NEW obj \in ObjectType, Update(o, obj),
           obj.otype = heap[o].otype
    PROVE  FInv'
<1>1. TypeOK /\ heap' = [heap EXCEPT ![o] = obj] /\ UNCHANGED <<roots, collectorVars, finalizing>>
  BY DEF FInv, Update
<1>2. DOMAIN heap' = Allocated /\ heap' \in [Allocated -> ObjectType]
  BY <1>1 DEF TypeOK, Allocated
<1>3. \A p \in Allocated : heap'[p].otype = heap[p].otype
  BY <1>1 DEF TypeOK, Allocated
<1>4. Allocated \subseteq Addr /\ roots' \subseteq Allocated
  BY <1>1 DEF TypeOK, FInv, Between
<1> QED BY <1>1, <1>2, <1>3, <1>4, LifeGoesOn

\* A finalizer is registered, for a userdata that had none.
LEMMA RegisterStep ==
    ASSUME FInv, NEW ud \in Allocated, RegisterFinalizer(ud)
    PROVE  FInv'
<1>1. /\ Running /\ heap[ud].otype = "userdata" /\ ud \notin hasFinalizer
      /\ hasFinalizer' = hasFinalizer \cup {ud} /\ finalizeList' = Append(finalizeList, ud)
      /\ toRunFinalizers' = toRunFinalizers
      /\ UNCHANGED <<heap, roots>> /\ UNCHANGED <<currentWhite, phase, gray, weakList>>
  BY DEF RegisterFinalizer, collectorVars
<1>2. /\ TypeOK /\ ud \in Addr /\ finalizeList \in Seq(Addr) /\ toRunFinalizers \in Seq(Addr)
      /\ hasFinalizer \subseteq Addr
  BY DEF FInv, TypeOK
<1>3. ud \notin ToSet(finalizeList) /\ ud \notin ToSet(toRunFinalizers)
  BY <1>1 DEF FInv, Waiting, Queued
<1>4. /\ finalizeList' \in Seq(Addr) /\ ToSet(finalizeList') = ToSet(finalizeList) \cup {ud}
      /\ IsInjective(finalizeList')
  BY <1>1, <1>2, <1>3, AppendOnce DEF FInv, Waiting
<1>5. TypeOK'
  BY <1>1, <1>2, <1>4 DEF TypeOK, Allocated
<1>6. Waiting'
  <2>1. Userdata' = Userdata /\ ud \in Userdata
    BY <1>1 DEF Userdata, Allocated
  <2>2. ToSet(toRunFinalizers') = ToSet(toRunFinalizers)
    BY <1>1
  <2> QED BY <1>1, <1>3, <1>4, <2>1, <2>2 DEF FInv, Waiting, Queued
<1>7. Between'
  BY <1>1 DEF FInv, Between, Running, Allocated
<1> QED BY <1>5, <1>6, <1>7 DEF FInv

\* Every operation of the program, in a __gc handler too.
LEMMA ProgramKeeps == ASSUME FInv, Mutate PROVE FInv'
<1>1. /\ \A o \in Allocated : heap[o] \in ObjectType
      /\ Allocated \subseteq Addr /\ heap \in [Allocated -> ObjectType] /\ roots \subseteq Allocated
  BY DEF FInv, TypeOK, Between
<1>2. CASE \E a \in Addr, k \in OTypes : Alloc(a, k)
  <2>1. PICK a \in Addr, k \in OTypes : Alloc(a, k)
    BY <1>2
  <2>2. /\ Running /\ a \notin Allocated /\ LinkSweep(a, Object(k, Scalar)) /\ roots' = roots \cup {a}
        /\ UNCHANGED <<collectorVars, finalizing>>
    BY <2>1 DEF Alloc
  <2> QED BY <2>2, BornStep
<1>3. CASE \E c \in Contents : Intern(c)
  <2>1. PICK c \in Contents : Intern(c)
    BY <1>3
  <2>2. Running /\ UNCHANGED <<collectorVars, finalizing>>
    BY <2>1 DEF Intern
  <2>3. CASE Interned(c) # {}
    <3>1. roots' \subseteq Allocated /\ UNCHANGED heap
      BY <1>1, <2>1, <2>3 DEF Intern, Interned, stringMatches, Strings
    <3> QED BY <1>1, <2>2, <3>1, LifeGoesOn DEF Allocated
  <2>4. CASE Interned(c) = {}
    <3>1. PICK a \in Addr \ Allocated : LinkSweep(a, Object("string", c)) /\ roots' = roots \cup {a}
      BY <2>1, <2>4 DEF Intern
    <3> QED BY <2>2, <3>1, BornStep
  <2> QED BY <2>3, <2>4
<1>4. CASE \E o \in Allocated : Load(o) \/ Forget(o) \/ RegisterFinalizer(o)
  <2>1. PICK o \in Allocated : Load(o) \/ Forget(o) \/ RegisterFinalizer(o)
    BY <1>4
  <2>2. CASE RegisterFinalizer(o)
    BY <2>2, RegisterStep
  <2>3. CASE Load(o) \/ Forget(o)
    <3>1. Running /\ UNCHANGED <<collectorVars, finalizing>> /\ UNCHANGED heap /\ roots' \subseteq Allocated
      BY <1>1, <2>3 DEF Load, Forget
    <3> QED BY <1>1, <3>1, LifeGoesOn DEF Allocated
  <2> QED BY <2>1, <2>2, <2>3
<1>5. CASE \E o \in roots, r \in roots \cup {Scalar} : SetRef(o, r)
  <2>1. PICK o \in roots, r \in roots \cup {Scalar} : SetRef(o, r)
    BY <1>5
  <2> DEFINE obj == [heap[o] EXCEPT !.refs = {r} \ {Scalar}]
  <2>2. Running /\ Update(o, obj) /\ {r} \ {Scalar} \subseteq Addr
    BY <1>1, <2>1 DEF SetRef
  <2>3. o \in Allocated
    BY <1>1
  <2>4. obj \in ObjectType /\ obj.otype = heap[o].otype
    <3>1. heap[o] \in ObjectType
      BY <1>1, <2>3
    <3> QED BY <2>2, <3>1 DEF ObjectType
  <2> HIDE DEF obj
  <2> QED BY <2>2, <2>3, <2>4, WriteStep
<1>6. CASE \E o \in roots, mt \in roots \cup {Scalar}, m \in Modes : SetMeta(o, mt, m)
  <2>1. PICK o \in roots, mt \in roots \cup {Scalar}, m \in Modes : SetMeta(o, mt, m)
    BY <1>6
  <2>2. PICK R \in SUBSET Addr, n \in Modes \cup {""} :
           Update(o, [heap[o] EXCEPT !.refs = R, !.mode = n])
    <3>1. CASE mt = Scalar /\ mt \notin roots
      BY <2>1, <3>1 DEF SetMeta
    <3>2. CASE mt \in roots
      <4>1. {mt} \in SUBSET Addr /\ mt # Scalar
        BY <1>1, <3>2, ScalarAssumption
      <4> QED BY <2>1, <4>1 DEF SetMeta
    <3> QED BY <1>1, <3>1, <3>2, ScalarAssumption
  <2> DEFINE obj == [heap[o] EXCEPT !.refs = R, !.mode = n]
  <2>3. o \in Allocated /\ Running /\ heap[o] \in ObjectType
    BY <1>1, <2>1 DEF SetMeta
  <2>4. obj \in ObjectType /\ obj.otype = heap[o].otype
    BY <2>3 DEF ObjectType
  <2>5. Update(o, obj)
    BY <2>2
  <2> HIDE DEF obj
  <2> QED BY <2>3, <2>4, <2>5, WriteStep
<1>7. CASE \E o \in roots, k, v \in roots \cup {Scalar} : RawSet(o, k, v) \/ RawSetNil(o, k)
  <2>1. PICK o \in roots, k \in roots \cup {Scalar}, v \in roots \cup {Scalar} :
           RawSet(o, k, v) \/ RawSetNil(o, k)
    BY <1>7
  <2> DEFINE kv == [key |-> k, val |-> v]
  <2>2. PICK E \in SUBSET (heap[o].entries \cup {kv}) :
           Running /\ Update(o, [heap[o] EXCEPT !.entries = E])
    BY <2>1 DEF RawSet, RawSetNil, Keep
  <2>3. /\ o \in Allocated /\ heap[o] \in ObjectType
        /\ kv \in [key : Addr \cup {Scalar}, val : Addr \cup {Scalar}]
    BY <1>1
  <2> HIDE DEF kv
  <2>4. E \subseteq [key : Addr \cup {Scalar}, val : Addr \cup {Scalar}]
    BY <2>3 DEF ObjectType
  <2> DEFINE obj == [heap[o] EXCEPT !.entries = E]
  <2>5. obj \in ObjectType /\ obj.otype = heap[o].otype
    BY <2>3, <2>4 DEF ObjectType
  <2>6. Running /\ Update(o, obj)
    BY <2>2
  <2> HIDE DEF obj
  <2> QED BY <2>3, <2>5, <2>6, WriteStep
<1> QED BY <1>2, <1>3, <1>4, <1>5, <1>6, <1>7, Zenon DEF Mutate

----------------------------------------------------------------------------
(* The collector *)

\* Recolouring keeps the heap and the types of its objects, and what was not
\* about to be swept stays so, unless it is given that very colour.
Repainted ==
    /\ heap' \in [Allocated -> ObjectType]
    /\ \A o \in Allocated : heap'[o].otype = heap[o].otype

\* Painting a set of objects.
LEMMA PaintKinds ==
    ASSUME TypeOK, NEW S, NEW c \in 0 .. 3, heap' = Colored(S, c)
    PROVE  Repainted /\ \A o \in Allocated : heap'[o].color = IF o \in S THEN c ELSE heap[o].color
<1>1. HeapType /\ \A o \in Allocated : heap[o] \in ObjectType
  BY DEF TypeOK, HeapType
<1>2. ASSUME NEW o \in Allocated PROVE heap'[o].otype = heap[o].otype
  <2>1. CASE o \in S
    <3>1. heap'[o] = [heap[o] EXCEPT !.color = c]
      BY <2>1 DEF Colored
    <3> QED BY <1>1, <3>1, SameKind
  <2>2. CASE o \notin S
    BY <2>2 DEF Colored
  <2> QED BY <2>1, <2>2
<1> QED BY <1>1, <1>2, ColouredType DEF Repainted

\* Marking starts with the roots.
LEMMA MarkRootsKeeps == ASSUME FInv, markRoots PROVE FInv'
<1>1. /\ phase = "mutate" /\ phase' = "mark" /\ gray' = {o \in roots : Dead(o)}
      /\ heap' = Colored(gray', Gray)
      /\ UNCHANGED <<currentWhite, weakList, roots>> /\ UNCHANGED finalizing
  BY DEF markRoots
<1>2. TypeOK /\ gray' \subseteq Addr
  BY <1>1 DEF FInv, TypeOK
<1>3. Repainted /\ \A o \in Allocated : heap'[o].color = IF o \in gray' THEN Gray ELSE heap[o].color
  BY <1>1, <1>2, PaintKinds, FourColours
<1>4. DOMAIN heap' = Allocated
  BY <1>3 DEF Repainted
<1>5. TypeOK'
  BY <1>1, <1>2, <1>3, <1>4 DEF TypeOK, Repainted, Allocated, finalizing
<1>6. deadWhite' = deadWhite /\ deadWhite # Gray
  BY <1>1, <1>2 DEF deadWhite, TypeOK, Gray
<1>7. \A o \in roots : ~ Dead(o)'
  BY <1>1, <1>3, <1>4, <1>6 DEF Dead, Allocated
<1>8. Between'
  BY <1>1, <1>4, <1>7 DEF FInv, Between, Allocated, finalizing
<1> QED BY <1>1, <1>3, <1>4, <1>5, <1>8, QueuesKept DEF Repainted, Allocated

\* One object is scanned.
LEMMA MarkAllKeeps == ASSUME FInv, NEW o \in gray, markAll(o) PROVE FInv'
<1> DEFINE fresh == {c \in scanObject(heap[o]) : Dead(c)}
<1>1. /\ phase = "mark" /\ phase' = "mark" /\ gray' = (gray \ {o}) \cup fresh
      /\ heap' = [c \in Allocated |->
                    IF c = o THEN [heap[c] EXCEPT !.color = Black]
                    ELSE IF c \in fresh THEN [heap[c] EXCEPT !.color = Gray]
                    ELSE heap[c]]
      /\ weakList' \subseteq weakList \cup {o}
      /\ UNCHANGED <<currentWhite, roots>> /\ UNCHANGED finalizing
  BY DEF markAll
<1>2. /\ TypeOK /\ fresh \subseteq Allocated /\ Allocated \subseteq Addr
      /\ \A c \in Allocated : heap[c] \in ObjectType
  BY DEF FInv, TypeOK, Dead
<1> HIDE DEF fresh
<1>3. ASSUME NEW c \in Allocated
      PROVE  heap'[c] \in ObjectType /\ heap'[c].otype = heap[c].otype
  BY <1>1, <1>2, SameKind, FourColours
<1>4. ASSUME NEW c \in Allocated
      PROVE  heap'[c].color \in {heap[c].color, Black, Gray}
  <2>1. heap[c] \in ObjectType
    BY <1>2
  <2> QED BY <1>1, <2>1 DEF ObjectType
<1>5. DOMAIN heap' = Allocated /\ heap' \in [Allocated -> ObjectType]
  BY <1>1, <1>3
<1>6. TypeOK'
  BY <1>1, <1>2, <1>5 DEF TypeOK, Allocated, finalizing
<1>7. deadWhite' = deadWhite /\ deadWhite # Gray /\ deadWhite # Black
  BY <1>1, <1>2 DEF deadWhite, TypeOK, Gray, Black
<1>8. \A c \in roots : ~ Dead(c)'
  <2>1. \A c \in roots : c \in Allocated /\ heap[c].color # deadWhite
    BY <1>1 DEF FInv, Between, Dead
  <2> QED BY <1>4, <1>5, <1>7, <2>1 DEF Dead
<1>9. Between'
  BY <1>1, <1>5, <1>8 DEF FInv, Between, Allocated, finalizing
<1> QED BY <1>1, <1>3, <1>5, <1>6, <1>9, QueuesKept DEF Allocated

\* Marking is over.
LEMMA MarkDoneKeeps == ASSUME FInv, markDone PROVE FInv'
<1>1. /\ phase = "mark" /\ phase' = "separate"
      /\ UNCHANGED <<heap, currentWhite, gray, weakList, roots>> /\ UNCHANGED finalizing
  BY DEF markDone
<1>2. TypeOK'
  BY <1>1 DEF FInv, TypeOK, Allocated, finalizing
<1>3. Between'
  BY <1>1 DEF FInv, Between, Allocated, Dead, deadWhite, finalizing
<1> QED BY <1>1, <1>2, <1>3, QueuesKept DEF Allocated

\* The unreached userdata change queues and colour.
LEMMA SeparateKeeps == ASSUME FInv, separateFinalizers PROVE FInv'
<1>1. /\ phase = "separate" /\ phase' = "clear"
      /\ UNCHANGED <<currentWhite, gray, weakList, roots>> /\ hasFinalizer' = hasFinalizer
  BY DEF separateFinalizers
<1>2. /\ TypeOK /\ Waiting /\ toRunFinalizers = <<>> /\ roots \subseteq Allocated
      /\ \A o \in roots : ~ Dead(o)
  BY <1>1 DEF FInv, Between
<1>3. CASE finalizeList = <<>>
  <2>1. UNCHANGED heap /\ UNCHANGED finalizing
    BY <1>1, <1>3 DEF separateFinalizers, finalizing
  <2>2. TypeOK'
    BY <1>1, <1>2, <2>1 DEF TypeOK, Allocated, finalizing
  <2>3. Queued' = {}
    BY <1>2, <1>3, <2>1 DEF Queued, ToSet, finalizing
  <2>4. Between'
    BY <1>1, <1>2, <2>1, <2>3 DEF Between, Allocated, Dead, deadWhite
  <2> QED BY <2>1, <2>2, <2>4, QueuesKept DEF Allocated
<1>4. CASE finalizeList # <<>>
  <2>1. /\ heap' = Colored(Resurrected, Black)
        /\ toRunFinalizers' = toRunFinalizers \o Selected(finalizeList, Resurrected)
        /\ finalizeList' = Selected(finalizeList, Allocated \ Resurrected)
    BY <1>4 DEF separateFinalizers
  <2>2. /\ finalizeList \in Seq(Addr) /\ IsInjective(finalizeList)
        /\ ToSet(finalizeList) \subseteq hasFinalizer /\ hasFinalizer \subseteq Userdata
        /\ Userdata \subseteq Allocated
    BY <1>2 DEF TypeOK, Waiting, Queued, Userdata
  <2>3. /\ Selected(finalizeList, Resurrected) \in Seq(Addr)
        /\ ToSet(Selected(finalizeList, Resurrected)) = ToSet(finalizeList) \cap Resurrected
        /\ IsInjective(Selected(finalizeList, Resurrected))
    BY <2>2, SelectedIs
  <2>4. /\ finalizeList' \in Seq(Addr)
        /\ ToSet(finalizeList') = ToSet(finalizeList) \ Resurrected
        /\ IsInjective(finalizeList')
    <3>1. ToSet(finalizeList) \cap (Allocated \ Resurrected) = ToSet(finalizeList) \ Resurrected
      BY <2>2
    <3> QED BY <2>1, <2>2, <3>1, SelectedIs
  <2>5. toRunFinalizers' = Selected(finalizeList, Resurrected)
    BY <1>2, <2>1, <2>3
  <2>6. Repainted /\ \A o \in Allocated : heap'[o].color = IF o \in Resurrected THEN Black ELSE heap[o].color
    BY <1>2, <2>1, PaintKinds, FourColours
  <2>7. DOMAIN heap' = Allocated /\ deadWhite' = deadWhite /\ deadWhite # Black
    BY <1>1, <1>2, <2>6, FourColours DEF Repainted, deadWhite
  <2>8. TypeOK'
    BY <1>1, <1>2, <2>3, <2>4, <2>5, <2>6, <2>7 DEF TypeOK, Repainted, Allocated
  <2>9. Waiting'
    <3>1. Userdata' = Userdata
      BY <2>6, <2>7 DEF Userdata, Allocated, Repainted
    <3>2. Queued' \subseteq ToSet(finalizeList)
      BY <2>3, <2>4, <2>5 DEF Queued
    <3>3. ToSet(finalizeList') \cap ToSet(toRunFinalizers') = {}
      BY <2>3, <2>4, <2>5
    <3> QED BY <1>1, <2>2, <2>3, <2>4, <2>5, <3>1, <3>2, <3>3 DEF Waiting
  <2>10. Between'
    <3>1. ASSUME NEW o \in Allocated, o \in Resurrected \/ ~ Dead(o) PROVE ~ Dead(o)'
      BY <2>6, <2>7, <3>1 DEF Dead
    <3>2. \A o \in roots : ~ Dead(o)'
      BY <1>2, <3>1
    <3>3. \A o \in ToSet(finalizeList) : o \in Resurrected \/ ~ Dead(o)
      BY DEF Resurrected
    <3>4. \A o \in Queued' : ~ Dead(o)'
      BY <2>2, <2>3, <2>4, <2>5, <3>1, <3>3 DEF Queued
    <3> QED BY <1>1, <1>2, <2>7, <3>2, <3>4 DEF Between, Allocated
  <2> QED BY <2>8, <2>9, <2>10 DEF FInv
<1> QED BY <1>3, <1>4

\* Weak tables lose entries.
LEMMA ClearKeeps == ASSUME FInv, clearWeakTables PROVE FInv'
<1>1. /\ phase = "clear" /\ phase' = "sweep" /\ weakList' = {}
      /\ heap' = [o \in Allocated |->
                    IF o \in weakList
                    THEN [heap[o] EXCEPT !.entries = {e \in @ : ~ DeadEntry(heap[o], e)}]
                    ELSE heap[o]]
      /\ UNCHANGED <<currentWhite, gray, roots>> /\ UNCHANGED finalizing
  BY DEF clearWeakTables
<1>2. TypeOK /\ \A o \in Allocated : heap[o] \in ObjectType
  BY DEF FInv, TypeOK
<1>3. ASSUME NEW o \in Allocated
      PROVE  heap'[o] \in ObjectType /\ heap'[o].otype = heap[o].otype /\ heap'[o].color = heap[o].color
  <2>1. CASE o \in weakList
    <3> DEFINE E == {e \in heap[o].entries : ~ DeadEntry(heap[o], e)}
    <3>1. heap'[o] = [heap[o] EXCEPT !.entries = E] /\ E \subseteq heap[o].entries
      BY <1>1, <2>1
    <3> HIDE DEF E
    <3>2. heap[o] \in ObjectType
      BY <1>2
    <3> QED BY <3>1, <3>2 DEF ObjectType
  <2>2. CASE o \notin weakList
    BY <1>1, <1>2, <2>2
  <2> QED BY <2>1, <2>2
<1>4. DOMAIN heap' = Allocated /\ heap' \in [Allocated -> ObjectType] /\ deadWhite' = deadWhite
  BY <1>1, <1>3 DEF deadWhite
<1>5. TypeOK'
  BY <1>1, <1>2, <1>4 DEF TypeOK, Allocated, finalizing
<1>6. \A o \in Allocated : ~ Dead(o) => ~ Dead(o)'
  BY <1>3, <1>4 DEF Dead
<1>7. Between'
  <2>1. roots' = roots /\ Queued' = Queued /\ Queued \subseteq Allocated /\ roots \subseteq Allocated
    BY <1>1 DEF finalizing, Queued, FInv, Waiting, Userdata, Between
  <2>2. (\A o \in roots : ~ Dead(o)) /\ \A o \in Queued : ~ Dead(o)
    BY <1>1 DEF FInv, Between
  <2> QED BY <1>1, <1>4, <1>6, <2>1, <2>2 DEF Between, Allocated
<1> QED BY <1>1, <1>3, <1>4, <1>5, <1>7, QueuesKept DEF Allocated

\* The dead go, and with them what was remembered of their finalizers.
LEMMA SweepKeeps == ASSUME FInv, sweep PROVE FInv'
<1> DEFINE freed == {o \in Allocated : Dead(o)}
           kept == Allocated \ freed
<1>1. /\ phase = "sweep" /\ phase' = "finalize"
      /\ heap' = [o \in kept |-> [heap[o] EXCEPT !.color = currentWhite]]
      /\ hasFinalizer' = hasFinalizer \ freed
      /\ UNCHANGED <<currentWhite, gray, weakList, roots, finalizeList, toRunFinalizers>>
  BY DEF sweep, Forgotten
<1>2. TypeOK /\ Allocated \subseteq Addr /\ \A o \in Allocated : heap[o] \in ObjectType
  BY DEF FInv, TypeOK
<1>3. \A o : o \in Allocated /\ ~ Dead(o) => o \in kept /\ o \notin freed
  OBVIOUS
<1>4. kept \subseteq Allocated
  OBVIOUS
<1> HIDE DEF freed, kept
<1>5. \A o \in kept : heap'[o] \in ObjectType /\ heap'[o].otype = heap[o].otype
  BY <1>1, <1>2, <1>4, SameKind, FourColours
<1>6. DOMAIN heap' = kept /\ heap' \in [kept -> ObjectType]
  BY <1>1, <1>5
<1>7. TypeOK'
  BY <1>1, <1>2, <1>4, <1>6 DEF TypeOK, Allocated
<1>8. Waiting'
  <2>1. hasFinalizer' \subseteq Userdata'
    <3>1. \A o \in hasFinalizer' : o \in Allocated /\ heap[o].otype = "userdata" /\ o \notin freed
      BY <1>1 DEF FInv, Waiting, Userdata
    <3>2. \A o \in hasFinalizer' : o \in kept
      BY <3>1 DEF kept
    <3> QED BY <1>5, <1>6, <3>1, <3>2 DEF Userdata, Allocated
  <2>2. Queued' = Queued /\ Queued \subseteq hasFinalizer'
    <3>1. \A o \in Queued : o \in hasFinalizer /\ o \in Allocated /\ ~ Dead(o)
      BY <1>1 DEF FInv, Waiting, Between, Userdata
    <3> QED BY <1>1, <1>3, <3>1 DEF Queued
  <2> QED BY <1>1, <2>1, <2>2 DEF FInv, Waiting
<1>9. Between'
  BY <1>1, <1>3, <1>6 DEF FInv, Between, Allocated
<1> QED BY <1>7, <1>8, <1>9 DEF FInv

\* A handler is started: the userdata becomes a root and leaves its queue.
LEMMA RunKeeps == ASSUME FInv, runFinalizer PROVE FInv'
<1>1. /\ phase' = "finalizing" /\ toRunFinalizers # <<>>
      /\ roots' = roots \cup {Last(toRunFinalizers)} /\ toRunFinalizers' = Front(toRunFinalizers)
      /\ UNCHANGED <<heap, currentWhite, gray, weakList, finalizeList, hasFinalizer>>
  BY DEF runFinalizer
<1>2. TypeOK /\ Waiting /\ toRunFinalizers \in Seq(Addr)
  BY DEF FInv, TypeOK
<1>3. /\ toRunFinalizers' \in Seq(Addr) /\ ToSet(toRunFinalizers') \subseteq ToSet(toRunFinalizers)
      /\ Last(toRunFinalizers) \in Addr /\ Last(toRunFinalizers) \in ToSet(toRunFinalizers)
      /\ IsInjective(toRunFinalizers')
  BY <1>1, <1>2, FrontOnce DEF Waiting
<1>4. TypeOK'
  BY <1>1, <1>2, <1>3 DEF TypeOK, Allocated
<1>5. Waiting'
  <2>1. Userdata' = Userdata
    BY <1>1 DEF Userdata, Allocated
  <2> QED BY <1>1, <1>2, <1>3, <2>1 DEF Waiting, Queued
<1>6. Between'
  <2>1. Last(toRunFinalizers) \in Allocated
    BY <1>2, <1>3 DEF Waiting, Queued, Userdata
  <2> QED BY <1>1, <2>1 DEF FInv, Between, Allocated
<1> QED BY <1>4, <1>5, <1>6 DEF FInv

\* The collection is over, with nothing left to run.
LEMMA EndKeeps == ASSUME FInv, endCollect PROVE FInv'
<1>1. /\ toRunFinalizers = <<>> /\ phase' = "mutate" /\ currentWhite' = 1 - currentWhite
      /\ UNCHANGED <<heap, gray, weakList, roots>> /\ UNCHANGED finalizing
  BY DEF endCollect, Flip
<1>2. TypeOK'
  BY <1>1 DEF FInv, TypeOK, Allocated, finalizing
<1>3. Between'
  BY <1>1 DEF FInv, Between, Allocated, finalizing
<1> QED BY <1>1, <1>2, <1>3, QueuesKept DEF Allocated

----------------------------------------------------------------------------
(* The theorems *)

\* Every step keeps the invariant.
LEMMA StepKeeps == ASSUME FInv, [Next]_vars PROVE FInv'
<1>1. CASE UNCHANGED vars
  <2>1. UNCHANGED <<heap, currentWhite, phase, gray, weakList, roots>> /\ UNCHANGED finalizing
    BY <1>1 DEF vars
  <2>2. TypeOK'
    BY <2>1 DEF FInv, TypeOK, Allocated, finalizing
  <2>3. Between'
    BY <2>1 DEF FInv, Between, Allocated, Dead, deadWhite, Queued, finalizing
  <2> QED BY <2>1, <2>2, <2>3, QueuesKept DEF Allocated
<1>2. CASE Mutate
  BY <1>2, ProgramKeeps
<1>3. CASE Collect
  <2>1. ASSUME NEW o \in gray, markAll(o) PROVE FInv'
    BY <2>1, MarkAllKeeps
  <2> QED
    BY <1>3, <2>1, MarkRootsKeeps, MarkDoneKeeps, SeparateKeeps, ClearKeeps, SweepKeeps, RunKeeps, EndKeeps
       DEF Collect
<1> QED BY <1>1, <1>2, <1>3 DEF Next

\* The empty heap, where nobody waits.
LEMMA InitKeeps == Init => FInv
<1> SUFFICES ASSUME Init PROVE FInv
  OBVIOUS
<1>1. Allocated = {} /\ finalizeList = <<>> /\ toRunFinalizers = <<>> /\ hasFinalizer = {} /\ roots = {}
  BY DEF Init, Allocated
<1>2. TypeOK
  BY <1>1 DEF Init, TypeOK, Allocated
<1>3. ToSet(finalizeList) = {} /\ IsInjective(finalizeList)
  BY <1>1 DEF ToSet, IsInjective
<1>4. Waiting
  BY <1>1, <1>3 DEF Waiting, Queued
<1>5. Between
  BY <1>1 DEF Init, Between
<1> QED BY <1>2, <1>4, <1>5 DEF FInv

\* The invariant always holds.
LEMMA FInvAlways == Spec => []FInv
<1>1. Init => FInv
  BY InitKeeps
<1>2. FInv /\ [Next]_vars => FInv'
  BY StepKeeps
<1> QED BY <1>1, <1>2, PTL DEF Spec

\* The variables keep their shapes, whether or not finalizers run.
THEOREM TypeCorrect == Spec => []TypeOK
<1>1. FInv => TypeOK
  BY DEF FInv
<1> QED BY <1>1, FInvAlways, PTL

\* Whatever __gc handlers do, userdata that are owed one are alive, wait on one
\* queue at most, and once: none runs twice, none runs on a freed object.
THEOREM FinalizerOwedOnceAlways == Spec => []FinalizerOwedOnce
<1>1. FInv => FinalizerOwedOnce
  <2> SUFFICES ASSUME FInv PROVE FinalizerOwedOnce
    OBVIOUS
  <2>1. Waiting /\ finalizeList \in Seq(Addr) /\ toRunFinalizers \in Seq(Addr)
    BY DEF FInv, TypeOK
  <2>2. IsInjective(finalizeList \o toRunFinalizers)
    BY <2>1, ConcatOnce DEF Waiting
  <2> QED BY <2>1, <2>2 DEF FinalizerOwedOnce, Waiting, Queued, Userdata
<1> QED BY <1>1, FInvAlways, PTL

----------------------------------------------------------------------------
(* Marking and sweeping, while __gc handlers leave the heap alone *)

Quiet == Finalizers # "lua"
\* Bringing back a userdata brings back nothing else.
Bare == \A o \in Allocated : heap[o].otype = "userdata" =>
            heap[o].refs = {} /\ heap[o].entries = {} /\ heap[o].mode = ""

\* No reference leaves the heap, out of the roots or out of any object.
HeapClosed ==
    /\ roots \subseteq Allocated /\ gray \subseteq Allocated /\ weakList \subseteq Allocated
    /\ \A o \in Allocated : Refs(heap[o]) \subseteq Allocated \cup {Scalar}

\* The tri-colour invariant, phase by phase.
Marked == {o \in Allocated : heap[o].color # deadWhite}
Blacks == {o \in Allocated : heap[o].color = Black}
NoWork == gray = {} /\ weakList = {}
Candidates == NoWork /\ \A o \in Allocated : heap[o].color = deadWhite
TriColour ==
    /\ \A o \in Allocated : heap[o].color \in {deadWhite, Gray, Black}
    /\ gray = {o \in Allocated : heap[o].color = Gray}
    /\ roots \subseteq Marked
    /\ \A o \in Blacks : Strong(heap[o]) \subseteq Marked
    /\ \A o \in Allocated : o \in weakList <=> (o \in Blacks /\ heap[o].mode # "")
AllScanned == TriColour /\ gray = {}
Cleared ==
    /\ NoWork
    /\ \A o \in Allocated : heap[o].color \in {deadWhite, Black}
    /\ roots \subseteq Blacks
    /\ \A o \in Blacks : Refs(heap[o]) \subseteq Blacks \cup {Scalar}

PhaseInv ==
    /\ phase = "mutate" => Candidates
    /\ phase = "mark" => TriColour /\ Marked \subseteq Reachable
    /\ phase = "separate" => AllScanned /\ Blacks = Reachable
    /\ phase = "clear" => AllScanned
    /\ phase = "sweep" => Cleared
    /\ phase \in {"finalize", "finalizing"} => NoWork /\ \A o \in Allocated : heap[o].color = currentWhite

IInv == HeapType /\ Bare /\ HeapClosed /\ PhaseInv

----------------------------------------------------------------------------
(* Strong is what scanObject follows *)

\* What scanObject follows from an object is exactly its strong references.
LEMMA ScanIsStrong == ASSUME NEW obj \in ObjectType
                      PROVE  scanObject(obj) = Strong(obj)
  <1>1. obj.mode \in {"", "k", "v", "kv"}
    BY ModesAssumption DEF ObjectType
  <1> QED
    BY <1>1 DEF scanObject, Strong, Refs, WeakKey, WeakVal

\* What is found reachable depends on the edges, not on the colours.
LEMMA ColoursDoNotMatter ==
    ASSUME DOMAIN heap' = Allocated, roots' = roots,
           \A o \in Allocated : Strong(heap'[o]) = Strong(heap[o])
    PROVE  Reachable' = Reachable
  <1>1. [o \in DOMAIN heap' |-> Strong(heap'[o])] = [o \in Allocated |-> Strong(heap[o])]
    OBVIOUS
  <1> QED
    BY <1>1 DEF Reachable, Following, Closed, Allocated, Strong, Refs

----------------------------------------------------------------------------
(* Reachability *)

\* The roots are reachable.
LEMMA RootsReachable == ASSUME HeapClosed PROVE roots \subseteq Reachable
  BY DEF HeapClosed, Reachable, Following, Closed

\* Reachability follows strong references.
LEMMA ReachableClosed ==
    ASSUME HeapClosed, NEW o \in Reachable, NEW c \in Strong(heap[o])
    PROVE  c \in Reachable
  <1>1. o \in Allocated
    BY DEF Reachable, Following
  <1>2. c \in Allocated
    BY <1>1 DEF HeapClosed, Strong
  <1> QED
    BY <1>1, <1>2 DEF Reachable, Following, Closed

\* Any set that holds the roots and is closed under strong references holds all that is reachable.
LEMMA ReachableLeast ==
    ASSUME NEW S, S \subseteq Allocated, roots \subseteq S, \A o \in S : Strong(heap[o]) \subseteq S
    PROVE  Reachable \subseteq S
  BY DEF Reachable, Following, Closed

----------------------------------------------------------------------------
(* The steps of a collection *)

\* A step that only recolours leaves the heap closed and its edges as they were.
LEMMA RecolouringStep ==
    ASSUME HeapClosed, HeapType, Bare, heap' \in [Allocated -> ObjectType],
           \A o \in Allocated : SameButColour(heap[o], heap'[o]),
           roots' = roots, gray' \subseteq Allocated, weakList' \subseteq Allocated,
           currentWhite' \in {0, 1}
    PROVE  /\ HeapType' /\ Bare' /\ HeapClosed' /\ Reachable' = Reachable
           /\ DOMAIN heap' = DOMAIN heap
           /\ \A o \in Allocated : /\ Strong(heap'[o]) = Strong(heap[o])
                                  /\ Refs(heap'[o]) = Refs(heap[o])
                                  /\ heap'[o].mode = heap[o].mode
  <1>1. DOMAIN heap' = DOMAIN heap
    BY DEF Allocated
  <1>2. \A o \in Allocated : /\ Strong(heap'[o]) = Strong(heap[o])
                            /\ Refs(heap'[o]) = Refs(heap[o])
                            /\ heap'[o].mode = heap[o].mode
    BY SameEdges DEF SameButColour
  <1>3. Reachable' = Reachable
    BY <1>1, <1>2, ColoursDoNotMatter DEF Allocated
  <1>4. HeapType'
    BY <1>1 DEF HeapType, Allocated
  <1>5. HeapClosed'
    BY <1>1, <1>2 DEF HeapClosed, Allocated
  <1>6. Bare'
    BY <1>1 DEF Bare, SameButColour, Allocated
  <1> QED
    BY <1>1, <1>2, <1>3, <1>4, <1>5, <1>6

\* The white looked for is neither gray nor black.
LEMMA White == ASSUME HeapType PROVE deadWhite \in {0, 1} /\ deadWhite # Gray /\ deadWhite # Black /\ Gray # Black
  BY DEF HeapType, deadWhite, Gray, Black

\* Marking the roots starts the tri-colour phase.
LEMMA MarkRootsStep == ASSUME IInv, markRoots PROVE IInv'
  <1> USE DEF IInv
  <1>0. /\ phase = "mutate" /\ phase' = "mark" /\ heap' = Colored(gray', Gray)
        /\ gray' = {o \in roots : Dead(o)} /\ UNCHANGED <<currentWhite, weakList, roots, finalizing>>
    BY DEF markRoots
  <1>1. Candidates
    BY <1>0 DEF PhaseInv
  <1>2. gray' = roots /\ weakList' = {} /\ roots \subseteq Allocated
    BY <1>0, <1>1 DEF Candidates, Dead, HeapClosed, NoWork
  <1>3. /\ heap' \in [Allocated -> ObjectType]
        /\ \A o \in Allocated : SameButColour(heap[o], heap'[o])
        /\ \A o \in Allocated : heap'[o].color = IF o \in roots THEN Gray ELSE deadWhite
    <2>1. Gray \in 0 .. 3
      BY DEF Gray
    <2>2. gray' \subseteq Allocated /\ \A o \in Allocated : o \in gray' <=> o \in roots
      BY <1>2
    <2>3. \A o \in Allocated : heap[o].color = deadWhite
      BY <1>1 DEF Candidates
    <2> QED
      BY <1>0, <2>1, <2>2, <2>3, ColouredType
  <1>4. /\ HeapType' /\ Bare' /\ HeapClosed' /\ Reachable' = Reachable /\ DOMAIN heap' = DOMAIN heap
    BY <1>0, <1>2, <1>3, RecolouringStep DEF HeapType, HeapClosed
  <1>5. deadWhite' = deadWhite
    BY <1>0 DEF deadWhite
  <1>6. TriColour'
    BY <1>0, <1>2, <1>3, <1>4, <1>5, White DEF TriColour, Marked, Blacks, Allocated
  <1>7. (Marked \subseteq Reachable)'
    BY <1>2, <1>3, <1>4, <1>5, RootsReachable DEF Marked, Allocated
  <1> QED
    BY <1>0, <1>4, <1>6, <1>7 DEF PhaseInv

\* Blackening one gray object keeps the tri-colour invariant, and marks only what is reachable.
LEMMA MarkAllStep == ASSUME IInv, NEW o \in gray, markAll(o) PROVE IInv'
  <1> USE DEF IInv
  <1> DEFINE fresh == {c \in scanObject(heap[o]) : Dead(c)}
             colour(c) == IF c = o THEN Black ELSE IF c \in fresh THEN Gray ELSE heap[c].color
  <1>0. /\ phase = "mark" /\ phase' = "mark"
        /\ gray' = (gray \ {o}) \cup fresh
        /\ heap' = [c \in Allocated |->
                      IF c = o THEN [heap[c] EXCEPT !.color = Black]
                      ELSE IF c \in fresh THEN [heap[c] EXCEPT !.color = Gray]
                      ELSE heap[c]]
        /\ weakList' = IF heap[o].mode # "" THEN weakList \cup {o} ELSE weakList
        /\ UNCHANGED <<currentWhite, roots, finalizing>>
    BY DEF markAll
  <1>1. TriColour /\ Marked \subseteq Reachable /\ o \in Allocated /\ heap[o].color = Gray
    BY <1>0 DEF PhaseInv, TriColour
  <1>2. fresh = {c \in Strong(heap[o]) : Dead(c)} /\ o \notin fresh /\ fresh \subseteq Allocated
    BY <1>1, ScanIsStrong, White DEF HeapType, Dead
  <1> HIDE DEF fresh
  <1>3. ASSUME NEW c \in Allocated
        PROVE  /\ heap'[c] \in ObjectType /\ SameButColour(heap[c], heap'[c])
               /\ heap'[c].color = colour(c)
    <2>1. heap[c] \in ObjectType /\ Black \in 0 .. 3 /\ Gray \in 0 .. 3
      BY DEF HeapType, Black, Gray
    <2>2. CASE c = o
      <3>1. heap'[c] = [heap[c] EXCEPT !.color = Black]
        BY <1>0, <2>2
      <3>2. SameButColour(heap[c], heap'[c]) /\ heap'[c].color = Black
        BY <2>1, <3>1, Recoloured, Zenon
      <3> QED
        BY <2>2, <3>2 DEF SameButColour
    <2>3. CASE c # o /\ c \in fresh
      <3>1. heap'[c] = [heap[c] EXCEPT !.color = Gray]
        BY <1>0, <2>3
      <3>2. SameButColour(heap[c], heap'[c]) /\ heap'[c].color = Gray
        BY <2>1, <3>1, Recoloured, Zenon
      <3> QED
        BY <2>3, <3>2 DEF SameButColour
    <2>4. CASE c # o /\ c \notin fresh
      <3>1. heap'[c] = heap[c]
        BY <1>0, <2>4
      <3> QED
        BY <2>1, <2>4, <3>1 DEF SameButColour
    <2> QED
      BY <2>2, <2>3, <2>4
  <1>4. heap' \in [Allocated -> ObjectType]
    BY <1>0, <1>3
  <1>5. gray' \subseteq Allocated /\ weakList' \subseteq Allocated
    BY <1>0, <1>1, <1>2 DEF HeapClosed
  <1>6. /\ HeapType' /\ Bare' /\ HeapClosed' /\ Reachable' = Reachable /\ DOMAIN heap' = DOMAIN heap
        /\ \A c \in Allocated : Strong(heap'[c]) = Strong(heap[c]) /\ heap'[c].mode = heap[c].mode
    BY <1>0, <1>3, <1>4, <1>5, RecolouringStep DEF HeapType
  <1>7. deadWhite' = deadWhite
    BY <1>0 DEF deadWhite
  <1>8. \A c \in Allocated : heap'[c].color = colour(c)
    BY <1>3
  <1>9. \A c \in fresh : heap[c].color = deadWhite
    BY <1>2 DEF Dead
  <1>10. Marked' = Marked \cup fresh /\ Blacks' = Blacks \cup {o}
    BY <1>1, <1>2, <1>6, <1>7, <1>8, <1>9, White DEF Marked, Blacks, Allocated
  <1>11. Strong(heap[o]) \subseteq Marked \cup fresh
    <2>1. Strong(heap[o]) \subseteq Allocated
      BY <1>1 DEF HeapClosed, Strong
    <2> QED
      BY <1>2, <2>1 DEF Marked, Dead
  <1>12. TriColour'
    <2>1. \A c \in Allocated' : heap'[c].color \in {deadWhite, Gray, Black}
      BY <1>1, <1>6, <1>8 DEF TriColour, Allocated
    <2>2. gray' = {c \in Allocated' : heap'[c].color = Gray}
      <3>1. Allocated' = Allocated /\ gray' \subseteq Allocated
        BY <1>5, <1>6 DEF Allocated
      <3>2. ASSUME NEW c \in Allocated
            PROVE  heap'[c].color = Gray <=> (c \in gray /\ c # o) \/ c \in fresh
        BY <1>1, <1>8, <1>9, White DEF TriColour
      <3>3. gray' = (gray \ {o}) \cup fresh
        BY <1>0
      <3> QED BY <3>1, <3>2, <3>3
    <2>3. roots' \subseteq Marked'
      BY <1>0, <1>1, <1>10 DEF TriColour
    <2>4. \A c \in Blacks' : Strong(heap'[c]) \subseteq Marked'
      BY <1>1, <1>6, <1>10, <1>11 DEF TriColour, Blacks
    <2>5. \A c \in Allocated' : c \in weakList' <=> (c \in Blacks' /\ heap'[c].mode # "")
      BY <1>0, <1>1, <1>6, <1>10 DEF TriColour, Allocated
    <2> QED
      BY <1>7, <2>1, <2>2, <2>3, <2>4, <2>5 DEF TriColour
  <1>13. (Marked \subseteq Reachable)'
    <2>1. o \in Reachable
      BY <1>1, White DEF Marked
    <2>2. fresh \subseteq Reachable
      BY <1>2, <2>1, ReachableClosed
    <2> QED
      BY <1>1, <1>6, <1>10, <2>2
  <1> QED
    BY <1>0, <1>6, <1>12, <1>13 DEF PhaseInv

\* A step that leaves the heap alone leaves colours and reachability alone.
LEMMA Unmoved ==
    ASSUME UNCHANGED <<heap, currentWhite, gray, weakList, roots>>
    PROVE  /\ Blacks' = Blacks /\ Marked' = Marked /\ Reachable' = Reachable
           /\ TriColour => TriColour'
           /\ HeapType => HeapType'
           /\ HeapClosed => HeapClosed'
           /\ Bare => Bare'
  <1>1. Allocated' = Allocated /\ deadWhite' = deadWhite
    BY DEF Allocated, deadWhite
  <1>2. Blacks' = Blacks /\ Marked' = Marked
    BY <1>1 DEF Blacks, Marked
  <1>3. \A o : Strong(heap'[o]) = Strong(heap[o]) /\ Refs(heap'[o]) = Refs(heap[o])
    OBVIOUS
  <1>4. Reachable' = Reachable
    BY <1>1, <1>3, ColoursDoNotMatter DEF Allocated
  <1>5. TriColour => TriColour'
    BY <1>1, <1>2 DEF TriColour
  <1>6. (HeapType => HeapType') /\ (HeapClosed => HeapClosed') /\ (Bare => Bare')
    BY <1>1 DEF HeapType, HeapClosed, Bare
  <1> QED
    BY <1>2, <1>4, <1>5, <1>6

\* With no gray object left, the black ones are the reachable ones.
LEMMA MarkDoneStep == ASSUME IInv, markDone PROVE IInv'
  <1> USE DEF IInv
  <1>0. /\ phase = "mark" /\ gray = {} /\ phase' = "separate"
        /\ UNCHANGED <<heap, currentWhite, gray, weakList, roots, finalizing>>
    BY DEF markDone
  <1>1. TriColour /\ Marked \subseteq Reachable
    BY <1>0 DEF PhaseInv
  <1>2. Marked = Blacks
    BY <1>0, <1>1, White DEF TriColour, Marked, Blacks
  <1>3. Reachable \subseteq Blacks
    <2>1. Blacks \subseteq Allocated
      BY DEF Blacks
    <2> QED
      BY <1>1, <1>2, <2>1, ReachableLeast DEF TriColour
  <1>4. AllScanned' /\ (Blacks = Reachable)'
    BY <1>0, <1>1, <1>2, <1>3, Unmoved DEF AllScanned
  <1>5. (HeapType /\ HeapClosed /\ Bare)'
    BY <1>0, Unmoved
  <1> QED
    BY <1>0, <1>4, <1>5 DEF PhaseInv

\* The userdata brought back are black, and refer to nothing.
LEMMA SeparateStep == ASSUME IInv, FInv, separateFinalizers PROVE IInv'
  <1> USE DEF IInv
  <1>0. /\ phase = "separate" /\ phase' = "clear"
        /\ UNCHANGED <<currentWhite, gray, weakList, roots>>
    BY DEF separateFinalizers
  <1>1. AllScanned /\ deadWhite' = deadWhite
    BY <1>0 DEF PhaseInv, deadWhite
  <1>2. CASE finalizeList = <<>>
    <2>1. UNCHANGED <<heap, currentWhite, gray, weakList, roots>>
      BY <1>0, <1>2 DEF separateFinalizers
    <2>2. AllScanned'
      BY <1>0, <1>1, <2>1, Unmoved DEF AllScanned
    <2> QED
      BY <1>0, <2>1, <2>2, Unmoved DEF PhaseInv
  <1>3. CASE finalizeList # <<>>
    <2>1. heap' = Colored(Resurrected, Black)
      BY <1>3 DEF separateFinalizers
    <2>2. \A o \in Resurrected : /\ o \in Allocated /\ heap[o].color = deadWhite
                                 /\ Strong(heap[o]) = {} /\ heap[o].mode = ""
      <3>1. ASSUME NEW o \in Resurrected
            PROVE  o \in Allocated /\ heap[o].color = deadWhite /\ heap[o].otype = "userdata"
        BY DEF FInv, Waiting, Queued, Userdata, Resurrected, Dead
      <3> QED
        BY <3>1 DEF Bare, Strong, Refs
    <2>3. /\ heap' \in [Allocated -> ObjectType]
          /\ \A o \in Allocated : SameButColour(heap[o], heap'[o])
          /\ \A o \in Allocated : heap'[o].color = IF o \in Resurrected THEN Black ELSE heap[o].color
      <3>1. Black \in 0 .. 3
        BY DEF Black
      <3> QED
        BY <2>1, <3>1, ColouredType
    <2>4. /\ HeapType' /\ Bare' /\ HeapClosed' /\ DOMAIN heap' = DOMAIN heap
          /\ \A o \in Allocated : Strong(heap'[o]) = Strong(heap[o]) /\ heap'[o].mode = heap[o].mode
      BY <1>0, <2>3, RecolouringStep DEF HeapType, HeapClosed
    <2>5. Blacks' = Blacks \cup Resurrected /\ Marked \subseteq Marked'
      BY <1>1, <2>2, <2>3, <2>4, White DEF Blacks, Marked, Allocated
    <2>6. TriColour'
      <3>1. \A o \in Allocated' : heap'[o].color \in {deadWhite', Gray, Black}
        BY <1>1, <2>3, <2>4 DEF AllScanned, TriColour, Allocated
      <3>2. gray' = {o \in Allocated' : heap'[o].color = Gray}
        BY <1>0, <1>1, <2>3, <2>4, White DEF AllScanned, TriColour, Allocated
      <3>3. roots' \subseteq Marked'
        BY <1>0, <1>1, <2>5 DEF AllScanned, TriColour
      <3>4. \A o \in Blacks' : Strong(heap'[o]) \subseteq Marked'
        BY <1>1, <2>2, <2>4, <2>5 DEF AllScanned, TriColour, Blacks
      <3>5. \A o \in Allocated' : o \in weakList' <=> (o \in Blacks' /\ heap'[o].mode # "")
        BY <1>0, <1>1, <2>2, <2>4, <2>5 DEF AllScanned, TriColour, Allocated
      <3> QED
        BY <3>1, <3>2, <3>3, <3>4, <3>5 DEF TriColour
    <2> QED
      BY <1>0, <1>1, <2>4, <2>6 DEF PhaseInv, AllScanned
  <1> QED
    BY <1>2, <1>3

\* After the weak tables are cleared, black objects refer to black ones only.
LEMMA ClearStep == ASSUME IInv, clearWeakTables PROVE IInv'
  <1> USE DEF IInv
  <1> DEFINE alive(o) == {e \in heap[o].entries : ~ DeadEntry(heap[o], e)}
  <1>0. /\ phase = "clear" /\ phase' = "sweep" /\ weakList' = {}
        /\ heap' = [o \in Allocated |->
                       IF o \in weakList THEN [heap[o] EXCEPT !.entries = alive(o)] ELSE heap[o]]
        /\ UNCHANGED <<currentWhite, gray, roots, finalizing>>
    BY DEF clearWeakTables
  <1>1. TriColour /\ gray = {}
    BY <1>0 DEF PhaseInv, AllScanned
  <1>2. \A o \in Allocated : alive(o) \subseteq heap[o].entries
    OBVIOUS
  <1> HIDE DEF alive
  <1>3. ASSUME NEW o \in Allocated
        PROVE  /\ heap'[o] \in ObjectType /\ heap'[o].refs = heap[o].refs
               /\ heap'[o].color = heap[o].color /\ heap'[o].mode = heap[o].mode
               /\ heap'[o].otype = heap[o].otype
               /\ heap'[o].entries = IF o \in weakList THEN alive(o) ELSE heap[o].entries
    <2>1. heap[o] \in ObjectType /\ alive(o) \subseteq heap[o].entries
      BY <1>2 DEF HeapType
    <2>2. CASE o \in weakList
      <3>1. heap'[o] = [heap[o] EXCEPT !.entries = alive(o)]
        BY <1>0, <2>2
      <3> QED
        BY <2>1, <2>2, <3>1 DEF ObjectType
    <2>3. CASE o \notin weakList
      BY <1>0, <2>1, <2>3
    <2> QED
      BY <2>2, <2>3
  <1>4. DOMAIN heap' = DOMAIN heap /\ deadWhite' = deadWhite
    BY <1>0 DEF Allocated, deadWhite
  <1>5. HeapType'
    BY <1>0, <1>3, <1>4 DEF HeapType, Allocated
  <1>6. \A o \in Allocated : Refs(heap'[o]) \subseteq Refs(heap[o])
    BY <1>2, <1>3 DEF Refs
  <1>7. HeapClosed'
    BY <1>0, <1>1, <1>4, <1>6 DEF HeapClosed, Allocated
  <1>8. Marked = Blacks /\ Blacks' = Blacks
    <2>1. Marked = Blacks
      BY <1>1, White DEF TriColour, Marked, Blacks
    <2>2. Blacks' = Blacks
      BY <1>3, <1>4 DEF Blacks, Allocated
    <2> QED BY <2>1, <2>2
  <1>9. ASSUME NEW o \in Blacks PROVE Refs(heap'[o]) \subseteq Blacks \cup {Scalar}
    <2>0. o \in Allocated /\ heap[o] \in ObjectType /\ heap[o].mode \in {"", "k", "v", "kv"}
      BY ModesAssumption DEF Blacks, HeapType, ObjectType
    <2>1. SUFFICES ASSUME NEW r \in Refs(heap'[o]), r # Scalar, r \notin Blacks PROVE FALSE
      OBVIOUS
    <2>2. r \in Allocated /\ Dead(r) /\ r \notin Strong(heap[o])
      <3>1. r \in Allocated
        BY <1>6, <2>0, <2>1 DEF HeapClosed
      <3>2. r \notin Strong(heap[o])
        BY <1>1, <1>8, <2>1 DEF TriColour
      <3>3. heap[r].color = deadWhite
        BY <1>8, <2>1, <3>1 DEF Marked
      <3> QED
        BY <3>1, <3>2, <3>3 DEF Dead
    <2>3. r \notin heap[o].refs
      BY <2>1, <2>2 DEF Strong, Refs
    <2>4. PICK e \in heap'[o].entries : r = e.key \/ r = e.val
      BY <1>3, <2>0, <2>1, <2>3 DEF Refs
    <2>5. e \in heap[o].entries
      BY <1>2, <1>3, <2>0, <2>4
    <2>6. /\ r = e.key => heap[o].mode \in {"k", "kv"}
          /\ r = e.val => heap[o].mode \in {"v", "kv"}
      <3>1. r \in Refs(heap[o]) \ {Scalar}
        BY <1>6, <2>0, <2>1
      <3> QED
        BY <2>0, <2>2, <2>5, <3>1 DEF Strong
    <2>7. o \in weakList
      BY <1>1, <2>0, <2>4, <2>6 DEF TriColour
    <2>8. ~ DeadEntry(heap[o], e)
      BY <1>3, <2>0, <2>4, <2>7 DEF alive
    <2> QED
      BY <2>2, <2>4, <2>6, <2>8 DEF DeadEntry, WeakKey, WeakVal
  <1>10. Cleared'
    <2>1. NoWork'
      BY <1>0, <1>1 DEF NoWork
    <2>2. \A o \in Allocated' : heap'[o].color \in {deadWhite', Black}
      BY <1>1, <1>3, <1>4 DEF TriColour, Allocated
    <2>3. roots' \subseteq Blacks'
      BY <1>0, <1>1, <1>8 DEF TriColour
    <2> QED
      BY <1>8, <1>9, <2>1, <2>2, <2>3 DEF Cleared
  <1>11. Bare'
    <2>1. ASSUME NEW o \in Allocated, heap[o].otype = "userdata"
          PROVE  heap'[o].refs = {} /\ heap'[o].entries = {} /\ heap'[o].mode = ""
      <3>1. heap[o].refs = {} /\ heap[o].entries = {} /\ heap[o].mode = ""
        BY <2>1 DEF Bare
      <3>2. alive(o) = {}
        BY <1>2, <3>1
      <3> QED
        BY <1>3, <3>1, <3>2
    <2>2. \A o \in Allocated : heap'[o].otype = heap[o].otype
      BY <1>3
    <2> QED
      BY <1>4, <2>1, <2>2 DEF Bare, Allocated
  <1> QED
    BY <1>0, <1>5, <1>7, <1>10, <1>11 DEF PhaseInv

\* The sweep leaves exactly the black objects, in the current white.
LEMMA SweepStep ==
    ASSUME IInv, sweep
    PROVE  IInv' /\ DOMAIN heap' = Blacks
  <1> USE DEF IInv
  <1> DEFINE freed == {o \in Allocated : Dead(o)}
             kept == Allocated \ freed
  <1>0. /\ phase = "sweep" /\ phase' = "finalize"
        /\ heap' = [o \in kept |-> [heap[o] EXCEPT !.color = currentWhite]]
        /\ hasFinalizer' = hasFinalizer \ Forgotten(freed)
        /\ UNCHANGED <<currentWhite, gray, weakList, roots, finalizeList, toRunFinalizers>>
    BY DEF sweep
  <1>1. Cleared
    BY <1>0 DEF PhaseInv
  <1>2. kept = Blacks
    BY <1>1, White DEF Cleared, Blacks, Dead
  <1>3. DOMAIN heap' = Blacks
    BY <1>0, <1>2
  <1> HIDE DEF freed, kept
  <1>4. ASSUME NEW o \in Blacks
        PROVE  SameButColour(heap[o], heap'[o]) /\ heap'[o].color = currentWhite
    <2>1. heap'[o] = [heap[o] EXCEPT !.color = currentWhite]
      BY <1>0, <1>2
    <2>2. heap[o] \in ObjectType /\ currentWhite \in 0 .. 3
      BY DEF HeapType, Blacks
    <2> QED
      BY <2>1, <2>2, Recoloured, Zenon
  <1>5. HeapType'
    <2>1. heap' \in [Blacks -> ObjectType]
      BY <1>0, <1>2, <1>4 DEF SameButColour
    <2> QED
      BY <1>0, <1>3, <2>1 DEF HeapType, Allocated, Blacks
  <1>6. \A o \in Blacks : Refs(heap'[o]) = Refs(heap[o])
    BY <1>4, SameEdges
  <1>7. HeapClosed'
    BY <1>0, <1>1, <1>3, <1>6 DEF HeapClosed, Cleared, NoWork, Allocated
  <1>8. Bare'
    BY <1>3, <1>4 DEF Bare, SameButColour, Blacks, Allocated
  <1>9. NoWork' /\ \A o \in Allocated' : heap'[o].color = currentWhite'
    BY <1>0, <1>1, <1>3, <1>4 DEF Cleared, NoWork, Allocated
  <1> QED
    BY <1>0, <1>3, <1>5, <1>7, <1>8, <1>9 DEF PhaseInv

\* The flip makes every survivor a candidate of the next collection.
LEMMA EndStep == ASSUME IInv, endCollect PROVE IInv'
  <1> USE DEF IInv
  <1>0. /\ phase \in {"finalize", "finalizing"} /\ phase' = "mutate" /\ currentWhite' = 1 - currentWhite
        /\ UNCHANGED <<heap, gray, weakList, roots, finalizing>>
    BY DEF endCollect, Flip
  <1>1. NoWork /\ \A o \in Allocated : heap[o].color = currentWhite
    BY <1>0 DEF PhaseInv
  <1>2. currentWhite' \in {0, 1} /\ deadWhite' = currentWhite
    BY <1>0 DEF HeapType, deadWhite
  <1>3. Candidates'
    BY <1>0, <1>1, <1>2 DEF Candidates, NoWork, Allocated
  <1>4. HeapType'
    BY <1>0, <1>2 DEF HeapType, Allocated
  <1>5. HeapClosed'
    BY <1>0 DEF HeapClosed, Allocated
  <1>6. Bare'
    BY <1>0 DEF Bare, Allocated
  <1> QED
    BY <1>0, <1>3, <1>4, <1>5, <1>6 DEF PhaseInv

\* A userdata that waited for its handler is a root again; the heap stays.
LEMMA RunStep == ASSUME IInv, FInv, runFinalizer PROVE IInv'
  <1> USE DEF IInv
  <1>0. /\ phase \in {"finalize", "finalizing"} /\ phase' = "finalizing"
        /\ UNCHANGED <<heap, currentWhite, gray, weakList>>
    BY DEF runFinalizer
  <1>1. roots' \subseteq Allocated
    BY RunKeeps, <1>0 DEF FInv, Between, Allocated
  <1>2. HeapType' /\ HeapClosed' /\ Bare'
    BY <1>0, <1>1 DEF HeapType, HeapClosed, Bare, Allocated
  <1> QED
    BY <1>0, <1>2 DEF PhaseInv, NoWork, Allocated

----------------------------------------------------------------------------
(* The steps of the program *)

\* A step of the program that keeps references inside the heap, and colours as they are, keeps the invariant.
LEMMA ProgramStep ==
    ASSUME IInv, phase = "mutate", UNCHANGED collectorVars, Bare',
           heap' \in [DOMAIN heap' -> ObjectType], DOMAIN heap' \subseteq Addr,
           roots' \subseteq DOMAIN heap',
           \A o \in DOMAIN heap' : /\ heap'[o].color = deadWhite
                                  /\ Refs(heap'[o]) \subseteq DOMAIN heap' \cup {Scalar}
    PROVE  IInv'
  <1>0. /\ phase' = "mutate"
        /\ UNCHANGED <<currentWhite, phase, gray, weakList>>
    BY DEF collectorVars
  <1>1. deadWhite' = deadWhite
    BY <1>0 DEF deadWhite
  <1>2. Candidates
    BY DEF IInv, PhaseInv
  <1>3. Candidates'
    BY <1>0, <1>1, <1>2 DEF Candidates, NoWork, Allocated
  <1>4. HeapType'
    BY <1>0 DEF IInv, HeapType, Allocated
  <1>5. HeapClosed'
    BY <1>0, <1>2 DEF HeapClosed, Candidates, NoWork, Allocated
  <1> QED
    BY <1>0, <1>3, <1>4, <1>5 DEF IInv, PhaseInv

\* A newborn is a candidate like all others, and refers to nothing.
LEMMA NewObject ==
    ASSUME IInv, phase = "mutate", UNCHANGED collectorVars,
           NEW a \in Addr \ Allocated, NEW t \in OTypes \cup {"string"}, NEW c \in Contents \cup {Scalar},
           LinkSweep(a, Object(t, c)), roots' = roots \cup {a}
    PROVE  IInv'
  <1>1. HeapType /\ HeapClosed /\ Candidates
    BY DEF IInv, PhaseInv
  <1>2. DOMAIN heap' = Allocated \cup {a}
    BY DEF LinkSweep
  <1>3. \A o \in Allocated : heap'[o] = heap[o]
    BY DEF LinkSweep
  <1>4. heap'[a] = [Object(t, c) EXCEPT !.color = deadWhite]
    BY DEF LinkSweep, NewColor
  <1>5. deadWhite \in 0 .. 3
    BY <1>1, White
  <1>6. Object(t, c) \in ObjectType /\ Refs(Object(t, c)) = {}
    <2>1. Object(t, c) \in ObjectType
      <3> DEFINE E == [key : Addr \cup {Scalar}, val : Addr \cup {Scalar}]
      <3>1. /\ t \in OTypes \cup {"string"} /\ 0 \in 0 .. 3 /\ {} \in SUBSET Addr /\ {} \in SUBSET E
            /\ "" \in Modes \cup {""} /\ c \in Contents \cup {Scalar}
        OBVIOUS
      <3> HIDE DEF E
      <3>2. Object(t, c) \in [otype : OTypes \cup {"string"}, color : 0 .. 3, refs : SUBSET Addr,
                             entries : SUBSET E, mode : Modes \cup {""}, content : Contents \cup {Scalar}]
        BY <3>1 DEF Object
      <3> QED
        BY <3>2 DEF ObjectType, E
    <2>2. Object(t, c).refs = {} /\ Object(t, c).entries = {}
      BY DEF Object
    <2> QED
      BY <2>1, <2>2 DEF Refs
  <1>7. /\ heap'[a] \in ObjectType /\ heap'[a].color = deadWhite
        /\ Refs(heap'[a]) = {}
        /\ heap'[a].refs = {} /\ heap'[a].entries = {} /\ heap'[a].mode = ""
    <2>1. SameButColour(Object(t, c), heap'[a]) /\ heap'[a].color = deadWhite
      BY <1>4, <1>5, <1>6, Recoloured, Zenon
    <2>2. Object(t, c).refs = {} /\ Object(t, c).entries = {} /\ Object(t, c).mode = ""
      BY DEF Object
    <2> QED
      BY <1>6, <2>1, <2>2, SameEdges DEF SameButColour
  <1>8. \A o \in Allocated : heap[o] \in ObjectType /\ heap[o].color = deadWhite
                            /\ Refs(heap[o]) \subseteq Allocated \cup {Scalar}
    BY <1>1 DEF HeapType, HeapClosed, Candidates
  <1>9. heap' \in [DOMAIN heap' -> ObjectType]
    BY <1>2, <1>3, <1>7, <1>8 DEF LinkSweep
  <1>10. DOMAIN heap' \subseteq Addr /\ roots' \subseteq DOMAIN heap'
    BY <1>1, <1>2 DEF HeapType, HeapClosed
  <1>11. \A o \in DOMAIN heap' : /\ heap'[o].color = deadWhite
                                /\ Refs(heap'[o]) \subseteq DOMAIN heap' \cup {Scalar}
    BY <1>2, <1>3, <1>7, <1>8
  <1>12. Bare'
    BY <1>2, <1>3, <1>7 DEF IInv, Bare, Allocated
  <1> QED
    BY <1>9, <1>10, <1>11, <1>12, ProgramStep

\* Storing into an object that the program holds.
LEMMA StoreStep ==
    ASSUME IInv, phase = "mutate", NEW o \in Allocated, NEW obj \in ObjectType, Update(o, obj),
           obj.color = heap[o].color, obj.otype # "userdata",
           Refs(obj) \subseteq Allocated \cup {Scalar}
    PROVE  IInv'
  <1>0. /\ heap' = [heap EXCEPT ![o] = obj]
        /\ roots' = roots /\ UNCHANGED <<collectorVars, finalizing>>
    BY DEF Update
  <1>1. HeapType /\ HeapClosed /\ Candidates
    BY DEF IInv, PhaseInv
  <1>2. DOMAIN heap' = Allocated /\ heap' \in [Allocated -> ObjectType]
    BY <1>0, <1>1 DEF HeapType, Allocated
  <1>3. \A p \in Allocated : heap'[p] = IF p = o THEN obj ELSE heap[p]
    BY <1>0, <1>1 DEF HeapType, Allocated
  <1>4. \A p \in Allocated : /\ heap'[p].color = deadWhite
                            /\ Refs(heap'[p]) \subseteq Allocated \cup {Scalar}
    BY <1>1, <1>3 DEF HeapClosed, Candidates
  <1>5. Allocated \subseteq Addr /\ roots' \subseteq Allocated
    BY <1>0, <1>1 DEF HeapType, HeapClosed
  <1>6. Bare'
    BY <1>2, <1>3 DEF IInv, Bare, Allocated
  <1> QED
    BY <1>0, <1>2, <1>4, <1>5, <1>6, ProgramStep

\* A step that only changes the roots.
LEMMA RootStep ==
    ASSUME IInv, phase = "mutate", UNCHANGED heap, UNCHANGED collectorVars, roots' \subseteq Allocated
    PROVE  IInv'
  <1>1. HeapType /\ HeapClosed /\ Candidates
    BY DEF IInv, PhaseInv
  <1>2. DOMAIN heap' = Allocated /\ heap' \in [Allocated -> ObjectType]
    BY <1>1 DEF HeapType, Allocated
  <1>3. \A p \in Allocated : /\ heap'[p].color = deadWhite
                            /\ Refs(heap'[p]) \subseteq Allocated \cup {Scalar}
    BY <1>1 DEF HeapClosed, Candidates
  <1>4. Allocated \subseteq Addr
    BY <1>1 DEF HeapType
  <1>5. Bare'
    BY DEF IInv, Bare, Allocated
  <1> QED
    BY <1>2, <1>3, <1>4, <1>5, ProgramStep

\* Every operation of the program keeps the invariant.
LEMMA MutateStep == ASSUME IInv, Quiet, Mutate PROVE IInv'
  <1>1. HeapType /\ HeapClosed
    BY DEF IInv
  <1>2. /\ \A o \in Allocated : heap[o] \in ObjectType /\ Refs(heap[o]) \subseteq Allocated \cup {Scalar}
        /\ roots \subseteq Allocated /\ Allocated \subseteq Addr
    BY <1>1 DEF HeapType, HeapClosed
  <1>3. CASE \E a \in Addr, t \in OTypes : Alloc(a, t)
    <2>1. PICK a \in Addr, t \in OTypes : Alloc(a, t)
      BY <1>3
    <2>2. /\ phase = "mutate" /\ a \notin Allocated /\ LinkSweep(a, Object(t, Scalar))
          /\ roots' = roots \cup {a} /\ UNCHANGED collectorVars
      BY <2>1 DEF Alloc, Running, Quiet
    <2> QED
      BY <2>2, NewObject
  <1>4. CASE \E c \in Contents : Intern(c)
    <2>1. PICK c \in Contents : Intern(c)
      BY <1>4
    <2>2. phase = "mutate" /\ UNCHANGED collectorVars
      BY <2>1 DEF Intern, Running, Quiet
    <2>3. CASE Interned(c) # {}
      <3>1. roots' \subseteq Allocated /\ UNCHANGED heap
        BY <1>2, <2>1, <2>3 DEF Intern, Interned, stringMatches, Strings
      <3> QED
        BY <2>2, <3>1, RootStep
    <2>4. CASE Interned(c) = {}
      <3>1. PICK a \in Addr \ Allocated : LinkSweep(a, Object("string", c)) /\ roots' = roots \cup {a}
        BY <2>1, <2>4 DEF Intern
      <3> QED
        BY <2>2, <3>1, NewObject
    <2> QED
      BY <2>3, <2>4
  <1>5. CASE \E o \in Allocated : Load(o) \/ Forget(o) \/ RegisterFinalizer(o)
    <2>1. PICK o \in Allocated : Load(o) \/ Forget(o) \/ RegisterFinalizer(o)
      BY <1>5
    <2>2. /\ phase = "mutate" /\ UNCHANGED heap /\ UNCHANGED collectorVars
          /\ roots' \subseteq Allocated
      BY <1>2, <2>1 DEF Load, Forget, RegisterFinalizer, Running, Quiet
    <2> QED
      BY <2>2, RootStep
  <1>6. CASE \E o \in roots, r \in roots \cup {Scalar} : SetRef(o, r)
    <2>1. PICK o \in roots, r \in roots \cup {Scalar} : SetRef(o, r)
      BY <1>6
    <2> DEFINE obj == [heap[o] EXCEPT !.refs = {r} \ {Scalar}]
    <2>2. phase = "mutate" /\ Update(o, obj) /\ heap[o].otype # "userdata"
      BY <2>1 DEF SetRef, HasRefs, Running, Quiet
    <2>3. o \in Allocated /\ {r} \ {Scalar} \subseteq Allocated
      BY <1>2
    <2>4. /\ obj \in ObjectType /\ obj.color = heap[o].color /\ obj.otype = heap[o].otype
          /\ obj.refs = {r} \ {Scalar} /\ obj.entries = heap[o].entries
      BY <1>2, <2>3 DEF ObjectType
    <2> HIDE DEF obj
    <2>5. Refs(obj) \subseteq Allocated \cup {Scalar}
      BY <1>2, <2>3, <2>4 DEF Refs
    <2> QED
      BY <2>2, <2>3, <2>4, <2>5, StoreStep
  <1>7. CASE \E o \in roots, mt \in roots \cup {Scalar}, m \in Modes : SetMeta(o, mt, m)
    <2>1. PICK o \in roots, mt \in roots \cup {Scalar}, m \in Modes : SetMeta(o, mt, m)
      BY <1>7
    <2>2. PICK n \in Modes \cup {""} : Update(o, [heap[o] EXCEPT !.refs = {mt} \ {Scalar}, !.mode = n])
      <3>1. CASE mt = Scalar
        <4>1. {mt} \ {Scalar} = {} /\ mt \notin roots
          BY <1>2, <3>1, ScalarAssumption
        <4> QED
          BY <2>1, <3>1, <4>1 DEF SetMeta
      <3>2. CASE mt # Scalar
        <4>1. {mt} \ {Scalar} = {mt}
          BY <3>2
        <4> QED
          BY <2>1, <3>2, <4>1 DEF SetMeta
      <3> QED
        BY <3>1, <3>2
    <2> DEFINE obj == [heap[o] EXCEPT !.refs = {mt} \ {Scalar}, !.mode = n]
    <2>3. /\ o \in Allocated /\ {mt} \ {Scalar} \subseteq Allocated /\ phase = "mutate"
          /\ heap[o].otype # "userdata"
      BY <1>2, <2>1, ZenonT(30) DEF SetMeta, Running, Quiet
    <2>4. /\ obj \in ObjectType /\ obj.color = heap[o].color /\ obj.otype = heap[o].otype
          /\ obj.refs = {mt} \ {Scalar} /\ obj.entries = heap[o].entries
      BY <1>2, <2>3 DEF ObjectType
    <2>5. Update(o, obj)
      BY <2>2
    <2> HIDE DEF obj
    <2>6. Refs(obj) \subseteq Allocated \cup {Scalar}
      BY <1>2, <2>3, <2>4 DEF Refs
    <2> QED
      BY <2>3, <2>4, <2>5, <2>6, StoreStep
  <1>8. CASE \E o \in roots, k, v \in roots \cup {Scalar} : RawSet(o, k, v) \/ RawSetNil(o, k)
    <2>1. PICK o \in roots, k \in roots \cup {Scalar}, v \in roots \cup {Scalar} :
             RawSet(o, k, v) \/ RawSetNil(o, k)
      BY <1>8
    <2> DEFINE kv == [key |-> k, val |-> v]
    <2>2. PICK E \in SUBSET (heap[o].entries \cup {kv}) :
             /\ phase = "mutate" /\ heap[o].otype = "table"
             /\ Update(o, [heap[o] EXCEPT !.entries = E])
      BY <2>1 DEF RawSet, RawSetNil, Keep, Running, Quiet
    <2>3. /\ o \in Allocated /\ k \in Allocated \cup {Scalar} /\ v \in Allocated \cup {Scalar}
          /\ kv \in [key : Allocated \cup {Scalar}, val : Allocated \cup {Scalar}]
          /\ kv.key = k /\ kv.val = v
      BY <1>2
    <2> HIDE DEF kv
    <2> DEFINE obj == [heap[o] EXCEPT !.entries = E]
    <2>4. E \subseteq [key : Addr \cup {Scalar}, val : Addr \cup {Scalar}]
      BY <1>2, <2>3 DEF ObjectType
    <2>5. /\ obj \in ObjectType /\ obj.color = heap[o].color /\ obj.otype = heap[o].otype
          /\ obj.refs = heap[o].refs /\ obj.entries = E
      <3>1. heap[o] \in ObjectType
        BY <1>2, <2>3
      <3> QED BY <3>1, <2>4 DEF ObjectType
    <2>6. Update(o, obj)
      BY <2>2
    <2> HIDE DEF obj
    <2>7. Refs(obj) \subseteq Allocated \cup {Scalar}
      BY <1>2, <2>3, <2>5 DEF Refs
    <2> QED
      BY <2>2, <2>3, <2>5, <2>6, <2>7, StoreStep
  <1> QED
    BY <1>3, <1>4, <1>5, <1>6, <1>7, <1>8, Zenon
       DEF Mutate

----------------------------------------------------------------------------
(* The theorems *)

\* The empty heap satisfies the invariant.
LEMMA InitInv == Init => IInv
  <1> SUFFICES ASSUME Init PROVE IInv
    OBVIOUS
  <1>1. Allocated = {} /\ currentWhite \in {0, 1} /\ NoWork /\ roots = {} /\ phase = "mutate"
    BY DEF Init, Allocated, NoWork
  <1>2. heap \in [Allocated -> ObjectType]
    BY <1>1 DEF Init, Allocated
  <1> QED
    BY <1>1, <1>2
       DEF Init, IInv, HeapType, Bare, HeapClosed, PhaseInv, Candidates, NoWork

\* Every step keeps the invariant.
LEMMA NextInv == ASSUME Quiet, FInv, IInv, [Next]_vars PROVE IInv'
  <1>1. CASE UNCHANGED vars
    <2>1. UNCHANGED <<heap, currentWhite, phase, gray, weakList, roots>> /\ UNCHANGED finalizing
      BY <1>1 DEF vars
    <2>2. Allocated' = Allocated /\ deadWhite' = deadWhite
      BY <2>1 DEF Allocated, deadWhite
    <2>3. Blacks' = Blacks /\ Marked' = Marked /\ Reachable' = Reachable
      BY <2>1, Unmoved
    <2>4. (TriColour => TriColour') /\ HeapType' /\ HeapClosed' /\ Bare'
      BY <2>1, Unmoved DEF IInv
    <2>5. (Candidates => Candidates') /\ (Cleared => Cleared') /\ (NoWork => NoWork')
      BY <2>1, <2>2, <2>3 DEF Candidates, Cleared, NoWork
    <2>6. PhaseInv'
      BY <2>1, <2>2, <2>3, <2>4, <2>5 DEF IInv, PhaseInv, AllScanned
    <2> QED
      BY <2>4, <2>6 DEF IInv
  <1>2. CASE Mutate
    BY <1>2, MutateStep
  <1>3. CASE markRoots
    BY <1>3, MarkRootsStep
  <1>4. CASE \E o \in gray : markAll(o)
    BY <1>4, MarkAllStep
  <1>5. CASE markDone
    BY <1>5, MarkDoneStep
  <1>6. CASE separateFinalizers
    BY <1>6, SeparateStep
  <1>7. CASE clearWeakTables
    BY <1>7, ClearStep
  <1>8. CASE sweep
    BY <1>8, SweepStep
  <1>9. CASE runFinalizer
    BY <1>9, RunStep
  <1>10. CASE endCollect
    BY <1>10, EndStep
  <1> QED
    BY <1>1, <1>2, <1>3, <1>4, <1>5, <1>6, <1>7, <1>8, <1>9, <1>10 DEF Next, Collect

\* The invariant always holds, as long as handlers leave the heap alone.
LEMMA SpecInv == ASSUME Quiet PROVE Spec => [](FInv /\ IInv)
  <1>1. Init => IInv
    BY InitInv
  <1>2. FInv /\ IInv /\ [Next]_vars => IInv'
    BY NextInv
  <1> QED
    BY <1>1, <1>2, FInvAlways, PTL DEF Spec

\* No freed object can be reached, by the program or by the collector, in any
\* state of any run: the mark, clear and sweep steps of Collect taken together.
THEOREM NothingDangles == ASSUME Quiet PROVE Spec => []NoDangling
  <1>1. FInv /\ IInv => NoDangling
    <2> SUFFICES ASSUME FInv, IInv PROVE NoDangling
      OBVIOUS
    <2>2. ToSet(finalizeList) \cup ToSet(toRunFinalizers) \subseteq Allocated
      BY DEF FInv, Waiting, Queued, Userdata
    <2> QED
      BY <2>2 DEF IInv, HeapClosed, NoDangling
  <1> QED
    BY <1>1, SpecInv, PTL

\* Marking finds exactly what is reachable, in whatever order it scans.
THEOREM MarkingIsExact == ASSUME Quiet PROVE Spec => []MarkIsExact
  <1>1. IInv => MarkIsExact
    BY DEF IInv, PhaseInv, MarkIsExact, Blacks
  <1> QED
    BY <1>1, SpecInv, PTL

\* Between collections no object has a colour that the next mark would skip.
THEOREM AlwaysCandidates == ASSUME Quiet PROVE Spec => []NewbornsAreCandidates
  <1>1. IInv => NewbornsAreCandidates
    BY DEF IInv, PhaseInv, Candidates, NewbornsAreCandidates
  <1> QED
    BY <1>1, SpecInv, PTL

\* A sweep frees nothing the program can still get at, weak references included.
THEOREM SweepsSpare == ASSUME Quiet PROVE Spec => SweepSpares
  <1>1. IInv /\ [Next]_vars => [phase = "sweep" => Accessible \subseteq DOMAIN heap']_vars
    <2> SUFFICES ASSUME IInv, [Next]_vars, phase = "sweep" PROVE Accessible \subseteq DOMAIN heap'
      OBVIOUS
    <2>1. Cleared
      BY DEF IInv, PhaseInv
    <2>2. Accessible \subseteq Blacks
      <3>1. Blacks \subseteq Allocated /\ roots \subseteq Blacks
        BY <2>1 DEF Blacks, Cleared
      <3>2. \A o \in Blacks : Refs(heap[o]) \ {Scalar} \subseteq Blacks
        BY <2>1 DEF Cleared
      <3> QED
        BY <3>1, <3>2 DEF Accessible, Following, Closed
    <2>3. CASE sweep
      BY <2>2, <2>3, SweepStep
    <2>4. CASE ~ sweep
      <3>1. DOMAIN heap' = Allocated
        BY <2>4 DEF Next, Collect, Mutate, vars, Allocated, Alloc, Intern, Load, Forget, RegisterFinalizer,
               SetRef, SetMeta, RawSet, RawSetNil, Running, markRoots, markAll, markDone, separateFinalizers,
               clearWeakTables, runFinalizer, endCollect
      <3> QED
        BY <3>1 DEF Accessible, Following
    <2> QED
      BY <2>3, <2>4
  <1> QED
    BY <1>1, SpecInv, PTL DEF Spec, SweepSpares
----------------------------------------------------------------------------
(* The string table, whatever __gc handlers do *)

\* Strings have contents, and are finitely many, as their number is counted.
StringInv ==
    /\ strMask \in Nat /\ IsFiniteSet(Strings)
    /\ \A s \in Strings : heap[s].content \in Contents
    /\ StringsInternedOnce

SameStrings ==
    /\ UNCHANGED strings
    /\ Strings' = Strings /\ \A s \in Strings : heap'[s].content = heap[s].content

\* A remainder is less than what was divided by.
LEMMA RemainderInRange ==
    ASSUME NEW h \in Nat, NEW m \in Nat
    PROVE  h % (m + 1) \in 0 .. m
  OBVIOUS

\* Every hash selects a bucket.
LEMMA BucketInRange ==
    ASSUME StringInv, NEW c \in Contents
    PROVE  Bucket(c) \in DOMAIN strBuckets /\ DOMAIN strBuckets = 0 .. strMask
<1>1. Hash[c] \in Nat /\ strMask \in Nat
  BY HashAssumption DEF StringInv
<1> QED BY <1>1, RemainderInRange DEF StringInv, StringsInternedOnce, Bucket

\* What leaves strings and table alone leaves the invariant.
LEMMA StringsStay == ASSUME StringInv, SameStrings PROVE StringInv'
<1>1. strMask' = strMask /\ strBuckets' = strBuckets /\ strCount' = strCount
  BY DEF SameStrings, strings
<1>2. /\ Strings' = Strings /\ \A s \in Strings : heap'[s].content = heap[s].content
      /\ \A c : Bucket(c)' = Bucket(c)
  BY <1>1 DEF SameStrings, Bucket
<1>3. \A s \in Strings : Bucket(heap[s].content)' = Bucket(heap[s].content)
  BY <1>1, <1>2 DEF Bucket
<1> QED BY <1>1, <1>2, <1>3 DEF StringInv, StringsInternedOnce

\* An object keeps its type and contents when anything else of it changes.
LEMMA TextKept ==
    ASSUME NEW obj \in ObjectType, NEW x, NEW y
    PROVE  /\ [obj EXCEPT !.color = x].otype = obj.otype /\ [obj EXCEPT !.color = x].content = obj.content
           /\ [obj EXCEPT !.refs = x].otype = obj.otype /\ [obj EXCEPT !.refs = x].content = obj.content
           /\ [obj EXCEPT !.entries = x].otype = obj.otype /\ [obj EXCEPT !.entries = x].content = obj.content
           /\ [obj EXCEPT !.refs = x, !.mode = y].otype = obj.otype
           /\ [obj EXCEPT !.refs = x, !.mode = y].content = obj.content
  BY DEF ObjectType

\* Strings stay when every object keeps its type and contents.
LEMMA AllKept ==
    ASSUME UNCHANGED strings, DOMAIN heap' = Allocated,
           \A o \in Allocated : heap'[o].otype = heap[o].otype /\ heap'[o].content = heap[o].content
    PROVE  SameStrings
  BY DEF SameStrings, Strings, Allocated

\* A store into an object leaves all strings.
LEMMA StoreKeepsStrings ==
    ASSUME UNCHANGED strings, heap \in [Allocated -> ObjectType], NEW o \in Allocated, NEW obj,
           heap' = [heap EXCEPT ![o] = obj], obj.otype = heap[o].otype, obj.content = heap[o].content
    PROVE  SameStrings
<1>1. DOMAIN heap' = Allocated
  BY DEF Allocated
<1>2. \A p \in Allocated : heap'[p].otype = heap[p].otype /\ heap'[p].content = heap[p].content
  BY DEF Allocated
<1> QED BY <1>1, <1>2, AllKept

\* Recolouring leaves all strings.
LEMMA PaintKeepsStrings ==
    ASSUME UNCHANGED strings, heap \in [Allocated -> ObjectType], NEW S, NEW c, heap' = Colored(S, c)
    PROVE  SameStrings
<1>1. DOMAIN heap' = Allocated
  BY DEF Colored
<1>2. \A p \in Allocated : heap'[p].otype = heap[p].otype /\ heap'[p].content = heap[p].content
  <2>1. TAKE p \in Allocated
  <2>2. heap[p] \in ObjectType /\ (heap'[p] = [heap[p] EXCEPT !.color = c] \/ heap'[p] = heap[p])
    BY DEF Colored
  <2> QED BY <2>2 DEF ObjectType
<1> QED BY <1>1, <1>2, AllKept

\* An object is made that is not a string.
LEMMA AllocKeepsStrings ==
    ASSUME TypeOK, NEW a \in Addr, NEW k \in OTypes, Alloc(a, k)
    PROVE  SameStrings
<1>1. /\ a \notin Allocated /\ DOMAIN heap' = Allocated \cup {a} /\ UNCHANGED strings
      /\ \A o \in Allocated : heap'[o] = heap[o]
  BY DEF Alloc, LinkSweep
<1>2. heap'[a].otype = k
  BY DEF Alloc, LinkSweep, Object
<1>3. k # "string"
  BY OTypesAssumption
<1> QED BY <1>1, <1>2, <1>3 DEF SameStrings, Strings, Allocated

----------------------------------------------------------------------------
(* A string that no bucket has *)

\* What a new string of contents c at address a is to the others.
LEMMA NewString ==
    ASSUME StringInv, NEW c \in Contents, NEW a \in Addr \ Allocated,
           Interned(c) = {}, LinkSweep(a, Object("string", c))
    PROVE  /\ Strings' = Strings \cup {a} /\ a \notin Strings
           /\ heap'[a].content = c /\ \A s \in Strings : heap'[s] = heap[s] /\ heap[s].content # c
           /\ IsFiniteSet(Strings') /\ Cardinality(Strings') = strCount + 1
<1>1. /\ DOMAIN heap' = Allocated \cup {a} /\ \A o \in Allocated : heap'[o] = heap[o]
      /\ heap'[a].otype = "string" /\ heap'[a].content = c
  BY DEF LinkSweep, Object
<1>2. Strings' = Strings \cup {a} /\ a \notin Strings
  BY <1>1 DEF Strings, Allocated
<1>3. \A s \in Strings : heap[s].content # c
  <2> SUFFICES ASSUME NEW s \in Strings, heap[s].content = c PROVE FALSE
    OBVIOUS
  <2>1. Bucket(c) \in 0 .. strMask
    BY BucketInRange
  <2>2. s \in strBuckets[Bucket(c)]
    BY <2>1 DEF StringInv, StringsInternedOnce
  <2> QED BY <2>2 DEF Interned, stringMatches
<1>4. IsFiniteSet(Strings) /\ Cardinality(Strings) = strCount
  BY DEF StringInv, StringsInternedOnce
<1>5. IsFiniteSet(Strings \cup {a}) /\ Cardinality(Strings \cup {a}) = Cardinality(Strings) + 1
  BY <1>2, <1>4, FS_AddElement
<1> QED BY <1>1, <1>2, <1>3, <1>4, <1>5 DEF Strings

\* The buckets with the new string in them.
LEMMA ListedWhere ==
    ASSUME StringInv, NEW c \in Contents, NEW a
    PROVE  /\ DOMAIN Listed(a, c) = 0 .. strMask
           /\ \A b \in 0 .. strMask :
                Listed(a, c)[b] = {s \in Strings : Bucket(heap[s].content) = b}
                                    \cup (IF b = Bucket(c) THEN {a} ELSE {})
<1>1. Bucket(c) \in DOMAIN strBuckets /\ DOMAIN strBuckets = 0 .. strMask
  BY BucketInRange
<1>2. \A b \in 0 .. strMask : strBuckets[b] = {s \in Strings : Bucket(heap[s].content) = b}
  BY DEF StringInv, StringsInternedOnce
<1>3. \A b \in 0 .. strMask :
        Listed(a, c)[b] = IF b = Bucket(c) THEN strBuckets[b] \cup {a} ELSE strBuckets[b]
  BY <1>1 DEF Listed
<1> QED BY <1>1, <1>2, <1>3 DEF Listed

\* A new string is put into its bucket, and the table grows when there are more
\* strings than buckets.
LEMMA InternKeepsStrings ==
    ASSUME StringInv, TypeOK, NEW c \in Contents, Intern(c)
    PROVE  StringInv'
<1>1. CASE Interned(c) # {}
  <2>1. UNCHANGED heap /\ UNCHANGED strings
    BY <1>1 DEF Intern
  <2>2. SameStrings
    BY <2>1 DEF SameStrings, Strings, Allocated
  <2> QED BY <2>2, StringsStay
<1>2. CASE Interned(c) = {}
  <2>1. PICK a \in Addr \ Allocated :
          /\ LinkSweep(a, Object("string", c)) /\ strCount' = strCount + 1
          /\ IF strCount + 1 > strMask + 1 THEN rehashStringTable(Listed(a, c))
             ELSE strBuckets' = Listed(a, c) /\ UNCHANGED strMask
    BY <1>2 DEF Intern
  <2>2. /\ Strings' = Strings \cup {a} /\ a \notin Strings /\ heap'[a].content = c
        /\ \A s \in Strings : heap'[s] = heap[s] /\ heap[s].content # c
        /\ IsFiniteSet(Strings') /\ Cardinality(Strings') = strCount'
    BY <1>2, <2>1, NewString
  <2>3. \A s \in Strings' : heap'[s].content \in Contents
    BY <2>2 DEF StringInv
  <2>4. \A s, t \in Strings' : heap'[s].content = heap'[t].content => s = t
    BY <2>2 DEF StringInv, StringsInternedOnce
  <2>5. strMask \in Nat /\ \A s \in Strings' : Hash[heap'[s].content] \in Nat
    BY <2>3, HashAssumption DEF StringInv
  <2>6. /\ DOMAIN Listed(a, c) = 0 .. strMask
        /\ \A b \in 0 .. strMask :
             Listed(a, c)[b] = {s \in Strings : Bucket(heap[s].content) = b}
                                 \cup (IF b = Bucket(c) THEN {a} ELSE {})
    BY ListedWhere
  <2>7. CASE strCount + 1 > strMask + 1
    <3> DEFINE newMask == strMask * 2 + 1
               listed == UNION {Listed(a, c)[b] : b \in DOMAIN Listed(a, c)}
    <3>1. /\ strMask' = newMask /\ newMask \in Nat
          /\ strBuckets' = [b \in 0 .. newMask |->
                              {s \in listed : Hash[heap'[s].content] % (newMask + 1) = b}]
      BY <2>1, <2>5, <2>7 DEF rehashStringTable
    <3>2. listed = Strings'
      <4>1. \A s \in Strings : Bucket(heap[s].content) \in 0 .. strMask
        BY BucketInRange DEF StringInv
      <4>2. Bucket(c) \in 0 .. strMask
        BY BucketInRange
      <4>3. \A x : x \in listed <=> \E b \in 0 .. strMask : x \in Listed(a, c)[b]
        BY <2>6
      <4>4. listed \subseteq Strings'
        BY <2>2, <2>6, <4>3
      <4>5. Strings' \subseteq listed
        BY <2>2, <2>6, <4>1, <4>2, <4>3
      <4> QED BY <4>4, <4>5
    <3> HIDE DEF listed, newMask
    <3>3. \A b \in 0 .. strMask' : strBuckets'[b] = {s \in Strings' : Bucket(heap[s].content)' = b}
      BY <3>1, <3>2 DEF Bucket
    <3>4. StringsInternedOnce'
      BY <2>2, <2>4, <3>1, <3>3 DEF StringsInternedOnce
    <3> QED BY <2>2, <2>3, <3>1, <3>4 DEF StringInv
  <2>8. CASE ~ (strCount + 1 > strMask + 1)
    <3>1. strMask' = strMask /\ strBuckets' = Listed(a, c)
      BY <2>1, <2>8
    <3>2. \A s \in Strings : Bucket(heap[s].content)' = Bucket(heap[s].content)
      BY <2>2, <3>1 DEF Bucket
    <3>3. Bucket(heap[a].content)' = Bucket(c)
      BY <2>2, <3>1 DEF Bucket
    <3>4. \A b \in 0 .. strMask' : strBuckets'[b] = {s \in Strings' : Bucket(heap[s].content)' = b}
      BY <2>2, <2>6, <3>1, <3>2, <3>3
    <3>5. StringsInternedOnce'
      BY <2>2, <2>4, <2>6, <3>1, <3>4 DEF StringsInternedOnce
    <3> QED BY <2>2, <2>3, <2>5, <3>1, <3>5 DEF StringInv
  <2> QED BY <2>7, <2>8
<1> QED BY <1>1, <1>2

----------------------------------------------------------------------------
(* Strings that are freed *)

\* A sweep takes the strings it frees out of the table, and no other.
LEMMA SweepKeepsStrings ==
    ASSUME StringInv, TypeOK, sweep
    PROVE  StringInv'
<1> DEFINE freed == {o \in Allocated : Dead(o)}
           gone == freed \cap Strings
           found == {s \in freed \cap Strings : s \in strBuckets[Bucket(heap[s].content)]}
<1>1. /\ heap' = [o \in Allocated \ freed |-> [heap[o] EXCEPT !.color = currentWhite]]
      /\ strBuckets' = [b \in DOMAIN strBuckets |->
                          strBuckets[b] \ {s \in found : Bucket(heap[s].content) = b}]
      /\ strCount' = strCount - Cardinality(found) /\ strMask' = strMask
  BY DEF sweep, removeFromStringTable
<1>2. found = gone
  BY BucketInRange DEF StringInv, StringsInternedOnce
<1>3. \A s \in Allocated \ freed : heap'[s].otype = heap[s].otype /\ heap'[s].content = heap[s].content
  <2>1. TAKE s \in Allocated \ freed
  <2>2. heap[s] \in ObjectType /\ heap'[s] = [heap[s] EXCEPT !.color = currentWhite]
    BY <1>1 DEF TypeOK
  <2> QED BY <2>2, TextKept
<1>4. DOMAIN heap' = Allocated \ freed
  BY <1>1
<1> HIDE DEF freed
<1>5. Strings' = Strings \ gone
  BY <1>3, <1>4 DEF Strings, Allocated
<1>6. \A s \in Strings' : s \in Strings /\ s \notin gone /\ heap'[s].content = heap[s].content
  BY <1>3, <1>5 DEF Strings
<1>7. IsFiniteSet(Strings') /\ Cardinality(Strings') = strCount'
  <2>1. IsFiniteSet(Strings) /\ Cardinality(Strings) = strCount
    BY DEF StringInv, StringsInternedOnce
  <2>2. Strings \cap gone = gone
    OBVIOUS
  <2> HIDE DEF gone, found
  <2>3. IsFiniteSet(Strings \ gone) /\ Cardinality(Strings \ gone) = Cardinality(Strings) - Cardinality(gone)
    BY <2>1, <2>2, FS_Difference
  <2> QED BY <1>1, <1>2, <1>5, <2>1, <2>3
<1>8. \A s \in Strings' : Bucket(heap[s].content)' = Bucket(heap[s].content)
  BY <1>1, <1>6 DEF Bucket
<1> HIDE DEF gone, found
<1>9. \A b \in 0 .. strMask' : strBuckets'[b] = {s \in Strings' : Bucket(heap[s].content)' = b}
  <2>1. DOMAIN strBuckets = 0 .. strMask
    BY DEF StringInv, StringsInternedOnce
  <2>2. TAKE b \in 0 .. strMask'
  <2>3. strBuckets[b] = {s \in Strings : Bucket(heap[s].content) = b}
    BY <1>1, <2>2 DEF StringInv, StringsInternedOnce
  <2>4. strBuckets'[b] = strBuckets[b] \ {s \in gone : Bucket(heap[s].content) = b}
    BY <1>1, <1>2, <2>1, <2>2
  <2>5. strBuckets'[b] = {s \in Strings \ gone : Bucket(heap[s].content) = b}
    BY <2>3, <2>4
  <2> QED BY <1>5, <1>8, <2>5
<1>10. StringsInternedOnce'
  <2>1. \A s, t \in Strings' : heap'[s].content = heap'[t].content => s = t
    BY <1>6 DEF StringInv, StringsInternedOnce
  <2>2. DOMAIN strBuckets' = 0 .. strMask'
    BY <1>1 DEF StringInv, StringsInternedOnce
  <2> QED BY <1>7, <1>9, <2>1, <2>2 DEF StringsInternedOnce
<1> QED BY <1>1, <1>6, <1>7, <1>10 DEF StringInv

----------------------------------------------------------------------------
(* All steps *)

\* The program: only what it interns concerns the table.
LEMMA ProgramKeepsStrings == ASSUME FInv, StringInv, Mutate PROVE StringInv'
<1>1. TypeOK /\ heap \in [Allocated -> ObjectType] /\ roots \subseteq Allocated
  BY DEF FInv, TypeOK, Between
<1>2. CASE \E a \in Addr, k \in OTypes : Alloc(a, k)
  BY <1>1, <1>2, AllocKeepsStrings, StringsStay
<1>3. CASE \E c \in Contents : Intern(c)
  BY <1>1, <1>3, InternKeepsStrings
<1>4. CASE \E o \in Allocated : Load(o) \/ Forget(o) \/ RegisterFinalizer(o)
  <2>1. UNCHANGED heap /\ UNCHANGED strings
    BY <1>4 DEF Load, Forget, RegisterFinalizer
  <2>2. SameStrings
    BY <2>1 DEF SameStrings, Strings, Allocated
  <2> QED BY <2>2, StringsStay
<1>5. CASE \E o \in roots, r \in roots \cup {Scalar} : SetRef(o, r)
  <2>1. PICK o \in roots, r \in roots \cup {Scalar} : SetRef(o, r)
    BY <1>5
  <2>2. heap' = [heap EXCEPT ![o] = [heap[o] EXCEPT !.refs = {r} \ {Scalar}]] /\ UNCHANGED strings
    BY <2>1 DEF SetRef, Update
  <2>3. o \in Allocated /\ heap[o] \in ObjectType
    BY <1>1
  <2> QED BY <1>1, <2>2, <2>3, TextKept, StoreKeepsStrings, StringsStay
<1>6. CASE \E o \in roots, mt \in roots \cup {Scalar}, m \in Modes : SetMeta(o, mt, m)
  <2>1. PICK o \in roots, mt \in roots \cup {Scalar}, m \in Modes : SetMeta(o, mt, m)
    BY <1>6
  <2>2. PICK R, n : heap' = [heap EXCEPT ![o] = [heap[o] EXCEPT !.refs = R, !.mode = n]] /\ UNCHANGED strings
    BY <2>1 DEF SetMeta, Update
  <2>3. o \in Allocated /\ heap[o] \in ObjectType
    BY <1>1
  <2> DEFINE obj == [heap[o] EXCEPT !.refs = R, !.mode = n]
  <2>4. obj.otype = heap[o].otype /\ obj.content = heap[o].content
    BY <2>3 DEF ObjectType
  <2> HIDE DEF obj
  <2>5. heap' = [heap EXCEPT ![o] = obj]
    BY <2>2 DEF obj
  <2>6. SameStrings
    BY <1>1, <2>2, <2>3, <2>4, <2>5, StoreKeepsStrings
  <2> QED BY <2>6, StringsStay
<1>7. CASE \E o \in roots, k, v \in roots \cup {Scalar} : RawSet(o, k, v) \/ RawSetNil(o, k)
  <2>1. PICK o \in roots, k \in roots \cup {Scalar}, v \in roots \cup {Scalar} :
           RawSet(o, k, v) \/ RawSetNil(o, k)
    BY <1>7
  <2>2. PICK E : heap' = [heap EXCEPT ![o] = [heap[o] EXCEPT !.entries = E]] /\ UNCHANGED strings
    BY <2>1 DEF RawSet, RawSetNil, Update
  <2>3. o \in Allocated /\ heap[o] \in ObjectType
    BY <1>1
  <2> QED BY <1>1, <2>2, <2>3, TextKept, StoreKeepsStrings, StringsStay
<1> QED BY <1>2, <1>3, <1>4, <1>5, <1>6, <1>7, Zenon DEF Mutate

\* The collector: only what it frees concerns the table.
LEMMA CollectKeepsStrings == ASSUME FInv, StringInv, Collect PROVE StringInv'
<1>1. TypeOK /\ heap \in [Allocated -> ObjectType]
  BY DEF FInv, TypeOK
<1>2. CASE markRoots
  <2>1. heap' = Colored(gray', Gray) /\ UNCHANGED strings
    BY <1>2 DEF markRoots
  <2> QED BY <1>1, <2>1, PaintKeepsStrings, StringsStay
<1>3. CASE \E o \in gray : markAll(o)
  <2>1. PICK o \in gray : markAll(o)
    BY <1>3
  <2>2. /\ DOMAIN heap' = Allocated /\ UNCHANGED strings
        /\ \A c \in Allocated : \/ heap'[c] = heap[c]
                                \/ heap'[c] = [heap[c] EXCEPT !.color = Black]
                                \/ heap'[c] = [heap[c] EXCEPT !.color = Gray]
    BY <2>1 DEF markAll
  <2>3. \A c \in Allocated : heap'[c].otype = heap[c].otype /\ heap'[c].content = heap[c].content
    <3>1. TAKE c \in Allocated
    <3>2. heap[c] \in ObjectType
      BY <1>1
    <3> QED BY <2>2, <3>2 DEF ObjectType
  <2> QED BY <2>2, <2>3, AllKept, StringsStay
<1>4. CASE markDone \/ runFinalizer \/ endCollect
  <2>1. UNCHANGED heap /\ UNCHANGED strings
    BY <1>4 DEF markDone, runFinalizer, endCollect
  <2>2. SameStrings
    BY <2>1 DEF SameStrings, Strings, Allocated
  <2> QED BY <2>2, StringsStay
<1>5. CASE separateFinalizers
  <2>1. UNCHANGED strings /\ (UNCHANGED heap \/ heap' = Colored(Resurrected, Black))
    BY <1>5 DEF separateFinalizers
  <2>2. CASE UNCHANGED heap
    <3>1. SameStrings
      BY <2>1, <2>2 DEF SameStrings, Strings, Allocated
    <3> QED BY <3>1, StringsStay
  <2> QED BY <1>1, <2>1, <2>2, PaintKeepsStrings, StringsStay
<1>6. CASE clearWeakTables
  <2>1. /\ DOMAIN heap' = Allocated /\ UNCHANGED strings
        /\ \A o \in Allocated : heap'[o] = heap[o] \/ \E E : heap'[o] = [heap[o] EXCEPT !.entries = E]
    BY <1>6 DEF clearWeakTables
  <2>2. \A o \in Allocated : heap'[o].otype = heap[o].otype /\ heap'[o].content = heap[o].content
    <3>1. TAKE o \in Allocated
    <3>2. heap[o] \in ObjectType
      BY <1>1
    <3> QED BY <2>1, <3>2 DEF ObjectType
  <2> QED BY <2>1, <2>2, AllKept, StringsStay
<1>7. CASE sweep
  BY <1>1, <1>7, SweepKeepsStrings
<1> QED BY <1>2, <1>3, <1>4, <1>5, <1>6, <1>7 DEF Collect

\* The empty table.
LEMMA InitStrings == Init => StringInv
<1> SUFFICES ASSUME Init PROVE StringInv
  OBVIOUS
<1>1. Strings = {}
  BY DEF Init, Strings, Allocated
<1>2. IsFiniteSet(Strings) /\ Cardinality(Strings) = 0
  BY <1>1, FS_EmptySet
<1>3. strMask \in Nat
  BY FirstBucketsAssumption DEF Init
<1>4. DOMAIN strBuckets = 0 .. strMask /\ \A b \in 0 .. strMask : strBuckets[b] = {}
  BY DEF Init
<1> QED BY <1>1, <1>2, <1>3, <1>4 DEF Init, StringInv, StringsInternedOnce

\* Through any number of collections and of doublings of the table, strings of the
\* same contents are one object, and the table lists the strings of the heap and
\* nothing else, so that Intern never hands out a freed one.
THEOREM EqualStringsAreOne == Spec => []StringsInternedOnce
<1>1. Init => StringInv
  BY InitStrings
<1>2. FInv /\ StringInv /\ [Next]_vars => StringInv'
  <2> SUFFICES ASSUME FInv, StringInv, [Next]_vars PROVE StringInv'
    OBVIOUS
  <2>1. CASE UNCHANGED vars
    <3>1. UNCHANGED heap /\ UNCHANGED strings
      BY <2>1 DEF vars
    <3>2. SameStrings
      BY <3>1 DEF SameStrings, Strings, Allocated
    <3> QED BY <3>2, StringsStay
  <2> QED BY <2>1, ProgramKeepsStrings, CollectKeepsStrings DEF Next
<1>3. StringInv => StringsInternedOnce
  BY DEF StringInv
<1> QED BY <1>1, <1>2, <1>3, FInvAlways, PTL DEF Spec
=============================================================================
