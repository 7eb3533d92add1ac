---------------------------- MODULE TableProofs ----------------------------
(***************************************************************************)
(* The layout of a table is sound after every operation (TableNodes), its  *)
(* loops visit each key once (Traversal), and a hit of an inline cache is  *)
(* right (InlineCache).                                                    *)
(*                                                                         *)
(* The argument rests on two numbers for each node: the chain it is on and *)
(* its height above the end of that chain.  Following `next` keeps the     *)
(* chain and goes down by one, and no two nodes share both numbers, so a   *)
(* chain neither forks nor closes on itself, and the node of a key is at   *)
(* or below its main position.                                             *)
(***************************************************************************)
EXTENDS Traversal, InlineCache, ChainLemmas, FiniteSetTheorems

Numbers(h) == 0 .. h - 1

\* mainPosition in a hash part of h nodes.
Home(k, h) == Hash[k] % h

Entries(h) == [key : Keys \cup {Nil}, val : Vals \cup {Nil}, next : -1 .. h - 1]

Tables(h) ==
    [array : Seq(Vals \cup {Nil}), node : [Numbers(h) -> Entries(h)],
     lastfree : 0 .. h, gen : 0 .. GenSize - 1]

\* What the free nodes, the keys and the values satisfy.
Arranged(t, h) ==
    /\ \A i \in Numbers(h) : t.node[i].next # -1 => t.node[i].next >= t.lastfree
    /\ \A i \in Numbers(h) : t.node[i].key = Nil <=> t.node[i].val = Nil
    /\ \A i, j \in Numbers(h) : t.node[i].key = t.node[j].key /\ t.node[i].key # Nil => i = j
    /\ \A i \in Numbers(h) : t.node[i].key # Nil => t.node[i].key \notin 1 .. asize(t)
    /\ \A i, j \in Numbers(h) :
         t.node[i].key # Nil /\ t.node[j].key # Nil /\ Home(t.node[j].key, h) = i
            => Home(t.node[i].key, h) = i
    /\ \A k \in 1 .. asize(t) : t.array[k] # Nil => k \in Keys

\* The chains, numbered by `own` and measured by `height`.
Chained(t, h, own, height) ==
    /\ own \in [Numbers(h) -> Nat] /\ height \in [Numbers(h) -> Nat]
    /\ \A i \in Numbers(h) :
         t.node[i].next # -1 =>
            own[t.node[i].next] = own[i] /\ height[i] = height[t.node[i].next] + 1
    /\ \A i, j \in Numbers(h) : own[i] = own[j] /\ height[i] = height[j] => i = j
    /\ \A i, j \in Numbers(h) : own[i] = own[j] /\ height[i] > height[j] => t.node[i].next # -1
    /\ \A i \in Numbers(h) :
         t.node[i].key # Nil =>
            /\ own[Home(t.node[i].key, h)] = own[i]
            /\ height[Home(t.node[i].key, h)] >= height[i]

Sound(t, h) ==
    /\ h \in Nat /\ t \in Tables(h)
    /\ Arranged(t, h)
    /\ \E own, height : Chained(t, h, own, height)

----------------------------------------------------------------------------
(* Sizes and positions *)

\* Nil is no key.
LEMMA NilIsNoKey == Nil \notin Keys /\ Nil \notin Vals /\ InvalidKey \notin Keys /\ InvalidKey # Nil
BY NilAssumption

\* A main position is a node (mainPosition).
LEMMA HomeIsNode ==
    ASSUME NEW h \in Nat, NEW k \in Keys, h > 0
    PROVE  Home(k, h) \in Numbers(h)
<1>1. Hash[k] \in Nat
  BY HashAssumption
<1> QED BY <1>1 DEF Home, Numbers

\* The sizes of a table with h nodes.
LEMMA SizesOf ==
    ASSUME NEW h \in Nat, NEW t \in Tables(h)
    PROVE  /\ hsize(t) = h /\ DOMAIN t.node = Numbers(h) /\ asize(t) \in Nat
           /\ \A k : mainPosition(t, k) = Home(k, h)
           /\ t.array \in Seq(Vals \cup {Nil}) /\ DOMAIN t.array = 1 .. asize(t)
<1>1. DOMAIN t.node = 0 .. h - 1
  BY DEF Tables, Numbers
<1>2. Cardinality(0 .. h - 1) = h
  <2>1. Cardinality(0 .. h - 1) = IF 0 > h - 1 THEN 0 ELSE (h - 1) - 0 + 1
    BY FS_Interval
  <2> QED BY <2>1
<1>3. t.array \in Seq(Vals \cup {Nil})
  BY DEF Tables
<1>4. asize(t) \in Nat /\ DOMAIN t.array = 1 .. asize(t)
  BY <1>3, LenProperties DEF asize
<1>5. hsize(t) = h
  BY <1>1, <1>2 DEF hsize
<1> QED BY <1>1, <1>3, <1>4, <1>5 DEF Numbers, mainPosition, Home

\* Numbers that only go down on and on do not exist.
LEMMA NoDescent ==
    ASSUME NEW N, NEW height \in [N -> Nat], NEW bad \in SUBSET N,
           \A x \in bad : \E y \in bad : height[y] < height[x]
    PROVE  bad = {}
<1> SUFFICES ASSUME bad # {} PROVE FALSE
  OBVIOUS
<1> DEFINE hs == {height[x] : x \in bad}
<1>1. hs \in SUBSET Nat /\ hs # {}
  OBVIOUS
<1>2. PICK n \in hs : \A m \in hs : n <= m
  <2> HIDE DEF hs
  <2> QED BY <1>1, Least
<1>3. PICK x \in bad : n = height[x]
  BY <1>2
<1>4. PICK y \in bad : height[y] < height[x]
  OBVIOUS
<1>5. height[y] \in hs /\ height[y] \in Nat /\ height[x] \in Nat
  OBVIOUS
<1>6. n <= height[y]
  <2> HIDE DEF hs
  <2> QED BY <1>2, <1>5
<1>7. height[x] <= height[y]
  BY <1>3, <1>6, Zenon
<1> HIDE DEF hs
<1> QED BY <1>4, <1>5, <1>7

\* Links that lead down, and a walk that follows them until it stops.
Descends(N, nx, height) ==
    /\ height \in [N -> Nat] /\ -1 \notin N
    /\ \A i \in N : nx[i] = -1 \/ (nx[i] \in N /\ height[nx[i]] < height[i])
Walks(f, N, nx, stop) ==
    f = [i \in N \cup {-1} |-> IF i = -1 THEN -1 ELSE IF stop[i] THEN i ELSE f[nx[i]]]

\* Two walks down the chains with the same rule are the same walk.
LEMMA SameWalk ==
    ASSUME NEW N, NEW nx, NEW height, NEW stop, Descends(N, nx, height),
           NEW f, NEW w, Walks(f, N, nx, stop), Walks(w, N, nx, stop)
    PROVE  f = w
<1> USE DEF Descends, Walks
<1> DEFINE bad == {i \in N : f[i] # w[i]}
<1>0. f[-1] = -1 /\ w[-1] = -1
  OBVIOUS
<1>1. ASSUME NEW x \in bad PROVE \E y \in bad : height[y] < height[x]
  <2>1. x \in N /\ x # -1 /\ f[x] # w[x]
    OBVIOUS
  <2>2. f[x] = IF stop[x] THEN x ELSE f[nx[x]]
    BY <2>1
  <2>3. w[x] = IF stop[x] THEN x ELSE w[nx[x]]
    BY <2>1
  <2>4. f[nx[x]] # w[nx[x]]
    BY <2>1, <2>2, <2>3
  <2>5. nx[x] \in N /\ height[nx[x]] < height[x]
    BY <2>1, <2>4, <1>0
  <2> QED BY <2>4, <2>5
<1>2. bad \in SUBSET N
  OBVIOUS
<1>3. bad = {}
  <2> HIDE DEF bad
  <2> QED BY <1>1, <1>2, NoDescent
<1>4. \A i \in N \cup {-1} : f[i] = w[i]
  BY <1>3, <1>0
<1>5. f = [i \in N \cup {-1} |-> f[i]] /\ w = [i \in N \cup {-1} |-> w[i]]
  OBVIOUS
<1> QED BY <1>4, <1>5

\* Where a chain leads, for a walk that stops nowhere or somewhere on it.
LEMMA ChainSteps ==
    ASSUME NEW h, NEW t, NEW own, NEW height, h \in Nat, t \in Tables(h), Chained(t, h, own, height)
    PROVE  /\ height \in [Numbers(h) -> Nat] /\ -1 \notin Numbers(h)
           /\ \A i \in Numbers(h) :
                t.node[i].next = -1 \/
                   /\ t.node[i].next \in Numbers(h)
                   /\ own[t.node[i].next] = own[i]
                   /\ height[i] = height[t.node[i].next] + 1
                   /\ height[t.node[i].next] < height[i]
<1>1. \A i \in Numbers(h) : t.node[i].next \in -1 .. h - 1
  BY DEF Tables, Entries
<1>2. \A i \in Numbers(h) : t.node[i].next = -1 \/ t.node[i].next \in Numbers(h)
  BY <1>1 DEF Numbers
<1>3. height \in [Numbers(h) -> Nat] /\ -1 \notin Numbers(h)
  BY DEF Chained, Numbers
<1>4. ASSUME NEW i \in Numbers(h), t.node[i].next # -1
      PROVE  /\ own[t.node[i].next] = own[i]
             /\ height[i] = height[t.node[i].next] + 1
  BY <1>4 DEF Chained
<1>5. ASSUME NEW i \in Numbers(h), t.node[i].next # -1
      PROVE  height[t.node[i].next] < height[i]
  <2>1. t.node[i].next \in Numbers(h)
    BY <1>2, <1>5
  <2>2. height[t.node[i].next] \in Nat /\ height[i] = height[t.node[i].next] + 1
    BY <1>3, <1>4, <1>5, <2>1
  <2> QED BY <2>2
<1> QED BY <1>2, <1>3, <1>4, <1>5

\* Any walk that follows the rule of Find is Find (rawGet).
LEMMA FindIsWalk ==
    ASSUME NEW h \in Nat, NEW t, NEW own, NEW height, NEW k, NEW w,
           t \in Tables(h), Chained(t, h, own, height), h > 0,
           w = [i \in Numbers(h) \cup {-1} |->
                   IF i = -1 THEN -1 ELSE IF t.node[i].key = k THEN i ELSE w[t.node[i].next]]
    PROVE  Find(t, k) = w[Home(k, h)]
<1> DEFINE nx == [i \in Numbers(h) |-> t.node[i].next]
           stop == [i \in Numbers(h) |-> t.node[i].key = k]
<1>1. /\ hsize(t) = h /\ DOMAIN t.node = Numbers(h) /\ mainPosition(t, k) = Home(k, h)
  BY SizesOf
<1>2. Descends(Numbers(h), nx, height)
  <2>1. /\ height \in [Numbers(h) -> Nat] /\ -1 \notin Numbers(h)
        /\ \A i \in Numbers(h) : nx[i] = -1 \/ (nx[i] \in Numbers(h) /\ height[nx[i]] < height[i])
    BY ChainSteps
  <2> QED BY <2>1 DEF Descends
<1>3. ASSUME NEW f,
             f = [i \in Numbers(h) \cup {-1} |->
                     IF i = -1 THEN -1 ELSE IF t.node[i].key = k THEN i ELSE f[t.node[i].next]]
      PROVE  Walks(f, Numbers(h), nx, stop)
  <2>1. ASSUME NEW i \in Numbers(h) \cup {-1}
        PROVE (IF i = -1 THEN -1 ELSE IF t.node[i].key = k THEN i ELSE f[t.node[i].next])
               = (IF i = -1 THEN -1 ELSE IF stop[i] THEN i ELSE f[nx[i]])
    OBVIOUS
  <2> HIDE DEF nx, stop
  <2> QED BY <1>3, <2>1 DEF Walks
<1>4. ASSUME NEW f,
             f = [i \in Numbers(h) \cup {-1} |->
                     IF i = -1 THEN -1 ELSE IF t.node[i].key = k THEN i ELSE f[t.node[i].next]]
      PROVE  f = w
  <2>1. Walks(f, Numbers(h), nx, stop)
    BY <1>3, <1>4
  <2>2. Walks(w, Numbers(h), nx, stop)
    BY <1>3
  <2> HIDE DEF nx, stop
  <2> QED BY <1>2, <2>1, <2>2, SameWalk
<1> DEFINE walk == CHOOSE f : f = [i \in Numbers(h) \cup {-1} |->
                     IF i = -1 THEN -1 ELSE IF t.node[i].key = k THEN i ELSE f[t.node[i].next]]
<1>5. walk = [i \in Numbers(h) \cup {-1} |->
                     IF i = -1 THEN -1 ELSE IF t.node[i].key = k THEN i ELSE walk[t.node[i].next]]
  OBVIOUS
<1>6. walk = w
  <2> HIDE DEF walk
  <2> QED BY <1>4, <1>5
<1>7. Find(t, k) = walk[Home(k, h)]
  BY <1>1 DEF Find
<1> QED BY <1>6, <1>7

\* A key is found at its node, and a key without a node is not found (rawGet).
LEMMA Found ==
    ASSUME NEW h, NEW t, Sound(t, h), NEW k \in Keys
    PROVE  /\ \A g \in Numbers(h) : t.node[g].key = k => Find(t, k) = g
           /\ (\A g \in Numbers(h) : t.node[g].key # k) => Find(t, k) = -1
<1>1. h \in Nat /\ t \in Tables(h) /\ Arranged(t, h)
  BY DEF Sound
<1>2. PICK own, height : Chained(t, h, own, height)
  BY DEF Sound
<1>3. /\ height \in [Numbers(h) -> Nat] /\ -1 \notin Numbers(h)
      /\ \A i \in Numbers(h) :
           t.node[i].next = -1 \/
              /\ t.node[i].next \in Numbers(h)
              /\ own[t.node[i].next] = own[i]
              /\ height[i] = height[t.node[i].next] + 1
              /\ height[t.node[i].next] < height[i]
  BY <1>1, <1>2, ChainSteps
<1>4. ASSUME NEW g \in Numbers(h), t.node[g].key = k PROVE Find(t, k) = g
  <2> DEFINE w == [i \in Numbers(h) \cup {-1} |->
                     IF i # -1 /\ own[i] = own[g] /\ height[i] >= height[g] THEN g ELSE -1]
  <2>1. /\ \A i, j \in Numbers(h) : own[i] = own[j] /\ height[i] = height[j] => i = j
        /\ \A i, j \in Numbers(h) : own[i] = own[j] /\ height[i] > height[j] => t.node[i].next # -1
    BY <1>2 DEF Chained
  <2>2. \A i \in Numbers(h) : t.node[i].key = k => i = g
    BY <1>1, <1>4, NilIsNoKey DEF Arranged
  <2>3. ASSUME NEW i \in Numbers(h)
        PROVE  w[i] = IF t.node[i].key = k THEN i ELSE w[t.node[i].next]
    <3>1. i # -1 /\ height[i] \in Nat /\ height[g] \in Nat
      BY <1>3
    <3>2. CASE t.node[i].key = k
      BY <2>2, <3>1, <3>2
    <3>3. CASE t.node[i].key # k
      <4>1. i # g
        BY <1>4, <3>3
      <4>2. CASE t.node[i].next = -1
        <5>1. ~ (own[i] = own[g] /\ height[i] >= height[g])
          BY <2>1, <3>1, <4>1, <4>2
        <5> QED BY <5>1, <4>2, <3>3
      <4>3. CASE t.node[i].next # -1
        <5>1. /\ t.node[i].next \in Numbers(h)
              /\ own[t.node[i].next] = own[i]
              /\ height[i] = height[t.node[i].next] + 1
          BY <1>3, <4>3
        <5>2. height[t.node[i].next] \in Nat
          BY <1>3, <5>1
        <5>3. own[i] = own[g] => height[i] # height[g]
          BY <2>1, <4>1
        <5>4. own[i] = own[g] =>
                 (height[i] >= height[g] <=> height[t.node[i].next] >= height[g])
          BY <5>1, <5>2, <5>3, <3>1
        <5>5. w[t.node[i].next] =
                 IF own[t.node[i].next] = own[g] /\ height[t.node[i].next] >= height[g] THEN g ELSE -1
          BY <5>1, <4>3
        <5>6. w[i] = IF own[i] = own[g] /\ height[i] >= height[g] THEN g ELSE -1
          BY <3>1
        <5> HIDE DEF w
        <5> QED BY <5>1, <5>4, <5>5, <5>6, <3>3
      <4> QED BY <4>2, <4>3
    <3> QED BY <3>2, <3>3
  <2>4. w[-1] = -1
    OBVIOUS
  <2>5. w = [i \in Numbers(h) \cup {-1} |-> w[i]]
    OBVIOUS
  <2>6. \A i \in Numbers(h) \cup {-1} :
           w[i] = IF i = -1 THEN -1 ELSE IF t.node[i].key = k THEN i ELSE w[t.node[i].next]
    <3> HIDE DEF w
    <3> QED BY <2>3, <2>4, <1>3
  <2>7. h > 0
    BY <1>1 DEF Numbers
  <2>8. Home(k, h) \in Numbers(h)
    BY <1>1, <2>7, HomeIsNode
  <2>9. own[Home(k, h)] = own[g] /\ height[Home(k, h)] >= height[g]
    BY <1>2, <1>4, NilIsNoKey DEF Chained
  <2>10. w[Home(k, h)] = g
    BY <2>8, <2>9, <1>3
  <2>11. Find(t, k) = w[Home(k, h)]
    <3>1. w = [i \in Numbers(h) \cup {-1} |->
                   IF i = -1 THEN -1 ELSE IF t.node[i].key = k THEN i ELSE w[t.node[i].next]]
      <4> HIDE DEF w
      <4> QED BY <2>5, <2>6
    <3> HIDE DEF w
    <3> QED BY <3>1, <1>1, <1>2, <2>7, FindIsWalk
  <2> QED BY <2>10, <2>11
<1>5. ASSUME \A g \in Numbers(h) : t.node[g].key # k PROVE Find(t, k) = -1
  <2>1. CASE h = 0
    BY <1>1, <2>1, SizesOf DEF Find
  <2>2. CASE h > 0
    <3> DEFINE w == [i \in Numbers(h) \cup {-1} |-> -1]
    <3>1. \A i \in Numbers(h) \cup {-1} :
             w[i] = IF i = -1 THEN -1 ELSE IF t.node[i].key = k THEN i ELSE w[t.node[i].next]
      BY <1>3, <1>5
    <3>2. w = [i \in Numbers(h) \cup {-1} |->
                   IF i = -1 THEN -1 ELSE IF t.node[i].key = k THEN i ELSE w[t.node[i].next]]
      BY <3>1
    <3>3. Home(k, h) \in Numbers(h)
      BY <1>1, <2>2, HomeIsNode
    <3>4. w[Home(k, h)] = -1
      BY <3>3
    <3> HIDE DEF w
    <3> QED BY <3>2, <3>4, <1>1, <1>2, <2>2, FindIsWalk
  <2> QED BY <1>1, <2>1, <2>2
<1> QED BY <1>4, <1>5
\* Any walk that follows the rule of Predecessor is Predecessor
\* (insertNewKey).
LEMMA PredecessorIsWalk ==
    ASSUME NEW h \in Nat, NEW t, NEW own, NEW height, NEW from, NEW target, NEW w,
           t \in Tables(h), Chained(t, h, own, height),
           w = [i \in Numbers(h) \cup {-1} |->
                   IF i = -1 THEN -1 ELSE IF t.node[i].next = target THEN i ELSE w[t.node[i].next]]
    PROVE  Predecessor(t, from, target) = w[from]
<1> DEFINE nx == [i \in Numbers(h) |-> t.node[i].next]
           stop == [i \in Numbers(h) |-> t.node[i].next = target]
<1>1. /\ hsize(t) = h /\ DOMAIN t.node = Numbers(h)
  BY SizesOf
<1>2. Descends(Numbers(h), nx, height)
  <2>1. /\ height \in [Numbers(h) -> Nat] /\ -1 \notin Numbers(h)
        /\ \A i \in Numbers(h) : nx[i] = -1 \/ (nx[i] \in Numbers(h) /\ height[nx[i]] < height[i])
    BY ChainSteps
  <2> QED BY <2>1 DEF Descends
<1>3. ASSUME NEW f,
             f = [i \in Numbers(h) \cup {-1} |->
                     IF i = -1 THEN -1 ELSE IF t.node[i].next = target THEN i ELSE f[t.node[i].next]]
      PROVE  Walks(f, Numbers(h), nx, stop)
  <2>1. ASSUME NEW i \in Numbers(h) \cup {-1}
        PROVE (IF i = -1 THEN -1 ELSE IF t.node[i].next = target THEN i ELSE f[t.node[i].next])
               = (IF i = -1 THEN -1 ELSE IF stop[i] THEN i ELSE f[nx[i]])
    OBVIOUS
  <2> HIDE DEF nx, stop
  <2> QED BY <1>3, <2>1 DEF Walks
<1>4. ASSUME NEW f,
             f = [i \in Numbers(h) \cup {-1} |->
                     IF i = -1 THEN -1 ELSE IF t.node[i].next = target THEN i ELSE f[t.node[i].next]]
      PROVE  f = w
  <2>1. Walks(f, Numbers(h), nx, stop)
    BY <1>3, <1>4
  <2>2. Walks(w, Numbers(h), nx, stop)
    BY <1>3
  <2> HIDE DEF nx, stop
  <2> QED BY <1>2, <2>1, <2>2, SameWalk
<1> DEFINE walk == CHOOSE f : f = [i \in Numbers(h) \cup {-1} |->
                     IF i = -1 THEN -1 ELSE IF t.node[i].next = target THEN i ELSE f[t.node[i].next]]
<1>5. walk = [i \in Numbers(h) \cup {-1} |->
                     IF i = -1 THEN -1 ELSE IF t.node[i].next = target THEN i ELSE walk[t.node[i].next]]
  OBVIOUS
<1>6. walk = w
  <2> HIDE DEF walk
  <2> QED BY <1>4, <1>5
<1>7. Predecessor(t, from, target) = walk[from]
  BY <1>1 DEF Predecessor
<1> QED BY <1>6, <1>7

\* A node below another of its chain has a node before it.
LEMMA HasPredecessor ==
    ASSUME NEW h \in Nat, NEW t, NEW own, NEW height, t \in Tables(h), Chained(t, h, own, height),
           NEW from \in Numbers(h), NEW m \in Numbers(h),
           own[from] = own[m], height[from] > height[m]
    PROVE  \E p \in Numbers(h) : t.node[p].next = m
<1> SUFFICES ASSUME \A p \in Numbers(h) : t.node[p].next # m PROVE FALSE
  OBVIOUS
<1> DEFINE bad == {i \in Numbers(h) : own[i] = own[m] /\ height[i] > height[m]}
<1>1. /\ height \in [Numbers(h) -> Nat] /\ -1 \notin Numbers(h)
      /\ \A i \in Numbers(h) :
           t.node[i].next = -1 \/
              /\ t.node[i].next \in Numbers(h)
              /\ own[t.node[i].next] = own[i]
              /\ height[i] = height[t.node[i].next] + 1
              /\ height[t.node[i].next] < height[i]
  BY ChainSteps
<1>2. /\ \A i, j \in Numbers(h) : own[i] = own[j] /\ height[i] = height[j] => i = j
      /\ \A i, j \in Numbers(h) : own[i] = own[j] /\ height[i] > height[j] => t.node[i].next # -1
  BY DEF Chained
<1>3. ASSUME NEW x \in bad PROVE \E y \in bad : height[y] < height[x]
  <2>1. x \in Numbers(h) /\ own[x] = own[m] /\ height[x] > height[m]
    OBVIOUS
  <2> DEFINE y == t.node[x].next
  <2>2. y \in Numbers(h) /\ own[y] = own[x] /\ height[x] = height[y] + 1 /\ height[y] < height[x]
    BY <1>1, <1>2, <2>1
  <2>3. height[y] # height[m]
    BY <1>2, <2>1, <2>2
  <2>4. height[y] \in Nat /\ height[m] \in Nat /\ height[x] \in Nat
    BY <1>1, <2>1, <2>2
  <2>5. height[y] > height[m]
    BY <2>1, <2>2, <2>3, <2>4
  <2> QED BY <2>1, <2>2, <2>5
<1>4. bad \in SUBSET Numbers(h)
  OBVIOUS
<1>5. from \in bad
  OBVIOUS
<1>6. bad = {}
  <2> HIDE DEF bad
  <2> QED BY <1>1, <1>3, <1>4, NoDescent
<1> QED BY <1>5, <1>6

\* The walk from a main position to the node before m ends there (insertNewKey).
LEMMA Preceded ==
    ASSUME NEW h \in Nat, NEW t, NEW own, NEW height, t \in Tables(h), Chained(t, h, own, height),
           NEW from \in Numbers(h), NEW m \in Numbers(h),
           own[from] = own[m], height[from] > height[m]
    PROVE  LET p == Predecessor(t, from, m) IN p \in Numbers(h) /\ t.node[p].next = m
<1>1. /\ height \in [Numbers(h) -> Nat] /\ -1 \notin Numbers(h)
      /\ \A i \in Numbers(h) :
           t.node[i].next = -1 \/
              /\ t.node[i].next \in Numbers(h)
              /\ own[t.node[i].next] = own[i]
              /\ height[i] = height[t.node[i].next] + 1
              /\ height[t.node[i].next] < height[i]
  BY ChainSteps
<1>2. /\ \A i, j \in Numbers(h) : own[i] = own[j] /\ height[i] = height[j] => i = j
      /\ \A i, j \in Numbers(h) : own[i] = own[j] /\ height[i] > height[j] => t.node[i].next # -1
  BY DEF Chained
<1>3. PICK p \in Numbers(h) : t.node[p].next = m
  BY HasPredecessor
<1>4. own[p] = own[m] /\ height[p] = height[m] + 1 /\ m # -1
  BY <1>1, <1>3
<1> DEFINE w == [i \in Numbers(h) \cup {-1} |->
                   IF i # -1 /\ own[i] = own[m] /\ height[i] > height[m] THEN p ELSE -1]
<1>5. ASSUME NEW i \in Numbers(h)
      PROVE  w[i] = IF t.node[i].next = m THEN i ELSE w[t.node[i].next]
  <2>1. i # -1 /\ height[i] \in Nat /\ height[m] \in Nat
    BY <1>1
  <2>2. w[i] = IF own[i] = own[m] /\ height[i] > height[m] THEN p ELSE -1
    BY <2>1
  <2>3. CASE t.node[i].next = m
    <3>1. own[i] = own[m] /\ height[i] = height[m] + 1
      BY <1>1, <1>4, <2>3
    <3>2. i = p
      BY <1>2, <1>4, <3>1
    <3>3. height[i] > height[m]
      BY <2>1, <3>1
    <3> HIDE DEF w
    <3> QED BY <2>2, <2>3, <3>1, <3>2, <3>3
  <2>4. CASE t.node[i].next = -1
    <3>1. ~ (own[i] = own[m] /\ height[i] > height[m])
      BY <1>2, <2>4
    <3>2. w[-1] = -1
      OBVIOUS
    <3> HIDE DEF w
    <3> QED BY <2>2, <2>4, <3>1, <3>2, <1>4
  <2>5. CASE t.node[i].next # -1 /\ t.node[i].next # m
    <3> DEFINE y == t.node[i].next
    <3>1. y \in Numbers(h) /\ own[y] = own[i] /\ height[i] = height[y] + 1 /\ y # -1
      BY <1>1, <2>5
    <3>2. w[y] = IF own[y] = own[m] /\ height[y] > height[m] THEN p ELSE -1
      BY <3>1
    <3>3. own[y] = own[m] => height[y] # height[m]
      BY <1>2, <2>5, <3>1
    <3>4. height[y] \in Nat
      BY <1>1, <3>1
    <3>5. own[i] = own[m] => (height[i] > height[m] <=> height[y] > height[m])
      BY <2>1, <3>1, <3>3, <3>4
    <3> HIDE DEF w, y
    <3>6. w[i] = w[y]
      BY <2>2, <3>1, <3>2, <3>5
    <3> QED BY <3>6, <2>5 DEF y
  <2> QED BY <2>3, <2>4, <2>5
<1>6. w[-1] = -1 /\ w = [i \in Numbers(h) \cup {-1} |-> w[i]]
  OBVIOUS
<1>7. w[from] = p
  BY <1>1
<1>8. w = [i \in Numbers(h) \cup {-1} |->
                   IF i = -1 THEN -1 ELSE IF t.node[i].next = m THEN i ELSE w[t.node[i].next]]
  <2> HIDE DEF w
  <2>1. \A i \in Numbers(h) \cup {-1} :
           w[i] = IF i = -1 THEN -1 ELSE IF t.node[i].next = m THEN i ELSE w[t.node[i].next]
    BY <1>1, <1>5, <1>6
  <2> QED BY <1>6, <2>1
<1>9. Predecessor(t, from, m) = w[from]
  <2> HIDE DEF w
  <2> QED BY <1>8, PredecessorIsWalk
<1> QED BY <1>3, <1>7, <1>9

----------------------------------------------------------------------------
(* Reading *)

\* What a key reads: its slot of the array part, or its node, or nothing
\* (rawGet).
LEMMA Reads ==
    ASSUME NEW h, NEW t, Sound(t, h), NEW k \in Keys
    PROVE  /\ k \in 1 .. asize(t) => rawGet(t, k) = t.array[k]
           /\ \A i \in Numbers(h) : t.node[i].key = k => rawGet(t, k) = t.node[i].val
           /\ k \notin 1 .. asize(t) /\ (\A i \in Numbers(h) : t.node[i].key # k)
                 => rawGet(t, k) = Nil
           /\ rawGet(t, k) \in Vals \cup {Nil}
<1>1. h \in Nat /\ t \in Tables(h) /\ Arranged(t, h)
  BY DEF Sound
<1>2. /\ asize(t) \in Nat /\ t.array \in Seq(Vals \cup {Nil}) /\ DOMAIN t.array = 1 .. asize(t)
      /\ DOMAIN t.node = Numbers(h)
  BY <1>1, SizesOf
<1>3. CASE k \in 1 .. asize(t)
  <2>1. rawGet(t, k) = t.array[k]
    BY <1>3 DEF rawGet, arrayIndex
  <2>2. t.array[k] \in Vals \cup {Nil}
    BY <1>2, <1>3, ElementOfSeq DEF asize
  <2>3. \A i \in Numbers(h) : t.node[i].key # k
    BY <1>1, <1>3, NilIsNoKey DEF Arranged
  <2> QED BY <1>3, <2>1, <2>2, <2>3
<1>4. CASE k \notin 1 .. asize(t)
  <2>1. rawGet(t, k) = IF Find(t, k) = -1 THEN Nil ELSE t.node[Find(t, k)].val
    BY <1>4 DEF rawGet, arrayIndex
  <2>2. ASSUME NEW i \in Numbers(h), t.node[i].key = k
        PROVE rawGet(t, k) = t.node[i].val /\ t.node[i].val \in Vals \cup {Nil}
    <3>1. Find(t, k) = i /\ i # -1
      BY <2>2, Found DEF Numbers
    <3>2. t.node[i] \in Entries(h)
      BY <1>1 DEF Tables
    <3> QED BY <2>1, <3>1, <3>2 DEF Entries
  <2>3. (\A i \in Numbers(h) : t.node[i].key # k) => rawGet(t, k) = Nil
    BY <2>1, Found
  <2> QED BY <1>4, <2>2, <2>3
<1> QED BY <1>3, <1>4

\* The operation on key k, and on no other: what every key reads afterwards.
Becomes(t, u, k, v) == \A q \in Keys : rawGet(u, q) = IF q = k THEN v ELSE rawGet(t, q)

----------------------------------------------------------------------------
(* The ways to change a table.  Each lemma compares two tables of h nodes. *)

\* Values may change, keys may go and the array part may grow, as long as the
\* links stay: storing in place, deleting, clearing, preallocating.
SameLinks(t, u, h) ==
    /\ u \in Tables(h) /\ u.lastfree = t.lastfree
    /\ \A i \in Numbers(h) :
         /\ u.node[i].next = t.node[i].next
         /\ u.node[i].key \in {t.node[i].key, Nil}
         /\ u.node[i].key = Nil <=> u.node[i].val = Nil
         /\ u.node[i].key # Nil => u.node[i].key \notin 1 .. asize(u)
    /\ \A k \in 1 .. asize(u) : u.array[k] # Nil => k \in Keys

\* They keep the layout sound.
LEMMA SameLinksSound ==
    ASSUME NEW h, NEW t, NEW u, Sound(t, h), SameLinks(t, u, h)
    PROVE  Sound(u, h)
<1>1. Arranged(u, h)
  BY DEF Sound, SameLinks, Arranged
<1>2. PICK own, height : Chained(t, h, own, height)
  BY DEF Sound
<1>3. Chained(u, h, own, height)
  BY <1>2 DEF Chained, SameLinks
<1> QED BY <1>1, <1>3 DEF Sound, SameLinks

\* A new key for which there is no node yet.
NewKey(t, h, k, v) ==
    /\ h > 0 /\ k \in Keys /\ v \in Vals /\ k \notin 1 .. asize(t)
    /\ \A i \in Numbers(h) : t.node[i].key # k

\* Its main position is empty.
PutHere(t, u, h, k, v) ==
    LET m == Home(k, h)
    IN  /\ u \in Tables(h) /\ u.lastfree = t.lastfree /\ u.array = t.array
        /\ Empty(t.node[m])
        /\ u.node[m] = Node(k, v, -1)
        /\ \A i \in Numbers(h) \ {m} : u.node[i] = t.node[i]

\* The first branch of insertNewKey keeps the layout sound.
LEMMA PutHereSound ==
    ASSUME NEW h, NEW t, NEW u, NEW k, NEW v, Sound(t, h), NewKey(t, h, k, v), PutHere(t, u, h, k, v)
    PROVE  Sound(u, h)
<1> DEFINE m == Home(k, h)
<1>1. h \in Nat /\ t \in Tables(h) /\ Arranged(t, h) /\ h > 0 /\ k \in Keys /\ v \in Vals
      /\ u \in Tables(h)
  BY DEF Sound, NewKey, PutHere
<1>2. m \in Numbers(h)
  BY <1>1, HomeIsNode
<1>3. /\ u.node[m].key = k /\ u.node[m].val = v /\ u.node[m].next = -1
      /\ t.node[m].key = Nil /\ t.node[m].val = Nil
      /\ \A i \in Numbers(h) \ {m} : u.node[i] = t.node[i]
      /\ u.lastfree = t.lastfree /\ u.array = t.array /\ asize(u) = asize(t)
  BY DEF PutHere, Node, Empty, asize
<1>4. t.node[m].next = -1
  <2>1. t.node[m].next \in -1 .. h - 1 /\ t.node[m].next < 0
    BY <1>1, <1>2 DEF PutHere, Empty, Tables, Entries
  <2> QED BY <2>1, <1>1
<1>5. \A i \in Numbers(h) : t.node[i].key # k
  BY DEF NewKey
<1>6. k \notin 1 .. asize(t) /\ k # Nil /\ v # Nil
  BY <1>1, NilIsNoKey DEF NewKey
<1> HIDE DEF m
<1>7. Arranged(u, h)
  <2>1. \A i, j \in Numbers(h) :
          u.node[i].key # Nil /\ u.node[j].key # Nil /\ Home(u.node[j].key, h) = i
            => Home(u.node[i].key, h) = i
    <3> SUFFICES ASSUME NEW i \in Numbers(h), NEW j \in Numbers(h),
                        u.node[i].key # Nil, u.node[j].key # Nil, Home(u.node[j].key, h) = i
                 PROVE  Home(u.node[i].key, h) = i
      OBVIOUS
    <3>1. CASE i = m
      BY <1>3, <3>1 DEF m
    <3>2. CASE i # m
      <4>1. j # m
        BY <1>3, <3>2 DEF m
      <4> QED BY <1>1, <1>3, <3>2, <4>1 DEF Arranged
    <3> QED BY <3>1, <3>2
  <2>2. \A i \in Numbers(h) : u.node[i].next # -1 => u.node[i].next >= u.lastfree
    BY <1>1, <1>2, <1>3 DEF Arranged
  <2>3. \A i \in Numbers(h) : u.node[i].key = Nil <=> u.node[i].val = Nil
    BY <1>1, <1>2, <1>3, <1>6 DEF Arranged
  <2>4. \A i, j \in Numbers(h) : u.node[i].key = u.node[j].key /\ u.node[i].key # Nil => i = j
    BY <1>1, <1>2, <1>3, <1>5 DEF Arranged
  <2>5. \A i \in Numbers(h) : u.node[i].key # Nil => u.node[i].key \notin 1 .. asize(u)
    BY <1>1, <1>2, <1>3, <1>6 DEF Arranged
  <2>6. \A n \in 1 .. asize(u) : u.array[n] # Nil => n \in Keys
    BY <1>1, <1>3 DEF Arranged
  <2> QED BY <2>1, <2>2, <2>3, <2>4, <2>5, <2>6 DEF Arranged
<1>8. PICK own, height : Chained(t, h, own, height)
  BY DEF Sound
<1>9. \A i \in Numbers(h) : u.node[i].next = t.node[i].next
  BY <1>3, <1>4
<1>10. \A i \in Numbers(h) :
         u.node[i].key # Nil =>
            /\ own[Home(u.node[i].key, h)] = own[i]
            /\ height[Home(u.node[i].key, h)] >= height[i]
  <2>1. \A i \in Numbers(h) \ {m} :
          t.node[i].key # Nil =>
            /\ own[Home(t.node[i].key, h)] = own[i]
            /\ height[Home(t.node[i].key, h)] >= height[i]
    BY <1>8 DEF Chained
  <2>2. height[m] \in Nat
    BY <1>2, <1>8 DEF Chained
  <2> QED BY <1>2, <1>3, <2>1, <2>2 DEF m
<1>11. Chained(u, h, own, height)
  BY <1>8, <1>9, <1>10 DEF Chained
<1> QED BY <1>1, <1>7, <1>11 DEF Sound

\* No chain leads to a free node, and no key belongs there.
Alone(t, h, own, free) ==
    /\ t.node[free].next = -1 /\ t.node[free].key = Nil
    /\ \A i \in Numbers(h) : t.node[i].next # free
    /\ \A i \in Numbers(h) \ {free} : own[i] # own[free]
    /\ \A i \in Numbers(h) : t.node[i].key # Nil => Home(t.node[i].key, h) # free

\* A node that findFreeNode may return is on no chain but its own.
LEMMA FreeAlone ==
    ASSUME NEW h \in Nat, NEW t, NEW own, NEW height, NEW free \in Numbers(h),
           t \in Tables(h), Arranged(t, h), Chained(t, h, own, height),
           free < t.lastfree, Empty(t.node[free])
    PROVE  Alone(t, h, own, free)
<1>1. t.node[free].next = -1 /\ t.node[free].key = Nil /\ free # -1 /\ t.lastfree \in Nat
  <2>1. t.node[free].next \in -1 .. h - 1 /\ t.node[free].next < 0 /\ t.lastfree \in 0 .. h
    BY DEF Tables, Entries, Empty
  <2> QED BY <2>1 DEF Empty, Numbers
<1>2. ASSUME NEW i \in Numbers(h) PROVE t.node[i].next # free
  BY <1>1 DEF Arranged, Numbers
<1>3. ASSUME NEW i \in Numbers(h) \ {free} PROVE own[i] # own[free]
  <2> SUFFICES ASSUME own[i] = own[free] PROVE FALSE
    OBVIOUS
  <2>1. height[i] \in Nat /\ height[free] \in Nat /\ height[i] # height[free]
    BY DEF Chained
  <2>2. ~ height[free] > height[i]
    BY <1>1 DEF Chained
  <2>3. ~ height[i] > height[free]
    BY <1>2, HasPredecessor
  <2> QED BY <2>1, <2>2, <2>3
<1>4. ASSUME NEW i \in Numbers(h), t.node[i].key # Nil PROVE Home(t.node[i].key, h) # free
  <2>1. own[Home(t.node[i].key, h)] = own[i]
    BY <1>4 DEF Chained
  <2>2. i # free
    BY <1>1, <1>4
  <2> QED BY <1>3, <2>1, <2>2
<1> QED BY <1>1, <1>2, <1>3, <1>4 DEF Alone

\* The main position is taken by a key that belongs there, or by a node left
\* behind by a deletion: the new key goes to a free node behind it.
PutBehind(t, u, h, k, v, free) ==
    LET m == Home(k, h)
    IN  /\ free \in Numbers(h) /\ free < t.lastfree /\ Empty(t.node[free])
        /\ ~ Empty(t.node[m])
        /\ t.node[m].key # Nil => Home(t.node[m].key, h) = m
        /\ u \in Tables(h) /\ u.lastfree = free /\ u.array = t.array
        /\ u.node[free] = Node(k, v, t.node[m].next)
        /\ u.node[m] = Node(t.node[m].key, t.node[m].val, free)
        /\ \A i \in Numbers(h) \ {m, free} : u.node[i] = t.node[i]

\* The chain is one node longer above the free node.
LEMMA PutBehindChained ==
    ASSUME NEW h, NEW t, NEW u, NEW k, NEW v, NEW free, Sound(t, h), NewKey(t, h, k, v),
           PutBehind(t, u, h, k, v, free)
    PROVE  \E own, height : Chained(u, h, own, height)
<1> DEFINE m == Home(k, h)
<1>1. h \in Nat /\ t \in Tables(h) /\ Arranged(t, h) /\ h > 0 /\ k \in Keys /\ u \in Tables(h)
      /\ free \in Numbers(h) /\ free < t.lastfree /\ Empty(t.node[free])
  BY DEF Sound, NewKey, PutBehind
<1>2. m \in Numbers(h)
  BY <1>1, HomeIsNode
<1>3. /\ free # m
      /\ u.node[free].key = k /\ u.node[free].next = t.node[m].next
      /\ u.node[m].key = t.node[m].key /\ u.node[m].next = free
      /\ \A i \in Numbers(h) \ {m, free} : u.node[i] = t.node[i]
  BY DEF PutBehind, Node
<1>4. PICK own, height : Chained(t, h, own, height)
  BY DEF Sound
<1>5. /\ t.node[free].next = -1 /\ t.node[free].key = Nil
      /\ \A i \in Numbers(h) : t.node[i].next # free
      /\ \A i \in Numbers(h) \ {free} : own[i] # own[free]
      /\ \A i \in Numbers(h) : t.node[i].key # Nil => Home(t.node[i].key, h) # free
  <2>1. Alone(t, h, own, free)
    BY <1>1, <1>4, FreeAlone
  <2> QED BY <2>1 DEF Alone
<1>6. /\ \A i \in Numbers(h) :
           t.node[i].next = -1 \/
              /\ t.node[i].next \in Numbers(h)
              /\ own[t.node[i].next] = own[i]
              /\ height[i] = height[t.node[i].next] + 1
              /\ height[t.node[i].next] < height[i]
  BY <1>1, <1>4, ChainSteps
<1>7. /\ \A i \in Numbers(h) : own[i] \in Nat /\ height[i] \in Nat
      /\ \A i, j \in Numbers(h) : own[i] = own[j] /\ height[i] = height[j] => i = j
      /\ \A i, j \in Numbers(h) : own[i] = own[j] /\ height[i] > height[j] => t.node[i].next # -1
      /\ \A i \in Numbers(h) :
           t.node[i].key # Nil =>
              /\ own[Home(t.node[i].key, h)] = own[i]
              /\ height[Home(t.node[i].key, h)] >= height[i]
      /\ -1 \notin Numbers(h)
  BY <1>4 DEF Chained, Numbers
<1> DEFINE above(i) == own[i] = own[m] /\ height[i] >= height[m]
           own2 == [i \in Numbers(h) |-> IF i = free THEN own[m] ELSE own[i]]
           height2 == [i \in Numbers(h) |->
                         IF i = free THEN height[m] ELSE IF above(i) THEN height[i] + 1 ELSE height[i]]
<1>8. own2 \in [Numbers(h) -> Nat] /\ height2 \in [Numbers(h) -> Nat]
  BY <1>2, <1>7
<1>9. /\ own2[free] = own[m] /\ height2[free] = height[m]
      /\ own2[m] = own[m] /\ height2[m] = height[m] + 1
      /\ \A i \in Numbers(h) \ {free} :
           /\ own2[i] = own[i]
           /\ height2[i] = IF own[i] = own[m] /\ height[i] >= height[m] THEN height[i] + 1 ELSE height[i]
  BY <1>1, <1>2, <1>3, <1>7
<1> HIDE DEF own2, height2, m
<1>10. ASSUME NEW i \in Numbers(h), u.node[i].next # -1
       PROVE  own2[u.node[i].next] = own2[i] /\ height2[i] = height2[u.node[i].next] + 1
  <2>1. CASE i = m
    BY <1>3, <1>9, <2>1
  <2>2. CASE i = free
    <3> DEFINE y == t.node[m].next
    <3>1. u.node[i].next = y /\ y # -1
      BY <1>3, <1>10, <2>2
    <3>2. y \in Numbers(h) /\ y # free /\ own[y] = own[m] /\ height[m] = height[y] + 1
      BY <1>2, <1>5, <1>6, <3>1
    <3>3. own2[y] = own[m] /\ height2[y] = height[y]
      BY <1>2, <1>7, <1>9, <3>2
    <3> QED BY <1>9, <2>2, <3>1, <3>2, <3>3
  <2>3. CASE i # m /\ i # free
    <3> DEFINE y == t.node[i].next
    <3>1. u.node[i].next = y /\ y # -1
      BY <1>3, <1>10, <2>3
    <3>2. y \in Numbers(h) /\ y # free /\ own[y] = own[i] /\ height[i] = height[y] + 1
      BY <1>5, <1>6, <3>1
    <3>3. own[i] = own[m] => height[i] # height[m]
      BY <1>2, <1>7, <2>3
    <3>4. own2[y] = own2[i]
      BY <1>9, <2>3, <3>2
    <3>5. own[i] = own[m] => (height[i] >= height[m] <=> height[y] >= height[m])
      BY <1>2, <1>7, <3>2, <3>3
    <3>6. height2[i] = height2[y] + 1
      <4>1. height2[i] = IF own[i] = own[m] /\ height[i] >= height[m] THEN height[i] + 1 ELSE height[i]
        BY <1>9, <2>3
      <4>2. height2[y] = IF own[y] = own[m] /\ height[y] >= height[m] THEN height[y] + 1 ELSE height[y]
        BY <1>9, <3>2
      <4> QED BY <4>1, <4>2, <3>2, <3>5, <1>7
    <3> QED BY <3>1, <3>4, <3>6
  <2> QED BY <2>1, <2>2, <2>3
<1>11. ASSUME NEW i \in Numbers(h) \ {free}
       PROVE  /\ own2[i] = own2[free] /\ height2[i] > height[m] => own[i] = own[m] /\ height[i] >= height[m]
              /\ own2[i] = own2[free] /\ height2[i] < height[m] => own[i] = own[m] /\ height[i] < height[m]
              /\ own2[i] = own2[free] => height2[i] # height2[free]
  BY <1>2, <1>7, <1>9
<1>12. ASSUME NEW i \in Numbers(h) \ {free}, NEW j \in Numbers(h) \ {free}, own2[i] = own2[j]
       PROVE  own[i] = own[j] /\ (height2[i] = height2[j] => height[i] = height[j])
              /\ (height2[i] > height2[j] => height[i] > height[j])
              /\ (height[i] >= height[j] => height2[i] >= height2[j])
  <2>1. own[i] = own[j] /\ height[i] \in Nat /\ height[j] \in Nat /\ height[m] \in Nat
    BY <1>2, <1>7, <1>9, <1>12
  <2>2. height2[i] = IF own[i] = own[m] /\ height[i] >= height[m] THEN height[i] + 1 ELSE height[i]
    BY <1>9
  <2>3. height2[j] = IF own[j] = own[m] /\ height[j] >= height[m] THEN height[j] + 1 ELSE height[j]
    BY <1>9
  <2>4. CASE own[i] = own[m]
    BY <2>1, <2>2, <2>3, <2>4
  <2>5. CASE own[i] # own[m]
    BY <2>1, <2>2, <2>3, <2>5
  <2> QED BY <2>4, <2>5
<1>13. ASSUME NEW i \in Numbers(h), NEW j \in Numbers(h), own2[i] = own2[j], height2[i] = height2[j]
       PROVE  i = j
  BY <1>7, <1>11, <1>12, <1>13
<1>14. ASSUME NEW i \in Numbers(h), NEW j \in Numbers(h), own2[i] = own2[j], height2[i] > height2[j]
       PROVE  u.node[i].next # -1
  <2>1. CASE i = m
    BY <1>1, <1>3, <1>7, <2>1
  <2>2. CASE i = free
    <3>1. j # free
      BY <1>7, <1>9, <1>2, <1>14, <2>2
    <3>2. own[j] = own[m] /\ height[j] < height[m]
      BY <1>9, <1>11, <1>14, <2>2, <3>1
    <3>3. t.node[m].next # -1
      BY <1>2, <1>7, <3>2
    <3> QED BY <1>3, <2>2, <3>3
  <2>3. CASE i # m /\ i # free
    <3>1. u.node[i] = t.node[i]
      BY <1>3, <2>3
    <3>2. CASE j = free
      <4>1. own[i] = own[m] /\ height[i] >= height[m]
        BY <1>9, <1>11, <1>14, <2>3, <3>2
      <4>2. height[i] > height[m]
        BY <1>2, <1>7, <2>3, <4>1
      <4> QED BY <1>2, <1>7, <3>1, <4>1, <4>2
    <3>3. CASE j # free
      BY <1>7, <1>12, <1>14, <2>3, <3>1, <3>3
    <3> QED BY <3>2, <3>3
  <2> QED BY <2>1, <2>2, <2>3
<1>15. ASSUME NEW i \in Numbers(h), u.node[i].key # Nil
       PROVE  /\ own2[Home(u.node[i].key, h)] = own2[i]
              /\ height2[Home(u.node[i].key, h)] >= height2[i]
  <2>1. CASE i = free
    BY <1>2, <1>3, <1>7, <1>9, <2>1 DEF m
  <2>2. CASE i # free
    <3> DEFINE g == Home(t.node[i].key, h)
    <3>1. u.node[i].key = t.node[i].key
      BY <1>3, <2>2
    <3>2. t.node[i].key \in Keys
      BY <1>1, <1>15, <3>1 DEF Tables, Entries
    <3>3. g \in Numbers(h) /\ g # free /\ own[g] = own[i] /\ height[g] >= height[i]
      BY <1>1, <1>5, <1>7, <1>15, <3>1, <3>2, HomeIsNode
    <3>4. own2[g] = own2[i]
      BY <1>9, <2>2, <3>3
    <3>5. height2[g] >= height2[i]
      BY <1>12, <2>2, <3>3, <3>4
    <3> QED BY <3>1, <3>4, <3>5
  <2> QED BY <2>1, <2>2
<1>16. Chained(u, h, own2, height2)
  BY <1>8, <1>10, <1>13, <1>14, <1>15 DEF Chained
<1> QED BY <1>16

\* The third branch of insertNewKey keeps the layout sound.
LEMMA PutBehindSound ==
    ASSUME NEW h, NEW t, NEW u, NEW k, NEW v, NEW free, Sound(t, h), NewKey(t, h, k, v),
           PutBehind(t, u, h, k, v, free)
    PROVE  Sound(u, h)
<1> DEFINE m == Home(k, h)
<1>1. h \in Nat /\ t \in Tables(h) /\ Arranged(t, h) /\ h > 0 /\ k \in Keys /\ v \in Vals /\ u \in Tables(h)
      /\ free \in Numbers(h) /\ free < t.lastfree /\ Empty(t.node[free])
  BY DEF Sound, NewKey, PutBehind
<1>2. m \in Numbers(h)
  BY <1>1, HomeIsNode
<1>3. /\ free # m
      /\ u.node[free].key = k /\ u.node[free].val = v /\ u.node[free].next = t.node[m].next
      /\ u.node[m].key = t.node[m].key /\ u.node[m].val = t.node[m].val /\ u.node[m].next = free
      /\ t.node[m].key # Nil => Home(t.node[m].key, h) = m
      /\ \A i \in Numbers(h) \ {m, free} : u.node[i] = t.node[i]
      /\ u.lastfree = free /\ u.array = t.array /\ asize(u) = asize(t)
  BY DEF PutBehind, Node, asize
<1>4. \A i \in Numbers(h) : t.node[i].key # k
  BY DEF NewKey
<1>5. k \notin 1 .. asize(t) /\ k # Nil /\ v # Nil
  BY <1>1, NilIsNoKey DEF NewKey
<1>6. \A i \in Numbers(h) : t.node[i].key # Nil => Home(t.node[i].key, h) # free
  <2>1. PICK own, height : Chained(t, h, own, height)
    BY DEF Sound
  <2>2. Alone(t, h, own, free)
    BY <1>1, <2>1, FreeAlone
  <2> QED BY <2>2 DEF Alone
<1>7. t.lastfree \in Nat /\ \A i \in Numbers(h) : t.node[i].next \in Int
  BY <1>1 DEF Tables, Entries
<1>8. free \in Nat
  BY <1>1 DEF Numbers
<1>9. \A i \in Numbers(h) \ {free} : u.node[i].key = t.node[i].key /\ u.node[i].val = t.node[i].val
  BY <1>3
<1> HIDE DEF m
<1>10. \A i, j \in Numbers(h) :
          u.node[i].key # Nil /\ u.node[j].key # Nil /\ Home(u.node[j].key, h) = i
            => Home(u.node[i].key, h) = i
  <2> SUFFICES ASSUME NEW i \in Numbers(h), NEW j \in Numbers(h),
                      u.node[i].key # Nil, u.node[j].key # Nil, Home(u.node[j].key, h) = i
               PROVE  Home(u.node[i].key, h) = i
    OBVIOUS
  <2>1. CASE j = free
    BY <1>2, <1>3, <2>1 DEF m
  <2>2. CASE j # free
    <3>1. i # free
      BY <1>6, <1>9, <2>2
    <3> QED BY <1>1, <1>9, <2>2, <3>1 DEF Arranged
  <2> QED BY <2>1, <2>2
<1>11. \A i \in Numbers(h) : u.node[i].next # -1 => u.node[i].next >= u.lastfree
  <2>1. \A i \in Numbers(h) : t.node[i].next # -1 => t.node[i].next >= t.lastfree
    BY <1>1 DEF Arranged
  <2> QED BY <1>1, <1>2, <1>3, <1>7, <1>8, <2>1
<1>12. \A i \in Numbers(h) : u.node[i].key = Nil <=> u.node[i].val = Nil
  BY <1>1, <1>3, <1>9, <1>5 DEF Arranged
<1>13. \A i, j \in Numbers(h) : u.node[i].key = u.node[j].key /\ u.node[i].key # Nil => i = j
  BY <1>1, <1>3, <1>9, <1>4 DEF Arranged
<1>14. \A i \in Numbers(h) : u.node[i].key # Nil => u.node[i].key \notin 1 .. asize(u)
  BY <1>1, <1>3, <1>9, <1>5 DEF Arranged
<1>15. \A n \in 1 .. asize(u) : u.array[n] # Nil => n \in Keys
  BY <1>1, <1>3 DEF Arranged
<1>16. Arranged(u, h)
  BY <1>10, <1>11, <1>12, <1>13, <1>14, <1>15 DEF Arranged
<1> QED BY <1>1, <1>16, PutBehindChained DEF Sound

\* The main position is taken by a key that belongs elsewhere: that key moves to
\* a free node, and the node before it is linked to its new place.
PutMoved(t, u, h, k, v, free, p) ==
    LET m == Home(k, h)
    IN  /\ free \in Numbers(h) /\ free < t.lastfree /\ Empty(t.node[free])
        /\ t.node[m].key # Nil /\ Home(t.node[m].key, h) # m
        /\ p \in Numbers(h) /\ t.node[p].next = m
        /\ u \in Tables(h) /\ u.lastfree = free /\ u.array = t.array
        /\ u.node[free] = t.node[m]
        /\ u.node[p] = Node(t.node[p].key, t.node[p].val, free)
        /\ u.node[m] = Node(k, v, -1)
        /\ \A i \in Numbers(h) \ {m, free, p} : u.node[i] = t.node[i]

\* The free node takes the place of the occupant on its chain.
LEMMA PutMovedChained ==
    ASSUME NEW h, NEW t, NEW u, NEW k, NEW v, NEW free, NEW p, Sound(t, h), NewKey(t, h, k, v),
           PutMoved(t, u, h, k, v, free, p)
    PROVE  /\ \E own, height : Chained(u, h, own, height)
           /\ p # free /\ p # Home(k, h) /\ free # Home(k, h)
           /\ \A i \in Numbers(h) : t.node[i].key # Nil => Home(t.node[i].key, h) \notin {free, Home(k, h)}
<1> DEFINE m == Home(k, h)
<1>1. h \in Nat /\ t \in Tables(h) /\ Arranged(t, h) /\ h > 0 /\ k \in Keys /\ u \in Tables(h)
      /\ free \in Numbers(h) /\ free < t.lastfree /\ Empty(t.node[free])
      /\ p \in Numbers(h)
  BY DEF Sound, NewKey, PutMoved
<1>2. m \in Numbers(h) /\ m # -1 /\ free # -1
  BY <1>1, HomeIsNode DEF Numbers
<1>3. PICK own, height : Chained(t, h, own, height)
  BY DEF Sound
<1>4. Alone(t, h, own, free)
  BY <1>1, <1>3, FreeAlone
<1>5. /\ t.node[free].next = -1 /\ t.node[free].key = Nil
      /\ \A i \in Numbers(h) : t.node[i].next # free
      /\ \A i \in Numbers(h) \ {free} : own[i] # own[free]
      /\ \A i \in Numbers(h) : t.node[i].key # Nil => Home(t.node[i].key, h) # free
  BY <1>4 DEF Alone
<1>6. /\ \A i \in Numbers(h) :
           t.node[i].next = -1 \/
              /\ t.node[i].next \in Numbers(h)
              /\ own[t.node[i].next] = own[i]
              /\ height[i] = height[t.node[i].next] + 1
              /\ height[t.node[i].next] < height[i]
  BY <1>1, <1>3, ChainSteps
<1>7. /\ \A i \in Numbers(h) : own[i] \in Nat /\ height[i] \in Nat
      /\ \A i, j \in Numbers(h) : own[i] = own[j] /\ height[i] = height[j] => i = j
      /\ \A i, j \in Numbers(h) : own[i] = own[j] /\ height[i] > height[j] => t.node[i].next # -1
      /\ \A i \in Numbers(h) :
           t.node[i].key # Nil =>
              /\ own[Home(t.node[i].key, h)] = own[i]
              /\ height[Home(t.node[i].key, h)] >= height[i]
      /\ -1 \notin Numbers(h)
  BY <1>3 DEF Chained, Numbers
<1>8. t.node[p].next = m /\ t.node[m].key # Nil /\ Home(t.node[m].key, h) # m
  BY DEF PutMoved
<1>9. own[p] = own[m] /\ height[p] = height[m] + 1 /\ p # m /\ p # free /\ free # m
  <2>1. own[p] = own[m] /\ height[p] = height[m] + 1 /\ height[m] < height[p]
    BY <1>1, <1>2, <1>6, <1>8
  <2>2. p # m
    BY <1>2, <1>7, <2>1
  <2> QED BY <2>1, <2>2, <1>2, <1>5, <1>8
<1>10. /\ u.node[free] = t.node[m]
       /\ u.node[p].key = t.node[p].key /\ u.node[p].next = free
       /\ u.node[m].key = k /\ u.node[m].next = -1
       /\ \A i \in Numbers(h) \ {m, free, p} : u.node[i] = t.node[i]
  BY DEF PutMoved, Node
<1>11. ASSUME NEW i \in Numbers(h), t.node[i].key # Nil
       PROVE  Home(t.node[i].key, h) # free /\ Home(t.node[i].key, h) # m
  <2>1. Home(t.node[i].key, h) # m
    BY <1>1, <1>2, <1>8, <1>11 DEF Arranged
  <2> QED BY <1>5, <1>11, <2>1
<1> DEFINE own2 == [i \in Numbers(h) |-> IF i = free THEN own[m] ELSE IF i = m THEN own[free] ELSE own[i]]
           height2 == [i \in Numbers(h) |->
                         IF i = free THEN height[m] ELSE IF i = m THEN height[free] ELSE height[i]]
<1>12. own2 \in [Numbers(h) -> Nat] /\ height2 \in [Numbers(h) -> Nat]
  BY <1>1, <1>2, <1>7
<1>13. /\ own2[free] = own[m] /\ height2[free] = height[m]
       /\ own2[m] = own[free] /\ height2[m] = height[free]
       /\ \A i \in Numbers(h) \ {free, m} : own2[i] = own[i] /\ height2[i] = height[i]
  BY <1>1, <1>2, <1>9
<1> HIDE DEF own2, height2
<1>14. ASSUME NEW i \in Numbers(h) \ {m} PROVE own2[i] # own2[m]
  BY <1>1, <1>2, <1>5, <1>9, <1>13
<1> HIDE DEF m
<1>15. ASSUME NEW i \in Numbers(h), u.node[i].next # -1
       PROVE  own2[u.node[i].next] = own2[i] /\ height2[i] = height2[u.node[i].next] + 1
  <2>1. CASE i = m
    BY <1>10, <1>15, <2>1
  <2>2. CASE i = p
    BY <1>1, <1>9, <1>10, <1>13, <2>2
  <2>3. CASE i # m /\ i # p
    <3> DEFINE g == IF i = free THEN m ELSE i
               y == t.node[g].next
    <3>1. u.node[i].next = y /\ y # -1 /\ g \in Numbers(h) /\ g # p
      BY <1>2, <1>9, <1>10, <1>15, <2>3
    <3>2. own2[i] = own[g] /\ height2[i] = height[g]
      BY <1>13, <2>3
    <3> HIDE DEF g
    <3>3. y \in Numbers(h) /\ y # free /\ own[y] = own[g] /\ height[g] = height[y] + 1
      BY <1>5, <1>6, <3>1
    <3>4. y # m
      <4> SUFFICES ASSUME y = m PROVE FALSE
        OBVIOUS
      <4>1. own[g] = own[p] /\ height[g] = height[p]
        BY <1>9, <3>3
      <4> QED BY <1>1, <1>7, <3>1, <4>1
    <3>5. own2[y] = own[y] /\ height2[y] = height[y]
      BY <1>13, <3>3, <3>4
    <3> QED BY <3>1, <3>2, <3>3, <3>5
  <2> QED BY <2>1, <2>2, <2>3
<1>16. ASSUME NEW i \in Numbers(h), NEW j \in Numbers(h), own2[i] = own2[j], height2[i] = height2[j]
       PROVE  i = j
  <2>1. CASE i = m \/ j = m
    BY <1>14, <1>16, <2>1
  <2>2. CASE i # m /\ j # m
    BY <1>2, <1>7, <1>13, <1>16, <2>2
  <2> QED BY <2>1, <2>2
<1>17. ASSUME NEW i \in Numbers(h), NEW j \in Numbers(h), own2[i] = own2[j], height2[i] > height2[j]
       PROVE  u.node[i].next # -1
  <2>1. i # m /\ j # m
    <3>1. height2[i] \in Nat /\ height2[j] \in Nat
      BY <1>12
    <3>2. i # j
      BY <1>17, <3>1
    <3> QED BY <1>14, <1>17, <3>2
  <2>2. CASE i = p
    BY <1>2, <1>10, <2>2
  <2>3. CASE i # p
    <3> DEFINE g == IF i = free THEN m ELSE i
               e == IF j = free THEN m ELSE j
    <3>1. u.node[i].next = t.node[g].next /\ g \in Numbers(h) /\ e \in Numbers(h)
      BY <1>2, <1>9, <1>10, <2>1, <2>3
    <3>2. own2[i] = own[g] /\ height2[i] = height[g] /\ own2[j] = own[e] /\ height2[j] = height[e]
      BY <1>13, <2>1
    <3> HIDE DEF g, e
    <3> QED BY <1>7, <1>17, <3>1, <3>2
  <2> QED BY <2>2, <2>3
<1>18. ASSUME NEW i \in Numbers(h), u.node[i].key # Nil
       PROVE  /\ own2[Home(u.node[i].key, h)] = own2[i]
              /\ height2[Home(u.node[i].key, h)] >= height2[i]
  <2>1. CASE i = m
    <3>1. Home(u.node[i].key, h) = m /\ height2[m] \in Nat
      BY <1>2, <1>10, <1>12, <2>1 DEF m
    <3> QED BY <2>1, <3>1
  <2>2. CASE i # m
    <3> DEFINE g == IF i = free THEN m ELSE i
    <3>1. u.node[i].key = t.node[g].key /\ g \in Numbers(h)
      BY <1>2, <1>9, <1>10, <2>2
    <3>2. own2[i] = own[g] /\ height2[i] = height[g]
      BY <1>13, <2>2
    <3> HIDE DEF g
    <3>3. t.node[g].key \in Keys
      BY <1>1, <1>18, <3>1 DEF Tables, Entries
    <3> DEFINE e == Home(t.node[g].key, h)
    <3>4. e \in Numbers(h) /\ own[e] = own[g] /\ height[e] >= height[g]
      BY <1>1, <1>7, <1>18, <3>1, <3>3, HomeIsNode
    <3>5. e # free /\ e # m
      BY <1>11, <1>18, <3>1
    <3> HIDE DEF e
    <3>6. own2[e] = own[e] /\ height2[e] = height[e]
      BY <1>13, <3>4, <3>5
    <3>7. own2[e] = own2[i] /\ height2[e] >= height2[i]
      BY <3>2, <3>4, <3>6
    <3> QED BY <3>1, <3>7 DEF e
  <2> QED BY <2>1, <2>2
<1>19. Chained(u, h, own2, height2)
  BY <1>12, <1>15, <1>16, <1>17, <1>18 DEF Chained
<1> QED BY <1>9, <1>11, <1>19 DEF m

\* The second branch of insertNewKey keeps the layout sound.
LEMMA PutMovedSound ==
    ASSUME NEW h, NEW t, NEW u, NEW k, NEW v, NEW free, NEW p, Sound(t, h), NewKey(t, h, k, v),
           PutMoved(t, u, h, k, v, free, p)
    PROVE  Sound(u, h)
<1> DEFINE m == Home(k, h)
<1>1. h \in Nat /\ t \in Tables(h) /\ Arranged(t, h) /\ h > 0 /\ k \in Keys /\ v \in Vals /\ u \in Tables(h)
      /\ free \in Numbers(h) /\ free < t.lastfree /\ Empty(t.node[free])
      /\ p \in Numbers(h)
  BY DEF Sound, NewKey, PutMoved
<1>2. m \in Numbers(h)
  BY <1>1, HomeIsNode
<1>3. /\ p # free /\ p # m /\ free # m
      /\ \A i \in Numbers(h) : t.node[i].key # Nil => Home(t.node[i].key, h) # free /\ Home(t.node[i].key, h) # m
  BY PutMovedChained
<1>4. /\ u.node[free] = t.node[m] /\ t.node[m].key # Nil
      /\ u.node[p].key = t.node[p].key /\ u.node[p].val = t.node[p].val /\ u.node[p].next = free
      /\ u.node[m].key = k /\ u.node[m].val = v /\ u.node[m].next = -1
      /\ \A i \in Numbers(h) \ {m, free, p} : u.node[i] = t.node[i]
      /\ u.lastfree = free /\ u.array = t.array /\ asize(u) = asize(t)
      /\ t.node[free].key = Nil
  BY DEF PutMoved, Node, asize, Empty
<1>5. \A i \in Numbers(h) : t.node[i].key # k
  BY DEF NewKey
<1>6. k \notin 1 .. asize(t) /\ k # Nil /\ v # Nil
  BY <1>1, NilIsNoKey DEF NewKey
<1>7. t.lastfree \in Nat /\ free \in Nat /\ \A i \in Numbers(h) : t.node[i].next \in Int
  <2>1. t.lastfree \in Nat /\ \A i \in Numbers(h) : t.node[i].next \in Int
    BY <1>1 DEF Tables, Entries
  <2> QED BY <1>1, <2>1 DEF Numbers
<1>8. \A i \in Numbers(h) \ {m, free} : u.node[i].key = t.node[i].key /\ u.node[i].val = t.node[i].val
  BY <1>4
<1> HIDE DEF m
<1>9. \A i, j \in Numbers(h) :
          u.node[i].key # Nil /\ u.node[j].key # Nil /\ Home(u.node[j].key, h) = i
            => Home(u.node[i].key, h) = i
  <2> SUFFICES ASSUME NEW i \in Numbers(h), NEW j \in Numbers(h),
                      u.node[i].key # Nil, u.node[j].key # Nil, Home(u.node[j].key, h) = i
               PROVE  Home(u.node[i].key, h) = i
    OBVIOUS
  <2>1. CASE i = m
    BY <1>4, <2>1 DEF m
  <2>2. CASE i # m
    <3>1. j # m
      BY <1>4, <2>2 DEF m
    <3>2. \E e \in Numbers(h) : u.node[j].key = t.node[e].key
      BY <1>2, <1>4, <1>8, <3>1
    <3>3. i # free
      BY <1>3, <3>2
    <3>4. u.node[i].key = t.node[i].key
      BY <1>8, <2>2, <3>3
    <3> QED BY <1>1, <3>2, <3>4 DEF Arranged
  <2> QED BY <2>1, <2>2
<1>10. \A i \in Numbers(h) : u.node[i].next # -1 => u.node[i].next >= u.lastfree
  <2>1. \A i \in Numbers(h) : t.node[i].next # -1 => t.node[i].next >= t.lastfree
    BY <1>1 DEF Arranged
  <2> QED BY <1>1, <1>2, <1>4, <1>7, <2>1
<1>11. \A i \in Numbers(h) : u.node[i].key = Nil <=> u.node[i].val = Nil
  <2>1. \A i \in Numbers(h) : t.node[i].key = Nil <=> t.node[i].val = Nil
    BY <1>1 DEF Arranged
  <2> QED BY <1>2, <1>4, <1>8, <1>1, <1>6, <2>1, NilIsNoKey
<1>12. \A i, j \in Numbers(h) : u.node[i].key = u.node[j].key /\ u.node[i].key # Nil => i = j
  <2>1. \A i, j \in Numbers(h) : t.node[i].key = t.node[j].key /\ t.node[i].key # Nil => i = j
    BY <1>1 DEF Arranged
  <2> QED BY <1>2, <1>4, <1>8, <1>5, <2>1
<1>13. \A i \in Numbers(h) : u.node[i].key # Nil => u.node[i].key \notin 1 .. asize(u)
  <2>1. \A i \in Numbers(h) : t.node[i].key # Nil => t.node[i].key \notin 1 .. asize(t)
    BY <1>1 DEF Arranged
  <2> QED BY <1>2, <1>4, <1>8, <1>6, <2>1
<1>14. \A n \in 1 .. asize(u) : u.array[n] # Nil => n \in Keys
  BY <1>1, <1>4 DEF Arranged
<1>15. Arranged(u, h)
  BY <1>9, <1>10, <1>11, <1>12, <1>13, <1>14 DEF Arranged
<1> QED BY <1>1, <1>15, PutMovedChained DEF Sound

----------------------------------------------------------------------------
(* Inserting a key *)

\* The greatest element of a bounded set of naturals.
LEMMA Greatest ==
    ASSUME NEW b \in Nat, NEW S \in SUBSET (0 .. b), S # {}
    PROVE  Max(S) \in S /\ \A x \in S : x <= Max(S)
<1> DEFINE below == {b - x : x \in S}
<1>1. below \in SUBSET Nat /\ below # {}
  <2>1. \A x \in S : x \in 0 .. b
    OBVIOUS
  <2>2. \A x \in S : b - x \in Nat
    BY <2>1
  <2> QED BY <2>2
<1>2. PICK n \in below : \A y \in below : n <= y
  <2> HIDE DEF below
  <2> QED BY <1>1, Least
<1>3. PICK top \in S : n = b - top
  BY <1>2
<1>4. ASSUME NEW x \in S PROVE top >= x
  <2>1. b - x \in below
    OBVIOUS
  <2>2. n <= b - x
    <3> HIDE DEF below
    <3> QED BY <1>2, <2>1
  <2>3. x \in 0 .. b /\ top \in 0 .. b
    OBVIOUS
  <2> HIDE DEF below
  <2> QED BY <1>3, <2>2, <2>3
<1>5. Max(S) \in S /\ \A x \in S : Max(S) >= x
  <2> HIDE DEF below
  <2> QED BY <1>4 DEF Max
<1>6. S \subseteq Int /\ Max(S) \in Int
  <2>1. 0 .. b \subseteq Int
    OBVIOUS
  <2> HIDE DEF below
  <2> QED BY <1>5, <2>1
<1> HIDE DEF below
<1> QED BY <1>5, <1>6

\* The search for a free node finds the last one below lastfree (findFreeNode).
LEMMA FreeNode ==
    ASSUME NEW h \in Nat, NEW t \in Tables(h)
    PROVE  LET free == findFreeNode(t)
           IN  /\ free # -1 => free \in Numbers(h) /\ free < t.lastfree /\ Empty(t.node[free])
               /\ \A i \in Numbers(h) : i < t.lastfree /\ Empty(t.node[i]) => free # -1 /\ i <= free
<1> DEFINE fs == {i \in DOMAIN t.node : i < t.lastfree /\ Empty(t.node[i])}
<1>1. DOMAIN t.node = Numbers(h)
  BY SizesOf
<1>2. findFreeNode(t) = IF fs = {} THEN -1 ELSE Max(fs)
  BY DEF findFreeNode
<1>3. fs \in SUBSET (0 .. h)
  BY <1>1 DEF Numbers
<1>4. CASE fs = {}
  BY <1>1, <1>2, <1>4
<1>5. CASE fs # {}
  <2>1. Max(fs) \in fs /\ \A x \in fs : x <= Max(fs)
    <3> HIDE DEF fs
    <3> QED BY <1>3, <1>5, Greatest
  <2>2. findFreeNode(t) \in fs /\ \A x \in fs : x <= findFreeNode(t)
    <3> HIDE DEF fs
    <3> QED BY <1>2, <1>5, <2>1
  <2>3. findFreeNode(t) # -1
    BY <1>3, <2>2
  <2> QED BY <1>1, <2>2, <2>3
<1> QED BY <1>4, <1>5

\* What insertNewKey does, branch by branch; the free node is the last one.
Inserted(t, u, h, k, v) ==
    \/ PutHere(t, u, h, k, v) /\ u.gen = t.gen
    \/ \E free : /\ PutBehind(t, u, h, k, v, free)
                 /\ \A i \in Numbers(h) : i < t.lastfree /\ Empty(t.node[i]) => i <= free
                 /\ u.gen = t.gen
    \/ \E free, p : /\ PutMoved(t, u, h, k, v, free, p)
                    /\ \A i \in Numbers(h) : i < t.lastfree /\ Empty(t.node[i]) => i <= free
                    /\ u.gen = (t.gen + 1) % GenSize

\* The generation after a change to the layout (BumpGen).
LEMMA BumpTyped ==
    ASSUME NEW h, NEW t \in Tables(h)
    PROVE  (t.gen + 1) % GenSize \in 0 .. GenSize - 1 /\ t.gen \in Nat
<1>1. GenSize \in Nat /\ GenSize > 0 /\ t.gen \in 0 .. GenSize - 1
  BY LimitsAssumption DEF Tables
<1> QED BY <1>1

\* insertNewKey is one of its three branches.
LEMMA InsertBranches ==
    ASSUME NEW h, NEW t, NEW k, NEW v, Sound(t, h), NewKey(t, h, k, v), HasRoom(t, k)
    PROVE  Inserted(t, insertNewKey(t, k, v), h, k, v)
<1> DEFINE m == Home(k, h)
           occ == t.node[m]
           free == findFreeNode(t)
           taken == [t EXCEPT !.lastfree = free]
           u == insertNewKey(t, k, v)
<1>1. h \in Nat /\ t \in Tables(h) /\ h > 0 /\ k \in Keys /\ v \in Vals
  BY DEF Sound, NewKey
<1>2. m \in Numbers(h) /\ DOMAIN t.node = Numbers(h) /\ \A q : mainPosition(t, q) = Home(q, h)
  BY <1>1, HomeIsNode, SizesOf
<1>3. occ \in Entries(h) /\ t.node \in [Numbers(h) -> Entries(h)]
  BY <1>1, <1>2 DEF Tables
<1>4. Node(k, v, -1) \in Entries(h)
  BY <1>1 DEF Node, Entries
<1>5. CASE Empty(occ)
  <2>1. u = [t EXCEPT !.node[m] = Node(k, v, -1)]
    BY <1>2, <1>5 DEF insertNewKey
  <2>2. u \in Tables(h) /\ u.lastfree = t.lastfree /\ u.array = t.array /\ u.gen = t.gen
        /\ u.node = [t.node EXCEPT ![m] = Node(k, v, -1)]
    <3> HIDE DEF m, u
    <3> QED BY <1>1, <1>2, <1>4, <2>1 DEF Tables
  <2>3. PutHere(t, u, h, k, v)
    <3> HIDE DEF u
    <3> QED BY <1>2, <1>5, <2>2 DEF PutHere, Tables
  <2> QED BY <2>2, <2>3 DEF Inserted
<1>6. CASE ~ Empty(occ)
  <2>1. free # -1
    BY <1>2, <1>6 DEF HasRoom
  <2>2. free \in Numbers(h) /\ free < t.lastfree /\ Empty(t.node[free])
        /\ \A i \in Numbers(h) : i < t.lastfree /\ Empty(t.node[i]) => i <= free
    BY <1>1, <2>1, FreeNode
  <2>3. free # m
    BY <1>6, <2>2
  <2>4. free \in 0 .. h /\ free \in -1 .. h - 1
    BY <1>1, <2>2 DEF Numbers
  <2>5. CASE occ.key # Nil /\ Home(occ.key, h) # m
    <3> DEFINE p == Predecessor(t, Home(occ.key, h), m)
               s1node == [t.node EXCEPT ![free] = occ]
    <3>1. p \in Numbers(h) /\ t.node[p].next = m
      <4>1. PICK own, height : Chained(t, h, own, height)
        BY DEF Sound
      <4>2. occ.key \in Keys
        BY <1>3, <2>5 DEF Entries
      <4>3. Home(occ.key, h) \in Numbers(h)
        BY <1>1, <4>2, HomeIsNode
      <4>4. own[Home(occ.key, h)] = own[m] /\ height[Home(occ.key, h)] >= height[m]
        BY <1>2, <2>5, <4>1 DEF Chained
      <4>5. height[Home(occ.key, h)] # height[m]
        BY <1>2, <2>5, <4>1, <4>3, <4>4 DEF Chained
      <4>6. height[Home(occ.key, h)] \in Nat /\ height[m] \in Nat
        BY <1>2, <4>1, <4>3 DEF Chained
      <4>7. height[Home(occ.key, h)] > height[m]
        BY <4>4, <4>5, <4>6
      <4> HIDE DEF m
      <4> QED BY <1>1, <1>2, <4>1, <4>3, <4>4, <4>7, Preceded
    <3>2. Predecessor(taken, Home(occ.key, h), m) = p
      <4>1. taken.node = t.node
        BY <1>1 DEF Tables
      <4> QED BY <4>1 DEF Predecessor
    <3>3. /\ taken \in Tables(h) /\ taken.node = t.node /\ taken.array = t.array /\ taken.gen = t.gen
          /\ taken.lastfree = free
      <4> HIDE DEF free
      <4> QED BY <1>1, <2>4 DEF Tables
    <3>4. mainPosition(taken, occ.key) = Home(occ.key, h)
      <4> HIDE DEF taken, occ, m
      <4> QED BY <1>1, <3>3, SizesOf
    <3>5. u = [Move(taken, m, free) EXCEPT !.node[m] = Node(k, v, -1)]
      BY <1>2, <1>6, <2>5 DEF insertNewKey
    <3>6. Move(taken, m, free) = BumpGen([taken EXCEPT !.node[free] = t.node[m], !.node[p].next = free])
      <4> HIDE DEF taken, free, p, m
      <4> QED BY <3>2, <3>3, <3>4 DEF Move, occ
    <3> HIDE DEF taken, free, m, p
    <3>7. p # free /\ free # m
      <4>1. t.node[free].next < 0 /\ m \in Nat
        BY <1>2, <2>2 DEF Empty, Numbers
      <4> QED BY <2>3, <3>1, <4>1
    <3> DEFINE moved == [taken EXCEPT !.node[free] = t.node[m], !.node[p].next = free]
    <3>8. /\ moved.array = t.array /\ moved.lastfree = free /\ moved.gen = t.gen
          /\ moved.node = [[t.node EXCEPT ![free] = occ] EXCEPT ![p].next = free]
          /\ moved = [array |-> moved.array, node |-> moved.node, lastfree |-> moved.lastfree, gen |-> moved.gen]
      <4>1. taken = [array |-> t.array, node |-> t.node, lastfree |-> free, gen |-> t.gen]
        BY <3>3 DEF Tables
      <4> DEFINE mid == [taken EXCEPT !.node[free] = t.node[m]]
                 first == [t.node EXCEPT ![free] = t.node[m]]
      <4>2. mid = [array |-> t.array, node |-> first, lastfree |-> free, gen |-> t.gen]
        BY <4>1
      <4>3. moved = [mid EXCEPT !.node[p].next = free]
        OBVIOUS
      <4> HIDE DEF mid, first, moved
      <4>4. moved = [array |-> t.array, node |-> [first EXCEPT ![p].next = free],
                     lastfree |-> free, gen |-> t.gen]
        BY <4>2, <4>3
      <4> USE DEF first
      <4> QED BY <4>4
    <3>9. [[t.node EXCEPT ![free] = occ] EXCEPT ![p].next = free] \in [Numbers(h) -> Entries(h)]
      BY <1>3, <2>2, <2>4, <3>1 DEF Entries
    <3>10. (t.gen + 1) % GenSize \in 0 .. GenSize - 1
      BY <1>1, BumpTyped
    <3> DEFINE bumped == BumpGen(moved)
    <3>11. /\ bumped.array = t.array /\ bumped.lastfree = free /\ bumped.gen = (t.gen + 1) % GenSize
           /\ bumped.node = moved.node
           /\ bumped = [array |-> bumped.array, node |-> bumped.node, lastfree |-> bumped.lastfree, gen |-> bumped.gen]
      <4> HIDE DEF moved
      <4> QED BY <3>8 DEF BumpGen
    <3> DEFINE both == [[t.node EXCEPT ![free] = occ] EXCEPT ![p].next = free]
    <3>12. u = [bumped EXCEPT !.node[m] = Node(k, v, -1)]
      BY <3>5, <3>6
    <3>13. bumped.node = both
      BY <3>8, <3>11
    <3> HIDE DEF bumped, u, moved
    <3>14. /\ u.array = t.array /\ u.lastfree = free /\ u.gen = (t.gen + 1) % GenSize
           /\ u.node = [both EXCEPT ![m] = Node(k, v, -1)]
           /\ u = [array |-> u.array, node |-> u.node, lastfree |-> u.lastfree, gen |-> u.gen]
      <4> HIDE DEF both
      <4> QED BY <3>11, <3>12, <3>13
    <3>15. both \in [Numbers(h) -> Entries(h)]
      BY <3>9
    <3>16. u \in Tables(h)
      <4>1. u.node \in [Numbers(h) -> Entries(h)]
        <5> HIDE DEF both
        <5> QED BY <3>14, <3>15, <1>4
      <4>2. t.array \in Seq(Vals \cup {Nil})
        BY <1>1 DEF Tables
      <4> HIDE DEF both
      <4> QED BY <3>10, <3>14, <4>1, <4>2, <2>4 DEF Tables
    <3>17. p # m
      <4>1. PICK own, height : Chained(t, h, own, height)
        BY DEF Sound
      <4> QED BY <1>1, <1>2, <3>1, <4>1, ChainSteps
    <3>18. /\ both[free] = occ
           /\ both[p] = Node(t.node[p].key, t.node[p].val, free)
           /\ \A i \in Numbers(h) \ {free, p} : both[i] = t.node[i]
      <4>1. both[free] = occ /\ \A i \in Numbers(h) \ {free, p} : both[i] = t.node[i]
        BY <1>3, <2>2, <3>1, <3>7
      <4>2. both[p] = [t.node[p] EXCEPT !.next = free]
        BY <1>3, <2>2, <3>1, <3>7
      <4>3. t.node[p] \in Entries(h)
        BY <1>3, <3>1
      <4> QED BY <4>1, <4>2, <4>3 DEF Node, Entries
    <3>19. /\ u.node[free] = occ /\ u.node[p] = Node(t.node[p].key, t.node[p].val, free)
           /\ u.node[m] = Node(k, v, -1)
           /\ \A i \in Numbers(h) \ {m, free, p} : u.node[i] = t.node[i]
      <4> HIDE DEF both
      <4> QED BY <1>2, <2>2, <3>1, <3>7, <3>14, <3>15, <3>17, <3>18
    <3>20. PutMoved(t, u, h, k, v, free, p)
      BY <2>2, <2>5, <3>1, <3>14, <3>16, <3>19 DEF PutMoved, m
    <3> QED BY <2>2, <3>14, <3>20 DEF Inserted, u
  <2>6. CASE ~ (occ.key # Nil /\ Home(occ.key, h) # m)
    <3>1. u = [taken EXCEPT !.node[free] = Node(k, v, occ.next), !.node[m].next = free]
      BY <1>2, <1>6, <2>6 DEF insertNewKey
    <3> DEFINE both == [[t.node EXCEPT ![free] = Node(k, v, occ.next)] EXCEPT ![m].next = free]
    <3>2. Node(k, v, occ.next) \in Entries(h)
      BY <1>1, <1>3 DEF Node, Entries
    <3> HIDE DEF m, free
    <3>3. /\ u.array = t.array /\ u.lastfree = free /\ u.gen = t.gen
          /\ u.node = both
          /\ u = [array |-> u.array, node |-> u.node, lastfree |-> u.lastfree, gen |-> u.gen]
      <4> HIDE DEF u
      <4> QED BY <1>1, <3>1 DEF Tables
    <3>4. both \in [Numbers(h) -> Entries(h)]
      BY <1>2, <1>3, <2>2, <2>4, <3>2 DEF Entries
    <3>5. u \in Tables(h)
      <4>1. t.array \in Seq(Vals \cup {Nil}) /\ t.gen \in 0 .. GenSize - 1
        BY <1>1 DEF Tables
      <4> HIDE DEF both, u
      <4> QED BY <2>4, <3>3, <3>4, <4>1 DEF Tables
    <3>6. /\ both[free] = Node(k, v, occ.next)
          /\ both[m] = Node(t.node[m].key, t.node[m].val, free)
          /\ \A i \in Numbers(h) \ {free, m} : both[i] = t.node[i]
      <4>1. both[free] = Node(k, v, occ.next) /\ \A i \in Numbers(h) \ {free, m} : both[i] = t.node[i]
        BY <1>2, <1>3, <2>2, <2>3
      <4>2. both[m] = [t.node[m] EXCEPT !.next = free]
        BY <1>2, <1>3, <2>2, <2>3
      <4>3. t.node[m] \in Entries(h)
        BY <1>3
      <4> QED BY <4>1, <4>2, <4>3 DEF Node, Entries
    <3>7. PutBehind(t, u, h, k, v, free)
      <4> HIDE DEF both, u
      <4> QED BY <1>6, <2>2, <2>6, <3>3, <3>5, <3>6 DEF PutBehind, m
    <3> QED BY <2>2, <3>3, <3>7 DEF Inserted, free
  <2> QED BY <2>5, <2>6
<1> QED BY <1>5, <1>6

\* Each branch keeps the layout sound (insertNewKey).
LEMMA InsertedSound ==
    ASSUME NEW h, NEW t, NEW u, NEW k, NEW v, Sound(t, h), NewKey(t, h, k, v), Inserted(t, u, h, k, v)
    PROVE  Sound(u, h)
BY PutHereSound, PutBehindSound, PutMovedSound DEF Inserted

\* The new key has a node, and every other key keeps one.
Keeps(t, u, h, k, v) ==
    /\ u.array = t.array
    /\ \E i \in Numbers(h) : u.node[i].key = k /\ u.node[i].val = v
    /\ \A i \in Numbers(h) :
         t.node[i].key # Nil =>
            \E j \in Numbers(h) : u.node[j].key = t.node[i].key /\ u.node[j].val = t.node[i].val
    /\ \A j \in Numbers(h) :
         u.node[j].key # Nil => u.node[j].key = k \/ \E i \in Numbers(h) : t.node[i].key = u.node[j].key

\* Each branch does so (insertNewKey).
LEMMA InsertedKeeps ==
    ASSUME NEW h, NEW t, NEW u, NEW k, NEW v, Sound(t, h), NewKey(t, h, k, v), Inserted(t, u, h, k, v)
    PROVE  Keeps(t, u, h, k, v)
<1> DEFINE m == Home(k, h)
<1>1. m \in Numbers(h)
  BY HomeIsNode DEF Sound, NewKey
<1>2. CASE PutHere(t, u, h, k, v)
  <2>1. /\ u.node[m].key = k /\ u.node[m].val = v /\ t.node[m].key = Nil /\ u.array = t.array
        /\ \A i \in Numbers(h) \ {m} : u.node[i] = t.node[i]
    BY <1>2 DEF PutHere, Node, Empty
  <2> HIDE DEF m
  <2> QED BY <1>1, <2>1 DEF Keeps
<1>3. ASSUME NEW free, PutBehind(t, u, h, k, v, free) PROVE Keeps(t, u, h, k, v)
  <2>1. /\ u.node[free].key = k /\ u.node[free].val = v /\ t.node[free].key = Nil /\ free \in Numbers(h)
        /\ u.node[m].key = t.node[m].key /\ u.node[m].val = t.node[m].val
        /\ \A i \in Numbers(h) \ {m, free} : u.node[i] = t.node[i]
        /\ u.array = t.array
    BY <1>3 DEF PutBehind, Node, Empty
  <2>2. \A i \in Numbers(h) \ {free} : u.node[i].key = t.node[i].key /\ u.node[i].val = t.node[i].val
    BY <1>1, <2>1
  <2> HIDE DEF m
  <2> QED BY <2>1, <2>2 DEF Keeps
<1>4. ASSUME NEW free, NEW p, PutMoved(t, u, h, k, v, free, p) PROVE Keeps(t, u, h, k, v)
  <2>1. /\ u.node[free] = t.node[m] /\ t.node[free].key = Nil /\ free \in Numbers(h)
        /\ u.node[p].key = t.node[p].key /\ u.node[p].val = t.node[p].val
        /\ u.node[m].key = k /\ u.node[m].val = v
        /\ \A i \in Numbers(h) \ {m, free, p} : u.node[i] = t.node[i]
        /\ u.array = t.array
    BY <1>4 DEF PutMoved, Node, Empty
  <2>2. free # m
    BY <1>4, PutMovedChained
  <2>3. \A i \in Numbers(h) \ {m, free} : u.node[i].key = t.node[i].key /\ u.node[i].val = t.node[i].val
    BY <1>1, <2>1
  <2> HIDE DEF m
  <2>4. \A i \in Numbers(h) :
          t.node[i].key # Nil =>
             \E j \in Numbers(h) : u.node[j].key = t.node[i].key /\ u.node[j].val = t.node[i].val
    <3> SUFFICES ASSUME NEW i \in Numbers(h), t.node[i].key # Nil
                 PROVE \E j \in Numbers(h) : u.node[j].key = t.node[i].key /\ u.node[j].val = t.node[i].val
      OBVIOUS
    <3>1. CASE i = m
      BY <2>1, <3>1
    <3>2. CASE i # m
      BY <2>1, <2>3, <3>2
    <3> QED BY <3>1, <3>2
  <2>5. \A j \in Numbers(h) :
          u.node[j].key # Nil => u.node[j].key = k \/ \E i \in Numbers(h) : t.node[i].key = u.node[j].key
    BY <1>1, <2>1, <2>3
  <2> QED BY <1>1, <2>1, <2>4, <2>5 DEF Keeps
<1> QED BY <1>2, <1>3, <1>4 DEF Inserted

\* A key that has a node in one of two tables has one in the other, or none.
LEMMA InsertedBecomes ==
    ASSUME NEW h, NEW t, NEW u, NEW k, NEW v, Sound(t, h), NewKey(t, h, k, v), Sound(u, h),
           Keeps(t, u, h, k, v)
    PROVE  Becomes(t, u, k, v) /\ asize(u) = asize(t)
<1>1. asize(u) = asize(t) /\ u.array = t.array
  BY DEF Keeps, asize
<1>2. ASSUME NEW q \in Keys PROVE rawGet(u, q) = IF q = k THEN v ELSE rawGet(t, q)
  <2>0. /\ q \in 1 .. asize(t) => rawGet(t, q) = t.array[q] /\ rawGet(u, q) = u.array[q]
        /\ \A i \in Numbers(h) : t.node[i].key = q => rawGet(t, q) = t.node[i].val
        /\ \A i \in Numbers(h) : u.node[i].key = q => rawGet(u, q) = u.node[i].val
        /\ q \notin 1 .. asize(t) /\ (\A i \in Numbers(h) : t.node[i].key # q)
              => rawGet(t, q) = Nil
        /\ q \notin 1 .. asize(t) /\ (\A i \in Numbers(h) : u.node[i].key # q)
              => rawGet(u, q) = Nil
    BY <1>1, Reads
  <2>1. CASE q = k
    BY <2>0, <2>1 DEF Keeps
  <2>2. CASE q # k /\ q \in 1 .. asize(t)
    BY <1>1, <2>0, <2>2
  <2>3. CASE q # k /\ q \notin 1 .. asize(t) /\ \E i \in Numbers(h) : t.node[i].key = q
    <3>1. PICK i \in Numbers(h) : t.node[i].key = q
      BY <2>3
    <3>2. PICK j \in Numbers(h) : u.node[j].key = q /\ u.node[j].val = t.node[i].val
      BY <3>1, NilIsNoKey DEF Keeps
    <3> QED BY <2>0, <2>3, <3>1, <3>2
  <2>4. CASE q # k /\ q \notin 1 .. asize(t) /\ \A i \in Numbers(h) : t.node[i].key # q
    <3>1. \A j \in Numbers(h) : u.node[j].key # q
      BY <2>4, NilIsNoKey DEF Keeps
    <3> QED BY <2>0, <2>4, <3>1
  <2> QED BY <2>1, <2>2, <2>3, <2>4
<1> QED BY <1>1, <1>2 DEF Becomes

\* The generation follows, unless every value stays with its key (BumpGen).
Warned(t, u, h) ==
    \/ u.gen = t.gen /\ \A i \in Numbers(h) : t.node[i].val # Nil => u.node[i].key = t.node[i].key
    \/ u.gen = (t.gen + 1) % GenSize

\* Only a relocation disturbs the place of a value, and it counts (insertNewKey).
LEMMA InsertedWarned ==
    ASSUME NEW h, NEW t, NEW u, NEW k, NEW v, Sound(t, h), NewKey(t, h, k, v), Inserted(t, u, h, k, v)
    PROVE  Warned(t, u, h)
<1>1. CASE PutHere(t, u, h, k, v) /\ u.gen = t.gen
  <2>1. t.node[Home(k, h)].val = Nil /\ \A i \in Numbers(h) \ {Home(k, h)} : u.node[i] = t.node[i]
    BY <1>1 DEF PutHere, Empty
  <2> QED BY <1>1, <2>1 DEF Warned
<1>2. ASSUME NEW free, PutBehind(t, u, h, k, v, free), u.gen = t.gen PROVE Warned(t, u, h)
  <2>1. /\ t.node[free].val = Nil /\ u.node[Home(k, h)].key = t.node[Home(k, h)].key
        /\ \A i \in Numbers(h) \ {Home(k, h), free} : u.node[i] = t.node[i]
    BY <1>2 DEF PutBehind, Empty, Node
  <2> QED BY <1>2, <2>1 DEF Warned
<1> QED BY <1>1, <1>2 DEF Inserted, Warned

\* No deletion has left a node behind, and the free nodes are still to be found.
Compact(t, h) == \A i \in Numbers(h) : t.node[i].key = Nil => i < t.lastfree /\ Empty(t.node[i])

\* Insertions keep it so (insertNewKey).
LEMMA InsertedCompact ==
    ASSUME NEW h, NEW t, NEW u, NEW k, NEW v, Sound(t, h), NewKey(t, h, k, v), Inserted(t, u, h, k, v),
           Compact(t, h)
    PROVE  Compact(u, h)
<1> DEFINE m == Home(k, h)
<1>1. m \in Numbers(h) /\ k # Nil
  BY HomeIsNode, NilIsNoKey DEF Sound, NewKey
<1>2. CASE PutHere(t, u, h, k, v)
  <2>1. /\ u.node[m].key = k /\ u.lastfree = t.lastfree
        /\ \A i \in Numbers(h) \ {m} : u.node[i] = t.node[i]
    BY <1>2 DEF PutHere, Node
  <2> HIDE DEF m
  <2> QED BY <1>1, <2>1 DEF Compact
<1>3. ASSUME NEW free, PutBehind(t, u, h, k, v, free),
             \A i \in Numbers(h) : i < t.lastfree /\ Empty(t.node[i]) => i <= free
      PROVE  Compact(u, h)
  <2>1. /\ u.node[free].key = k /\ u.lastfree = free /\ ~ Empty(t.node[m]) /\ free \in Numbers(h)
        /\ u.node[m].key = t.node[m].key
        /\ \A i \in Numbers(h) \ {m, free} : u.node[i] = t.node[i]
    BY <1>3 DEF PutBehind, Node
  <2>2. u.node[m].key # Nil
    BY <1>1, <2>1 DEF Compact
  <2> HIDE DEF m
  <2> SUFFICES ASSUME NEW i \in Numbers(h), u.node[i].key = Nil
               PROVE i < u.lastfree /\ Empty(u.node[i])
    BY DEF Compact
  <2>3. i # m /\ i # free /\ u.node[i] = t.node[i]
    BY <1>1, <2>1, <2>2
  <2>4. i < t.lastfree /\ Empty(t.node[i])
    BY <2>3 DEF Compact
  <2>5. i <= free /\ i \in Int /\ free \in Int
    BY <1>3, <2>1, <2>4 DEF Numbers
  <2> QED BY <2>1, <2>3, <2>4, <2>5
<1>4. ASSUME NEW free, NEW p, PutMoved(t, u, h, k, v, free, p),
             \A i \in Numbers(h) : i < t.lastfree /\ Empty(t.node[i]) => i <= free
      PROVE  Compact(u, h)
  <2>1. /\ u.node[free] = t.node[m] /\ t.node[m].key # Nil /\ u.lastfree = free /\ free \in Numbers(h)
        /\ u.node[p].key = t.node[p].key /\ t.node[p].next = m /\ p \in Numbers(h)
        /\ u.node[m].key = k
        /\ \A i \in Numbers(h) \ {m, free, p} : u.node[i] = t.node[i]
    BY <1>4 DEF PutMoved, Node
  <2>2. m \in Nat
    BY <1>1 DEF Numbers
  <2> HIDE DEF m
  <2>3. u.node[p].key # Nil
    <3> SUFFICES ASSUME t.node[p].key = Nil PROVE FALSE
      BY <2>1
    <3>1. t.node[p].next < 0
      BY <2>1 DEF Compact, Empty
    <3> QED BY <2>1, <2>2, <3>1
  <2> SUFFICES ASSUME NEW i \in Numbers(h), u.node[i].key = Nil
               PROVE i < u.lastfree /\ Empty(u.node[i])
    BY DEF Compact
  <2>4. i # m /\ i # free /\ u.node[i] = t.node[i]
    BY <1>1, <2>1, <2>3
  <2>5. i < t.lastfree /\ Empty(t.node[i])
    BY <2>4 DEF Compact
  <2>6. i <= free /\ i \in Int /\ free \in Int
    BY <1>4, <2>1, <2>5 DEF Numbers
  <2> QED BY <2>1, <2>4, <2>5, <2>6
<1> QED BY <1>2, <1>3, <1>4 DEF Inserted

----------------------------------------------------------------------------
(* Storing a value under a key *)

\* A value fits when its key has a place or there is room for one.
Fits(t, k, v) == v = Nil \/ arrayIndex(t, k) \/ Find(t, k) # -1 \/ HasRoom(t, k)

\* What a store of v under k does to a table with h nodes.
Stored(t, u, h, k, v) ==
    /\ Sound(u, h) /\ asize(u) = asize(t)
    /\ Becomes(t, u, k, v)
    /\ Warned(t, u, h)
    /\ Compact(t, h) /\ v # Nil => Compact(u, h)

\* In the array part (rawSet).
LEMMA StoredInArray ==
    ASSUME NEW h, NEW t, Sound(t, h), NEW k \in Keys, NEW v \in Vals \cup {Nil}, k \in 1 .. asize(t)
    PROVE  Stored(t, [t EXCEPT !.array[k] = v], h, k, v)
<1> DEFINE u == [t EXCEPT !.array[k] = v]
<1>1. h \in Nat /\ t \in Tables(h) /\ Arranged(t, h)
  BY DEF Sound
<1>2. t.array \in Seq(Vals \cup {Nil}) /\ DOMAIN t.array = 1 .. asize(t) /\ asize(t) \in Nat
  BY <1>1, SizesOf
<1>3. [t.array EXCEPT ![k] = v] \in Seq(Vals \cup {Nil}) /\ Len([t.array EXCEPT ![k] = v]) = asize(t)
  BY <1>2, ExceptSeq DEF asize
<1>4. /\ u \in Tables(h) /\ u.array = [t.array EXCEPT ![k] = v] /\ u.node = t.node
      /\ u.lastfree = t.lastfree /\ u.gen = t.gen
  BY <1>1, <1>3 DEF Tables
<1> HIDE DEF u
<1>5. asize(u) = asize(t) /\ \A q \in 1 .. asize(t) : u.array[q] = IF q = k THEN v ELSE t.array[q]
  BY <1>2, <1>3, <1>4 DEF asize
<1>6. SameLinks(t, u, h)
  BY <1>1, <1>4, <1>5 DEF SameLinks, Arranged
<1>7. Sound(u, h)
  BY <1>6, SameLinksSound
<1>8. ASSUME NEW q \in Keys PROVE rawGet(u, q) = IF q = k THEN v ELSE rawGet(t, q)
  <2>1. CASE q \in 1 .. asize(t)
    BY <1>5, <1>7, <2>1, Reads
  <2>2. CASE q \notin 1 .. asize(t) /\ \E i \in Numbers(h) : t.node[i].key = q
    BY <1>4, <1>7, <2>2, Reads
  <2>3. CASE q \notin 1 .. asize(t) /\ \A i \in Numbers(h) : t.node[i].key # q
    BY <1>4, <1>5, <1>7, <2>3, Reads
  <2> QED BY <2>1, <2>2, <2>3
<1>9. Warned(t, u, h) /\ (Compact(t, h) => Compact(u, h))
  BY <1>4 DEF Warned, Compact
<1> QED BY <1>5, <1>7, <1>8, <1>9 DEF Stored, Becomes, u

\* At the node of the key: a new value, or none (rawSet).
LEMMA StoredAtNode ==
    ASSUME NEW h, NEW t, Sound(t, h), NEW k \in Keys, NEW v \in Vals \cup {Nil}, NEW g \in Numbers(h),
           t.node[g].key = k
    PROVE  Stored(t, IF v = Nil THEN Delete(t, g) ELSE [t EXCEPT !.node[g].val = v], h, k, v)
<1> DEFINE u == IF v = Nil THEN Delete(t, g) ELSE [t EXCEPT !.node[g].val = v]
<1>1. h \in Nat /\ t \in Tables(h) /\ Arranged(t, h) /\ k # Nil
  BY NilIsNoKey DEF Sound
<1>2. t.node \in [Numbers(h) -> Entries(h)] /\ t.node[g] \in Entries(h)
  BY <1>1 DEF Tables
<1>3. (t.gen + 1) % GenSize \in 0 .. GenSize - 1
  BY <1>1, BumpTyped
<1>4. /\ u \in Tables(h) /\ u.array = t.array /\ u.lastfree = t.lastfree
      /\ u.node[g].next = t.node[g].next
      /\ u.node[g].key = IF v = Nil THEN Nil ELSE k
      /\ u.node[g].val = v
      /\ \A i \in Numbers(h) \ {g} : u.node[i] = t.node[i]
      /\ u.gen = IF v = Nil THEN (t.gen + 1) % GenSize ELSE t.gen
  <2>1. CASE v = Nil
    <3> DEFINE entry == [[t.node[g] EXCEPT !.key = Nil] EXCEPT !.val = Nil]
               w == [t EXCEPT !.node[g].key = Nil, !.node[g].val = Nil]
    <3>1. entry \in Entries(h) /\ entry.key = Nil /\ entry.val = Nil /\ entry.next = t.node[g].next
      BY <1>2 DEF Entries
    <3>2. w = [t EXCEPT !.node = [t.node EXCEPT ![g] = entry]]
      <4>1. t.node[g] = [key |-> t.node[g].key, val |-> t.node[g].val, next |-> t.node[g].next]
        BY <1>2 DEF Entries
      <4>2. t = [array |-> t.array, node |-> t.node, lastfree |-> t.lastfree, gen |-> t.gen]
        BY <1>1 DEF Tables
      <4> QED BY <1>2, <4>1, <4>2
    <3> HIDE DEF entry, w
    <3>3. u = BumpGen(w)
      BY <2>1 DEF Delete, w
    <3> HIDE DEF u
    <3>4. w \in Tables(h) /\ w.array = t.array /\ w.lastfree = t.lastfree /\ w.gen = t.gen
          /\ w.node = [t.node EXCEPT ![g] = entry]
      BY <1>1, <1>2, <3>1, <3>2 DEF Tables
    <3>5. u \in Tables(h) /\ u.array = t.array /\ u.lastfree = t.lastfree
          /\ u.node = [t.node EXCEPT ![g] = entry] /\ u.gen = (t.gen + 1) % GenSize
      BY <1>3, <3>3, <3>4 DEF Tables, BumpGen
    <3> QED BY <1>2, <2>1, <3>1, <3>5
  <2>2. CASE v # Nil
    <3> DEFINE entry == [t.node[g] EXCEPT !.val = v]
    <3>1. entry \in Entries(h) /\ entry.key = k /\ entry.val = v /\ entry.next = t.node[g].next
      BY <1>2 DEF Entries
    <3>2. u = [t EXCEPT !.node = [t.node EXCEPT ![g] = entry]]
      BY <1>1, <2>2 DEF Tables
    <3> HIDE DEF entry, u
    <3>3. u \in Tables(h) /\ u.array = t.array /\ u.lastfree = t.lastfree /\ u.gen = t.gen
          /\ u.node = [t.node EXCEPT ![g] = entry]
      BY <1>1, <1>2, <3>1, <3>2 DEF Tables
    <3> QED BY <1>2, <2>2, <3>1, <3>3
  <2> QED BY <2>1, <2>2
<1> HIDE DEF u
<1>5. asize(u) = asize(t)
  BY <1>4 DEF asize
<1>6. \A i \in Numbers(h) \ {g} : t.node[i].key # k
  BY <1>1 DEF Arranged
<1>7. SameLinks(t, u, h)
  BY <1>1, <1>4, <1>5, NilIsNoKey DEF SameLinks, Arranged
<1>8. Sound(u, h)
  BY <1>7, SameLinksSound
<1>9. k \notin 1 .. asize(t)
  BY <1>1 DEF Arranged
<1>10. ASSUME NEW q \in Keys PROVE rawGet(u, q) = IF q = k THEN v ELSE rawGet(t, q)
  <2>0. /\ q \in 1 .. asize(t) => rawGet(t, q) = t.array[q] /\ rawGet(u, q) = u.array[q]
        /\ \A i \in Numbers(h) : t.node[i].key = q => rawGet(t, q) = t.node[i].val
        /\ \A i \in Numbers(h) : u.node[i].key = q => rawGet(u, q) = u.node[i].val
        /\ q \notin 1 .. asize(t) /\ (\A i \in Numbers(h) : t.node[i].key # q)
              => rawGet(t, q) = Nil
        /\ q \notin 1 .. asize(t) /\ (\A i \in Numbers(h) : u.node[i].key # q)
              => rawGet(u, q) = Nil
    BY <1>5, <1>8, Reads
  <2>1. CASE q = k
    BY <1>4, <1>6, <1>9, <2>0, <2>1, NilIsNoKey
  <2>2. CASE q # k
    BY <1>4, <2>0, <2>2, NilIsNoKey
  <2> QED BY <2>1, <2>2
<1>11. Warned(t, u, h)
  BY <1>4 DEF Warned
<1>12. Compact(t, h) /\ v # Nil => Compact(u, h)
  BY <1>1, <1>4 DEF Compact
<1> QED BY <1>5, <1>8, <1>10, <1>11, <1>12 DEF Stored, Becomes, u

\* A store that fits (rawSet).
LEMMA StoreSound ==
    ASSUME NEW h, NEW t, Sound(t, h), NEW k \in Keys, NEW v \in Vals \cup {Nil}, Fits(t, k, v)
    PROVE  Stored(t, Store(t, k, v), h, k, v)
<1> DEFINE i == Find(t, k)
<1>1. CASE k \in 1 .. asize(t)
  <2>1. Store(t, k, v) = [t EXCEPT !.array[k] = v]
    BY <1>1 DEF Store, arrayIndex
  <2> QED BY <1>1, <2>1, StoredInArray
<1>2. CASE k \notin 1 .. asize(t) /\ i # -1
  <2>1. PICK g \in Numbers(h) : t.node[g].key = k
    BY <1>2, Found
  <2>2. i = g
    BY <2>1, Found
  <2>3. Store(t, k, v) = IF v = Nil THEN Delete(t, g) ELSE [t EXCEPT !.node[g].val = v]
    BY <1>2, <2>2 DEF Store, arrayIndex
  <2> QED BY <2>1, <2>3, StoredAtNode
<1>3. CASE k \notin 1 .. asize(t) /\ i = -1
  <2>1. \A g \in Numbers(h) : t.node[g].key # k
    BY <1>3, Found DEF Numbers
  <2>2. CASE v = Nil
    <3>1. Store(t, k, v) = t
      BY <1>3, <2>2 DEF Store, arrayIndex
    <3>2. rawGet(t, k) = Nil
      BY <1>3, <2>1, Reads
    <3> QED BY <2>2, <3>1, <3>2 DEF Stored, Becomes, Warned
  <2>3. CASE v # Nil
    <3>1. Store(t, k, v) = insertNewKey(t, k, v)
      BY <1>3, <2>3 DEF Store, arrayIndex
    <3>2. HasRoom(t, k)
      BY <1>3, <2>3 DEF Fits, arrayIndex
    <3>3. h > 0
      BY <3>2, SizesOf DEF HasRoom, Sound
    <3>4. NewKey(t, h, k, v)
      BY <1>3, <2>1, <2>3, <3>3 DEF NewKey
    <3> DEFINE u == insertNewKey(t, k, v)
    <3>5. Inserted(t, u, h, k, v)
      BY <3>2, <3>4, InsertBranches
    <3> HIDE DEF u
    <3>6. Sound(u, h) /\ Keeps(t, u, h, k, v)
      BY <3>4, <3>5, InsertedSound, InsertedKeeps
    <3>7. Becomes(t, u, k, v) /\ asize(u) = asize(t)
      BY <3>4, <3>6, InsertedBecomes
    <3>8. Warned(t, u, h) /\ (Compact(t, h) => Compact(u, h))
      BY <3>4, <3>5, InsertedWarned, InsertedCompact
    <3> QED BY <3>1, <3>6, <3>7, <3>8 DEF Stored, u
  <2> QED BY <2>2, <2>3
<1> QED BY <1>1, <1>2, <1>3

----------------------------------------------------------------------------
(* Powers of two, and what a rehash counts *)

\* The function f starts with `first` and goes on by `step`.
Recursive(f, n, first, step) == f = [i \in 0 .. n |-> IF i = 0 THEN first ELSE step[f[i - 1]]]

\* A function on 0 .. n may be defined from its value at 0 and a step.
LEMMA FiniteRecursion ==
    ASSUME NEW S, NEW first \in S, NEW step \in [S -> S], NEW n \in Nat
    PROVE  \E f \in [0 .. n -> S] : Recursive(f, n, first, step)
<1> DEFINE ok(m) == \E f \in [0 .. m -> S] :
                       f = [i \in 0 .. m |-> IF i = 0 THEN first ELSE step[f[i - 1]]]
           bad == {m \in Nat : ~ ok(m)}
<1> SUFFICES ASSUME bad # {} PROVE FALSE
  BY DEF Recursive
<1>1. PICK m \in bad : \A x \in bad : m <= x
  <2>1. bad \in SUBSET Nat
    OBVIOUS
  <2> HIDE DEF bad
  <2> QED BY <2>1, Least
<1>2. m \in Nat /\ ~ ok(m)
  OBVIOUS
<1>3. m # 0
  <2> SUFFICES ASSUME m = 0 PROVE FALSE
    OBVIOUS
  <2> DEFINE f == [i \in 0 .. 0 |-> first]
  <2>1. f \in [0 .. 0 -> S] /\ f = [i \in 0 .. 0 |-> IF i = 0 THEN first ELSE step[f[i - 1]]]
    OBVIOUS
  <2> QED BY <1>2, <2>1
<1>4. m - 1 \in Nat /\ m - 1 \notin bad
  <2>1. m - 1 \in Nat /\ ~ m <= m - 1
    BY <1>2, <1>3
  <2> HIDE DEF bad
  <2> QED BY <1>1, <2>1
<1>5. PICK f \in [0 .. m - 1 -> S] :
         f = [i \in 0 .. m - 1 |-> IF i = 0 THEN first ELSE step[f[i - 1]]]
  BY <1>4
<1> DEFINE g == [i \in 0 .. m |-> IF i < m THEN f[i] ELSE step[f[m - 1]]]
<1>6. g \in [0 .. m -> S]
  <2>1. m - 1 \in 0 .. m - 1
    BY <1>4
  <2>2. f[m - 1] \in S
    BY <2>1
  <2> QED BY <1>2, <2>2
<1>7. \A i \in 0 .. m : g[i] = IF i = 0 THEN first ELSE step[g[i - 1]]
  <2> SUFFICES ASSUME NEW i \in 0 .. m
               PROVE  g[i] = IF i = 0 THEN first ELSE step[g[i - 1]]
    OBVIOUS
  <2>1. CASE i = 0
    <3>1. 0 \in 0 .. m - 1 /\ 0 \in 0 .. m /\ 0 < m
      BY <1>2, <1>3
    <3>2. f[0] = first
      BY <1>5, <3>1
    <3> QED BY <2>1, <3>1, <3>2
  <2>2. CASE i # 0 /\ i < m
    <3>1. i \in 0 .. m - 1 /\ i - 1 \in 0 .. m /\ i - 1 < m /\ i \in 0 .. m
      BY <1>2, <2>2
    <3>2. f[i] = step[f[i - 1]]
      BY <1>5, <2>2, <3>1
    <3>3. g[i] = f[i] /\ g[i - 1] = f[i - 1]
      BY <2>2, <3>1
    <3> QED BY <2>2, <3>2, <3>3
  <2>3. CASE i = m
    <3>1. m \in 0 .. m /\ m - 1 \in 0 .. m /\ m - 1 < m /\ ~ m < m
      BY <1>2, <1>3
    <3>2. g[m] = step[f[m - 1]] /\ g[m - 1] = f[m - 1]
      BY <3>1
    <3> QED BY <1>3, <2>3, <3>2
  <2>4. i < m \/ i = m
    BY <1>2
  <2> HIDE DEF g
  <2> QED BY <2>1, <2>2, <2>3, <2>4
<1>8. g = [i \in 0 .. m |-> IF i = 0 THEN first ELSE step[g[i - 1]]]
  <2>1. g = [i \in 0 .. m |-> g[i]]
    OBVIOUS
  <2> HIDE DEF g
  <2> QED BY <1>7, <2>1
<1> HIDE DEF g
<1> QED BY <1>2, <1>6, <1>8

\* Doubling outgrows counting.
LEMMA PowerGrows ==
    ASSUME NEW n \in Nat
    PROVE  Power(n) \in Nat /\ Power(n) >= n + 1
<1> DEFINE twice == [x \in Nat |-> 2 * x]
           double == CHOOSE f : f = [i \in 0 .. n |-> IF i = 0 THEN 1 ELSE 2 * f[i - 1]]
<1>1. PICK f \in [0 .. n -> Nat] : f = [i \in 0 .. n |-> IF i = 0 THEN 1 ELSE twice[f[i - 1]]]
  <2>1. twice \in [Nat -> Nat] /\ 1 \in Nat
    OBVIOUS
  <2> HIDE DEF twice
  <2>2. \E f \in [0 .. n -> Nat] : Recursive(f, n, 1, twice)
    BY <2>1, FiniteRecursion
  <2> QED BY <2>2 DEF Recursive
<1>2. \A i \in 0 .. n : f[i] = IF i = 0 THEN 1 ELSE 2 * f[i - 1]
  <2> SUFFICES ASSUME NEW i \in 0 .. n PROVE f[i] = IF i = 0 THEN 1 ELSE 2 * f[i - 1]
    OBVIOUS
  <2>1. f[i] = IF i = 0 THEN 1 ELSE twice[f[i - 1]]
    BY <1>1
  <2>2. i # 0 => f[i - 1] \in Nat
    <3>1. i # 0 => i - 1 \in 0 .. n
      OBVIOUS
    <3> QED BY <3>1
  <2> QED BY <2>1, <2>2
<1>3. f = [i \in 0 .. n |-> IF i = 0 THEN 1 ELSE 2 * f[i - 1]]
  <2>1. f = [i \in 0 .. n |-> f[i]]
    OBVIOUS
  <2> QED BY <1>2, <2>1
<1>4. double = [i \in 0 .. n |-> IF i = 0 THEN 1 ELSE 2 * double[i - 1]]
  <2> HIDE DEF twice
  <2> QED BY <1>3
<1> HIDE DEF double
<1>5. ASSUME NEW i \in 0 .. n PROVE double[i] \in Nat /\ double[i] >= i + 1
  <2> DEFINE bad == {m \in 0 .. n : ~ (double[m] \in Nat /\ double[m] >= m + 1)}
  <2> SUFFICES ASSUME bad # {} PROVE FALSE
    OBVIOUS
  <2>1. PICK m \in bad : \A x \in bad : m <= x
    <3>1. bad \in SUBSET Nat
      OBVIOUS
    <3> HIDE DEF bad
    <3> QED BY <3>1, Least
  <2>2. m \in 0 .. n /\ ~ (double[m] \in Nat /\ double[m] >= m + 1)
    OBVIOUS
  <2>3. m # 0
    <3>1. 0 \in 0 .. n => double[0] = 1
      BY <1>4
    <3> QED BY <2>2, <3>1
  <2>4. m - 1 \in 0 .. n /\ ~ m <= m - 1
    BY <2>2, <2>3
  <2>5. m - 1 \notin bad
    <3> HIDE DEF bad
    <3> QED BY <2>1, <2>4
  <2>6. double[m - 1] \in Nat /\ double[m - 1] >= m
    BY <2>4, <2>5
  <2>7. double[m] = 2 * double[m - 1]
    BY <1>4, <2>2, <2>3
  <2> QED BY <2>2, <2>3, <2>6, <2>7
<1>6. Power(n) = double[n]
  BY DEF Power, double
<1> QED BY <1>5, <1>6

\* The hash part of a rehash is a number of nodes that leaves one free (rehash).
LEMMA NewHSize ==
    ASSUME NEW n \in Nat
    PROVE  /\ newHSize(n) \in Nat /\ NodeCount(newHSize(n))
           /\ n > 0 => newHSize(n) >= n + 1
<1>1. CASE n = 0
  BY <1>1 DEF newHSize, NodeCount
<1>2. CASE n # 0
  <2> DEFINE sizes == {s \in {Power(b) : b \in 0 .. n} : s >= n + 1}
  <2>1. Power(n) \in sizes
    BY PowerGrows
  <2>2. sizes \in SUBSET Nat
    BY PowerGrows
  <2>3. PICK least \in sizes : \A y \in sizes : least <= y
    <3> HIDE DEF sizes
    <3> QED BY <2>1, <2>2, Least
  <2>4. Min(sizes) \in sizes
    <3> HIDE DEF sizes
    <3> QED BY <2>3 DEF Min
  <2>5. newHSize(n) = Min(sizes)
    BY <1>2 DEF newHSize
  <2>6. PICK b \in 0 .. n : newHSize(n) = Power(b) /\ Power(b) >= n + 1
    BY <2>4, <2>5
  <2>7. Power(b) \in Nat /\ Power(b) >= b + 1
    BY PowerGrows
  <2>8. b \in 0 .. Power(b)
    BY <2>7
  <2>9. NodeCount(newHSize(n))
    BY <2>6, <2>8 DEF NodeCount
  <2> QED BY <2>6, <2>7, <2>9
<1> QED BY <1>1, <1>2

\* The array part of a rehash has some size (bestASize).
LEMMA BestASize ==
    ASSUME NEW slots, NEW extraKey
    PROVE  bestASize(slots, extraKey) \in Nat
<1> DEFINE ints == {k \in {slots[i].key : i \in LiveSlots(slots)} \cup {extraKey} : k \in 1 .. MaxInt}
           sizes == {n \in {Power(b) : b \in 0 .. MaxInt} :
                     /\ n <= MaxArraySize
                     /\ n = 1 \/ \E k \in ints : n \div 2 < k
                     /\ CountUpTo(slots, extraKey, n) > n \div 2}
<1>1. bestASize(slots, extraKey) = IF sizes = {} THEN 0 ELSE Max(sizes)
  BY DEF bestASize
<1>2. sizes \in SUBSET (0 .. MaxArraySize)
  <2>1. \A b \in 0 .. MaxInt : Power(b) \in Nat
    BY PowerGrows
  <2>2. MaxArraySize \in Nat
    BY LimitsAssumption
  <2> QED BY <2>1, <2>2
<1>3. CASE sizes = {}
  BY <1>1, <1>3
<1>4. CASE sizes # {}
  <2> HIDE DEF sizes
  <2>1. Max(sizes) \in sizes
    BY <1>2, <1>4, Greatest, LimitsAssumption
  <2>2. 0 .. MaxArraySize \subseteq Nat
    BY LimitsAssumption
  <2> QED BY <1>1, <1>2, <1>4, <2>1, <2>2
<1> QED BY <1>3, <1>4

----------------------------------------------------------------------------
(* Rehashing *)

\* The slots of a table list its fields, each once.
Lists(t, slots) ==
    /\ Len(slots) \in Nat /\ DOMAIN slots = 1 .. Len(slots)
    /\ \A j \in LiveSlots(slots) :
         slots[j].key \in Keys /\ slots[j].val \in Vals /\ rawGet(t, slots[j].key) = slots[j].val
    /\ \A i, j \in LiveSlots(slots) : slots[i].key = slots[j].key => i = j
    /\ \A q \in Keys : rawGet(t, q) # Nil => \E j \in LiveSlots(slots) : slots[j].key = q

\* The first pass of rehash collects them (rehash).
LEMMA SlotsList ==
    ASSUME NEW h, NEW t, Sound(t, h)
    PROVE  Lists(t, Slots(t))
<1> DEFINE slots == Slots(t)
           a == asize(t)
<1>1. h \in Nat /\ t \in Tables(h) /\ Arranged(t, h)
  BY DEF Sound
<1>2. hsize(t) = h /\ a \in Nat /\ t.array \in Seq(Vals \cup {Nil}) /\ DOMAIN t.array = 1 .. a
  BY <1>1, SizesOf
<1>3. slots = [i \in 1 .. a + h |-> IF i <= a THEN Node(i, t.array[i], -1) ELSE t.node[i - a - 1]]
  BY <1>2 DEF Slots
<1> HIDE DEF slots, a
<1>4. Len(slots) = a + h /\ DOMAIN slots = 1 .. a + h
  <2>1. a + h \in Nat
    BY <1>1, <1>2
  <2> QED BY <1>3, <2>1
<1>5. ASSUME NEW j \in LiveSlots(slots)
      PROVE  \/ j \in 1 .. a /\ slots[j].key = j /\ slots[j].val = t.array[j] /\ j \in Keys
             \/ /\ j - a - 1 \in Numbers(h) /\ slots[j] = t.node[j - a - 1]
                /\ t.node[j - a - 1].key \in Keys /\ t.node[j - a - 1].key \notin 1 .. a
  <2>1. j \in 1 .. a + h /\ slots[j].key # Nil /\ slots[j].val # Nil
    BY <1>4 DEF LiveSlots, Live
  <2>2. CASE j <= a
    <3>1. slots[j].key = j /\ slots[j].val = t.array[j] /\ j \in 1 .. a
      BY <1>1, <1>2, <1>3, <2>1, <2>2 DEF Node
    <3> QED BY <1>1, <2>1, <3>1 DEF Arranged, a
  <2>3. CASE ~ j <= a
    <3>1. slots[j] = t.node[j - a - 1]
      BY <1>1, <1>2, <1>3, <2>1, <2>3
    <3>2. j - a - 1 \in Numbers(h)
      BY <1>1, <1>2, <2>1, <2>3 DEF Numbers
    <3>3. t.node[j - a - 1] \in Entries(h)
      BY <1>1, <3>2 DEF Tables
    <3>4. t.node[j - a - 1].key \in Keys
      BY <2>1, <3>1, <3>3 DEF Entries
    <3>5. t.node[j - a - 1].key \notin 1 .. a
      BY <1>1, <2>1, <3>1, <3>2 DEF Arranged, a
    <3> QED BY <3>1, <3>2, <3>4, <3>5
  <2> QED BY <2>2, <2>3
<1>6. ASSUME NEW j \in LiveSlots(slots)
      PROVE  slots[j].key \in Keys /\ slots[j].val \in Vals /\ rawGet(t, slots[j].key) = slots[j].val
  <2>1. slots[j].key \in Keys /\ rawGet(t, slots[j].key) = slots[j].val
    <3>1. CASE j \in 1 .. a /\ slots[j].key = j /\ slots[j].val = t.array[j] /\ j \in Keys
      BY <3>1, Reads DEF a
    <3>2. CASE j - a - 1 \in Numbers(h) /\ slots[j] = t.node[j - a - 1] /\ t.node[j - a - 1].key \in Keys
      BY <3>2, Reads
    <3> QED BY <1>5, <3>1, <3>2
  <2>2. rawGet(t, slots[j].key) \in Vals \cup {Nil}
    BY <2>1, Reads
  <2>3. slots[j].val # Nil
    BY DEF LiveSlots, Live
  <2> QED BY <2>1, <2>2, <2>3
<1>7. ASSUME NEW i \in LiveSlots(slots), NEW j \in LiveSlots(slots), slots[i].key = slots[j].key
      PROVE  i = j
  <2>1. i \in Int /\ j \in Int
    BY <1>4 DEF LiveSlots
  <2>2. CASE i \in 1 .. a /\ slots[i].key = i
    <3>1. slots[j].key = j
      BY <1>5, <1>7, <2>2
    <3> QED BY <1>7, <2>2, <3>1
  <2>3. CASE /\ i - a - 1 \in Numbers(h) /\ slots[i] = t.node[i - a - 1]
             /\ t.node[i - a - 1].key \in Keys /\ t.node[i - a - 1].key \notin 1 .. a
    <3>1. /\ j - a - 1 \in Numbers(h) /\ slots[j] = t.node[j - a - 1]
      BY <1>5, <1>7, <2>3
    <3>2. i - a - 1 = j - a - 1
      BY <1>1, <1>7, <2>3, <3>1, NilIsNoKey DEF Arranged
    <3> QED BY <1>2, <2>1, <3>2
  <2> QED BY <1>5, <2>2, <2>3
<1>8. ASSUME NEW q \in Keys, rawGet(t, q) # Nil PROVE \E j \in LiveSlots(slots) : slots[j].key = q
  <2>1. CASE q \in 1 .. a
    <3>1. rawGet(t, q) = t.array[q] /\ q # Nil
      BY <2>1, Reads, NilIsNoKey DEF a
    <3>2. q \in 1 .. a + h /\ q <= a
      BY <1>1, <1>2, <2>1
    <3>3. slots[q].key = q /\ slots[q].val = t.array[q]
      BY <1>3, <3>2 DEF Node
    <3> QED BY <1>4, <1>8, <3>1, <3>2, <3>3 DEF LiveSlots, Live
  <2>2. CASE q \notin 1 .. a
    <3>1. PICK i \in Numbers(h) : t.node[i].key = q
      BY <1>8, <2>2, Reads DEF a
    <3>2. rawGet(t, q) = t.node[i].val /\ q # Nil
      BY <3>1, Reads, NilIsNoKey
    <3>3. i + a + 1 \in 1 .. a + h /\ ~ i + a + 1 <= a /\ (i + a + 1) - a - 1 = i
      BY <1>1, <1>2 DEF Numbers
    <3>4. slots[i + a + 1] = t.node[i]
      BY <1>3, <3>3
    <3> QED BY <1>4, <1>8, <3>1, <3>2, <3>3, <3>4 DEF LiveSlots, Live
  <2> QED BY <2>1, <2>2
<1>9. Len(slots) \in Nat
  BY <1>1, <1>2, <1>4
<1> QED BY <1>4, <1>6, <1>7, <1>8, <1>9 DEF Lists, slots

\* One slot after the other (rehash).
Refills(put, slots, fresh) ==
    put = [i \in 0 .. Len(slots) |->
              IF i = 0 THEN fresh
              ELSE IF Live(slots[i]) THEN Store(put[i - 1], slots[i].key, slots[i].val) ELSE put[i - 1]]

\* The second pass of rehash goes through the slots in order (rehash).
LEMMA RefillSteps ==
    ASSUME NEW slots, NEW fresh, Len(slots) \in Nat
    PROVE  \E put : Refilled(slots, fresh) = put[Len(slots)] /\ Refills(put, slots, fresh)
<1> DEFINE runs(f, m) == f = [i \in 0 .. m |->
                IF i = 0 THEN fresh
                ELSE IF Live(slots[i]) THEN Store(f[i - 1], slots[i].key, slots[i].val) ELSE f[i - 1]]
           bad == {m \in Nat : ~ \E f : runs(f, m)}
<1>1. bad = {}
  <2> SUFFICES ASSUME bad # {} PROVE FALSE
    OBVIOUS
  <2>1. PICK m \in bad : \A x \in bad : m <= x
    <3>1. bad \in SUBSET Nat
      OBVIOUS
    <3> HIDE DEF bad
    <3> QED BY <3>1, Least
  <2>2. m \in Nat /\ ~ \E f : runs(f, m)
    OBVIOUS
  <2>3. m # 0
    <3> SUFFICES ASSUME m = 0 PROVE FALSE
      OBVIOUS
    <3> DEFINE f == [i \in 0 .. 0 |-> fresh]
    <3>1. runs(f, 0)
      OBVIOUS
    <3> HIDE DEF runs, f
    <3> QED BY <2>2, <3>1
  <2>4. m - 1 \in Nat /\ ~ m <= m - 1
    BY <2>2, <2>3
  <2>5. m - 1 \notin bad
    <3> HIDE DEF bad
    <3> QED BY <2>1, <2>4
  <2>6. PICK f : runs(f, m - 1)
    <3> HIDE DEF runs
    <3> QED BY <2>4, <2>5
  <2> DEFINE next(x, i) == IF Live(slots[i]) THEN Store(x, slots[i].key, slots[i].val) ELSE x
             g == [i \in 0 .. m |-> IF i < m THEN f[i] ELSE next(f[m - 1], m)]
  <2>7. \A i \in 0 .. m : g[i] = IF i = 0 THEN fresh ELSE next(g[i - 1], i)
    <3> SUFFICES ASSUME NEW i \in 0 .. m PROVE g[i] = IF i = 0 THEN fresh ELSE next(g[i - 1], i)
      OBVIOUS
    <3>0. f = [j \in 0 .. m - 1 |-> IF j = 0 THEN fresh ELSE next(f[j - 1], j)]
      BY <2>6
    <3> HIDE DEF next
    <3>1. CASE i = 0
      <4>1. 0 \in 0 .. m - 1 /\ 0 \in 0 .. m /\ 0 < m
        BY <2>2, <2>3
      <4>2. f[0] = fresh
        BY <3>0, <4>1
      <4> QED BY <3>1, <4>1, <4>2
    <3>2. CASE i # 0 /\ i < m
      <4>1. i \in 0 .. m - 1 /\ i - 1 \in 0 .. m /\ i - 1 < m /\ i \in 0 .. m
        BY <2>2, <3>2
      <4>2. f[i] = next(f[i - 1], i)
        BY <3>0, <3>2, <4>1
      <4>3. g[i] = f[i] /\ g[i - 1] = f[i - 1]
        BY <3>2, <4>1
      <4> QED BY <3>2, <4>2, <4>3
    <3>3. CASE i = m
      <4>1. m \in 0 .. m /\ m - 1 \in 0 .. m /\ m - 1 < m /\ ~ m < m
        BY <2>2, <2>3
      <4>2. g[m] = next(f[m - 1], m) /\ g[m - 1] = f[m - 1]
        BY <4>1
      <4> QED BY <2>3, <3>3, <4>2
    <3>4. i < m \/ i = m
      BY <2>2
    <3> HIDE DEF g
    <3> QED BY <3>1, <3>2, <3>3, <3>4
  <2>8. g = [i \in 0 .. m |-> IF i = 0 THEN fresh ELSE next(g[i - 1], i)]
    <3>1. g = [i \in 0 .. m |-> g[i]]
      OBVIOUS
    <3> HIDE DEF g, next
    <3> QED BY <2>7, <3>1
  <2>9. runs(g, m)
    <3> HIDE DEF g
    <3> QED BY <2>8
  <2> HIDE DEF runs, g
  <2> QED BY <2>2, <2>9
<1>2. \E f : runs(f, Len(slots))
  <2> HIDE DEF runs
  <2> QED BY <1>1
<1> DEFINE put == CHOOSE f : runs(f, Len(slots))
<1>3. runs(put, Len(slots))
  <2> HIDE DEF runs
  <2> QED BY <1>2
<1>4. Refilled(slots, fresh) = put[Len(slots)]
  BY DEF Refilled
<1>5. Refills(put, slots, fresh)
  <2> HIDE DEF put
  <2> QED BY <1>3 DEF Refills
<1> QED BY <1>4, <1>5

\* Where the keys of the nodes are fewer than the nodes, there is room
\* (insertNewKey).
LEMMA RoomFor ==
    ASSUME NEW h, NEW p, Sound(p, h), Compact(p, h), NEW k \in Keys,
           NEW S, NEW slots, IsFiniteSet(S), h > Cardinality(S),
           \A n \in Numbers(h) : p.node[n].key # Nil => \E j \in S : slots[j].key = p.node[n].key
    PROVE  HasRoom(p, k)
<1>1. h \in Nat /\ p \in Tables(h) /\ Arranged(p, h)
  BY DEF Sound
<1>2. Cardinality(S) \in Nat
  BY FS_CardinalityType
<1>3. \E n \in Numbers(h) : p.node[n].key = Nil
  <2> SUFFICES ASSUME \A n \in Numbers(h) : p.node[n].key # Nil PROVE FALSE
    OBVIOUS
  <2> DEFINE f == [n \in Numbers(h) |-> CHOOSE j \in S : slots[j].key = p.node[n].key]
  <2>1. \A n \in Numbers(h) : f[n] \in S /\ slots[f[n]].key = p.node[n].key
    OBVIOUS
  <2>2. f \in [Numbers(h) -> S]
    BY <2>1
  <2> HIDE DEF f
  <2>3. \A i, j \in Numbers(h) : f[i] = f[j] => i = j
    BY <1>1, <2>1 DEF Arranged
  <2>4. f \in Injection(Numbers(h), S)
    BY <2>2, <2>3 DEF Injection, IsInjective
  <2>5. Cardinality(Numbers(h)) <= Cardinality(S)
    BY <2>4, FS_Injection
  <2>6. Cardinality(Numbers(h)) = h
    BY <1>1, SizesOf DEF hsize
  <2> QED BY <1>1, <1>2, <2>5, <2>6
<1>4. findFreeNode(p) # -1
  <2>1. PICK n \in Numbers(h) : p.node[n].key = Nil
    BY <1>3
  <2>2. n < p.lastfree /\ Empty(p.node[n])
    BY <2>1 DEF Compact
  <2> QED BY <1>1, <2>1, <2>2, FreeNode
<1>5. hsize(p) = h /\ h > 0
  BY <1>1, <1>2, SizesOf
<1> QED BY <1>4, <1>5 DEF HasRoom

\* The generation n changes later.
Ahead(g, n) == IF g + n < GenSize THEN g + n ELSE g + n - GenSize

\* One change is one step, and fewer than GenSize steps do not lead back
\* (BumpGen).
LEMMA AheadSteps ==
    ASSUME NEW g \in 0 .. GenSize - 1, NEW n \in Nat, n < GenSize
    PROVE  /\ (g + 1) % GenSize = Ahead(g, 1)
           /\ Ahead(g, n) \in 0 .. GenSize - 1
           /\ Ahead(Ahead(g, n), 1) = Ahead(g, n + 1)
           /\ n > 0 => Ahead(g, n) # g
<1>1. GenSize \in Nat /\ GenSize > 0
  BY LimitsAssumption
<1>2. (g + 1) % GenSize = Ahead(g, 1)
  <2>1. CASE g + 1 < GenSize
    BY <1>1, <2>1 DEF Ahead
  <2>2. CASE g + 1 = GenSize
    BY <1>1, <2>2 DEF Ahead
  <2> QED BY <1>1, <2>1, <2>2
<1>3. Ahead(g, n) \in 0 .. GenSize - 1 /\ (n > 0 => Ahead(g, n) # g)
  BY <1>1 DEF Ahead
<1>4. Ahead(Ahead(g, n), 1) = Ahead(g, n + 1)
  BY <1>1 DEF Ahead
<1> QED BY <1>2, <1>3, <1>4

\* An empty layout is sound (AllocTable).
LEMMA LayoutIsSound ==
    ASSUME NEW a \in Nat, NEW h \in Nat, NEW lastfree \in 0 .. h, NEW gen \in 0 .. GenSize - 1
    PROVE  LET t == Layout(a, h, lastfree, gen)
           IN  /\ Sound(t, h) /\ asize(t) = a /\ t.gen = gen
               /\ lastfree = h => Compact(t, h)
               /\ \A q \in Keys : rawGet(t, q) = Nil
<1> DEFINE t == Layout(a, h, lastfree, gen)
<1>1. t = [array |-> [i \in 1 .. a |-> Nil], node |-> [i \in Numbers(h) |-> EmptyNode],
           lastfree |-> lastfree, gen |-> gen]
  BY DEF Layout, Numbers
<1> HIDE DEF t
<1>2. t.array = [i \in 1 .. a |-> Nil] /\ t.array \in Seq(Vals \cup {Nil}) /\ Len(t.array) = a
  BY <1>1
<1>3. EmptyNode \in Entries(h) /\ EmptyNode.key = Nil /\ EmptyNode.val = Nil /\ EmptyNode.next = -1
  BY DEF EmptyNode, Node, Entries
<1>4. t.node = [i \in Numbers(h) |-> EmptyNode] /\ \A i \in Numbers(h) : t.node[i] = EmptyNode
  BY <1>1
<1>5. t \in Tables(h)
  BY <1>1, <1>2, <1>3, <1>4 DEF Tables
<1>6. asize(t) = a
  BY <1>2 DEF asize
<1>7. Arranged(t, h)
  BY <1>2, <1>3, <1>4, <1>6 DEF Arranged
<1>8. Chained(t, h, [i \in Numbers(h) |-> i], [i \in Numbers(h) |-> 0])
  BY <1>3, <1>4 DEF Chained, Numbers
<1>9. Sound(t, h)
  BY <1>5, <1>7, <1>8 DEF Sound
<1>10. \A q \in Keys : rawGet(t, q) = Nil
  <2> SUFFICES ASSUME NEW q \in Keys PROVE rawGet(t, q) = Nil
    OBVIOUS
  <2>1. \A i \in Numbers(h) : t.node[i].key # q
    BY <1>3, <1>4, NilIsNoKey
  <2>2. CASE q \in 1 .. a
    BY <1>2, <1>6, <1>9, <2>2, Reads
  <2>3. CASE q \notin 1 .. a
    BY <1>6, <1>9, <2>1, <2>3, Reads
  <2> QED BY <2>2, <2>3
<1>11. ASSUME lastfree = h PROVE Compact(t, h)
  <2>1. \A i \in Numbers(h) : i < h
    BY DEF Numbers
  <2>2. t.lastfree = h
    BY <1>1, <1>11
  <2>3. Empty(EmptyNode)
    BY <1>3 DEF Empty
  <2> QED BY <1>4, <2>1, <2>2, <2>3 DEF Compact
<1>12. t.gen = gen
  BY <1>1
<1> QED BY <1>6, <1>9, <1>10, <1>11, <1>12 DEF t

\* The live slots up to number i, and those of them that the hash part of p holds.
UpTo(slots, i) == {j \in LiveSlots(slots) : j <= i}
Hashing(slots, best) == {j \in LiveSlots(slots) : slots[j].key \notin 1 .. best}

\* The table p, with h nodes, after the slots up to number i have been put back.
Filled(slots, p, h, best, i) ==
    /\ Sound(p, h) /\ Compact(p, h) /\ asize(p) = best
    /\ \A j \in UpTo(slots, i) : rawGet(p, slots[j].key) = slots[j].val
    /\ \A q \in Keys : (\A j \in UpTo(slots, i) : slots[j].key # q) => rawGet(p, q) = Nil

\* Every node of that table holds the key of a slot put back (rehash).
LEMMA NodesFromSlots ==
    ASSUME NEW t, NEW slots, NEW p, NEW h, NEW best, NEW i, Lists(t, slots), Filled(slots, p, h, best, i),
           NEW n \in Numbers(h), p.node[n].key # Nil
    PROVE  \E j \in Hashing(slots, best) \cap UpTo(slots, i) : slots[j].key = p.node[n].key
<1>1. p \in Tables(h) /\ Arranged(p, h)
  BY DEF Filled, Sound
<1>2. p.node[n].key \in Keys
  BY <1>1 DEF Tables, Entries
<1>3. rawGet(p, p.node[n].key) = p.node[n].val /\ p.node[n].val # Nil
  BY <1>1, <1>2, Reads DEF Filled, Arranged
<1>4. PICK j \in UpTo(slots, i) : slots[j].key = p.node[n].key
  BY <1>2, <1>3 DEF Filled
<1>5. slots[j].key \notin 1 .. best
  BY <1>1, <1>4 DEF Arranged, Filled
<1> QED BY <1>4, <1>5 DEF Hashing, UpTo

\* The next slot finds room, as long as the hash part has more nodes than there
\* are keys for it (rehash).
LEMMA FillStep ==
    ASSUME NEW t, NEW slots, NEW p, NEW h, NEW best, NEW i \in 1 .. Len(slots),
           Lists(t, slots), Filled(slots, p, h, best, i - 1),
           IsFiniteSet(Hashing(slots, best)),
           Hashing(slots, best) # {} => h > Cardinality(Hashing(slots, best))
    PROVE  LET u == IF Live(slots[i]) THEN Store(p, slots[i].key, slots[i].val) ELSE p
           IN  Filled(slots, u, h, best, i) /\ (u = p \/ (Live(slots[i]) /\ Warned(p, u, h)))
<1> DEFINE k == slots[i].key
           v == slots[i].val
<1>0. DOMAIN slots = 1 .. Len(slots) /\ Len(slots) \in Nat
  BY DEF Lists
<1>1. CASE ~ Live(slots[i])
  <2>1. UpTo(slots, i) = UpTo(slots, i - 1)
    <3>1. i \notin LiveSlots(slots) /\ \A j \in LiveSlots(slots) : j \in Int
      BY <1>0, <1>1 DEF LiveSlots
    <3>2. \A j \in LiveSlots(slots) : j <= i <=> j <= i - 1
      BY <3>1
    <3> QED BY <3>2 DEF UpTo
  <2> QED BY <1>1, <2>1 DEF Filled
<1>2. CASE Live(slots[i])
  <2>1. i \in LiveSlots(slots)
    BY <1>0, <1>2 DEF LiveSlots
  <2>2. k \in Keys /\ v \in Vals /\ v # Nil
    BY <2>1, NilIsNoKey DEF Lists
  <2>3. \A j \in LiveSlots(slots) : j \in Int /\ (j <= i <=> j = i \/ j <= i - 1)
    BY <1>0 DEF LiveSlots
  <2>4. UpTo(slots, i) = UpTo(slots, i - 1) \cup {i} /\ i \notin UpTo(slots, i - 1)
    <3>1. ~ i <= i - 1
      OBVIOUS
    <3>2. \A j : j \in UpTo(slots, i) <=> j \in LiveSlots(slots) /\ j <= i
      BY DEF UpTo
    <3>3. \A j : j \in UpTo(slots, i - 1) <=> j \in LiveSlots(slots) /\ j <= i - 1
      BY DEF UpTo
    <3>4. \A j : j \in UpTo(slots, i) <=> j \in UpTo(slots, i - 1) \/ j = i
      BY <2>1, <2>3, <3>2, <3>3
    <3> QED BY <3>1, <3>3, <3>4
  <2>5. Fits(p, k, v)
    <3>1. CASE k \in 1 .. best
      BY <3>1 DEF Fits, arrayIndex, Filled
    <3>2. CASE k \notin 1 .. best
      <4> DEFINE S == Hashing(slots, best) \ {i}
      <4>1. i \in Hashing(slots, best)
        BY <2>1, <3>2 DEF Hashing
      <4>2. IsFiniteSet(S) /\ Cardinality(S) = Cardinality(Hashing(slots, best)) - 1
        BY <4>1, FS_RemoveElement
      <4>3. h > Cardinality(Hashing(slots, best)) /\ h \in Nat
            /\ Cardinality(Hashing(slots, best)) \in Nat
        BY <4>1, FS_CardinalityType DEF Filled, Sound
      <4>4. h > Cardinality(S)
        BY <4>2, <4>3
      <4>5. \A n \in Numbers(h) :
              p.node[n].key # Nil => \E j \in S : slots[j].key = p.node[n].key
        BY <2>4, NodesFromSlots
      <4> HIDE DEF S, k
      <4>6. HasRoom(p, k)
        BY <2>2, <4>2, <4>4, <4>5, RoomFor DEF Filled
      <4> QED BY <4>6 DEF Fits
    <3> QED BY <3>1, <3>2
  <2> DEFINE u == Store(p, k, v)
  <2>6. Stored(p, u, h, k, v)
    BY <2>2, <2>5, StoreSound DEF Filled
  <2> HIDE DEF u
  <2>7. Sound(u, h) /\ Compact(u, h) /\ asize(u) = best /\ Becomes(p, u, k, v) /\ Warned(p, u, h)
    BY <2>2, <2>6 DEF Stored, Filled
  <2>8. ASSUME NEW j \in UpTo(slots, i) PROVE rawGet(u, slots[j].key) = slots[j].val
    <3>1. slots[j].key \in Keys
      BY DEF UpTo, Lists
    <3>2. CASE j = i
      BY <2>2, <2>7, <3>2 DEF Becomes
    <3>3. CASE j # i
      <4>1. j \in UpTo(slots, i - 1)
        BY <2>4, <3>3
      <4>2. slots[j].key # k
        BY <2>1, <3>3 DEF UpTo, Lists
      <4> QED BY <2>7, <3>1, <4>1, <4>2 DEF Becomes, Filled
    <3> QED BY <3>2, <3>3
  <2>9. ASSUME NEW q \in Keys, \A j \in UpTo(slots, i) : slots[j].key # q PROVE rawGet(u, q) = Nil
    <3>1. q # k /\ \A j \in UpTo(slots, i - 1) : slots[j].key # q
      BY <2>4, <2>9
    <3> QED BY <2>7, <3>1 DEF Becomes, Filled
  <2> QED BY <1>2, <2>7, <2>8, <2>9 DEF Filled, u
<1> QED BY <1>1, <1>2

\* All slots, from an empty layout that is large enough (rehash).
LEMMA FillAll ==
    ASSUME NEW t, NEW slots, NEW put, NEW fresh, NEW h, NEW best,
           Lists(t, slots), Refills(put, slots, fresh), Filled(slots, fresh, h, best, 0),
           IsFiniteSet(Hashing(slots, best)),
           Hashing(slots, best) # {} => h > Cardinality(Hashing(slots, best))
    PROVE  \A i \in 0 .. Len(slots) : Filled(slots, put[i], h, best, i)
<1> DEFINE bad == {i \in 0 .. Len(slots) : ~ Filled(slots, put[i], h, best, i)}
<1> SUFFICES ASSUME bad # {} PROVE FALSE
  OBVIOUS
<1>0. Len(slots) \in Nat
  BY DEF Lists
<1>1. PICK m \in bad : \A x \in bad : m <= x
  <2>1. bad \in SUBSET Nat
    BY <1>0
  <2> HIDE DEF bad
  <2> QED BY <2>1, Least
<1>2. m \in 0 .. Len(slots) /\ ~ Filled(slots, put[m], h, best, m)
  OBVIOUS
<1>3. \A i \in 0 .. Len(slots) :
         put[i] = IF i = 0 THEN fresh
                  ELSE IF Live(slots[i]) THEN Store(put[i - 1], slots[i].key, slots[i].val) ELSE put[i - 1]
  BY DEF Refills
<1>4. m # 0
  BY <1>2, <1>3
<1>5. m - 1 \in 0 .. Len(slots) /\ ~ m <= m - 1 /\ m \in 1 .. Len(slots)
  BY <1>0, <1>2, <1>4
<1>6. Filled(slots, put[m - 1], h, best, m - 1)
  <2>1. m - 1 \notin bad
    <3> HIDE DEF bad
    <3> QED BY <1>1, <1>5
  <2> QED BY <1>5, <2>1
<1>7. put[m] = IF Live(slots[m]) THEN Store(put[m - 1], slots[m].key, slots[m].val) ELSE put[m - 1]
  BY <1>2, <1>3, <1>4
<1> HIDE DEF bad
<1>8. Filled(slots, put[m], h, best, m)
  BY <1>5, <1>6, <1>7, FillStep
<1> QED BY <1>2, <1>8

\* One generation for the new layout, and at most one for each slot put back.
Advances(slots, put, g) ==
    \A i \in 0 .. Len(slots) : \E b \in 1 .. Cardinality(UpTo(slots, i)) + 1 : put[i].gen = Ahead(g, b)

\* While slots are put back, each one moves the generation by one at most (rehash).
LEMMA FillGen ==
    ASSUME NEW t, NEW slots, NEW put, NEW fresh, NEW h, NEW best, NEW g \in 0 .. GenSize - 1,
           Lists(t, slots), Refills(put, slots, fresh), Filled(slots, fresh, h, best, 0),
           IsFiniteSet(LiveSlots(slots)), IsFiniteSet(Hashing(slots, best)),
           Hashing(slots, best) # {} => h > Cardinality(Hashing(slots, best)),
           fresh.gen = Ahead(g, 1), Cardinality(LiveSlots(slots)) + 1 < GenSize
    PROVE  Advances(slots, put, g)
<1> DEFINE ok(i) == \E b \in 1 .. Cardinality(UpTo(slots, i)) + 1 : put[i].gen = Ahead(g, b)
           bad == {i \in 0 .. Len(slots) : ~ ok(i)}
<1> SUFFICES ASSUME bad # {} PROVE FALSE
  BY DEF Advances
<1>0. Len(slots) \in Nat /\ DOMAIN slots = 1 .. Len(slots)
  BY DEF Lists
<1>1. PICK m \in bad : \A x \in bad : m <= x
  <2>1. bad \in SUBSET Nat
    BY <1>0
  <2> HIDE DEF bad
  <2> QED BY <2>1, Least
<1>2. m \in 0 .. Len(slots) /\ ~ ok(m)
  OBVIOUS
<1>3. \A i \in 0 .. Len(slots) :
         put[i] = IF i = 0 THEN fresh
                  ELSE IF Live(slots[i]) THEN Store(put[i - 1], slots[i].key, slots[i].val) ELSE put[i - 1]
  BY DEF Refills
<1>4. \A i \in 0 .. Len(slots) :
         /\ IsFiniteSet(UpTo(slots, i)) /\ Cardinality(UpTo(slots, i)) \in Nat
         /\ Cardinality(UpTo(slots, i)) <= Cardinality(LiveSlots(slots))
  <2> SUFFICES ASSUME NEW i \in 0 .. Len(slots)
               PROVE /\ IsFiniteSet(UpTo(slots, i)) /\ Cardinality(UpTo(slots, i)) \in Nat
                     /\ Cardinality(UpTo(slots, i)) <= Cardinality(LiveSlots(slots))
    OBVIOUS
  <2>1. UpTo(slots, i) \in SUBSET LiveSlots(slots)
    BY DEF UpTo
  <2>2. IsFiniteSet(UpTo(slots, i)) /\ Cardinality(UpTo(slots, i)) <= Cardinality(LiveSlots(slots))
    BY <2>1, FS_Subset
  <2>3. Cardinality(UpTo(slots, i)) \in Nat
    BY <2>2, FS_CardinalityType
  <2> QED BY <2>2, <2>3
<1>5. m # 0
  <2> SUFFICES ASSUME m = 0 PROVE FALSE
    OBVIOUS
  <2>1. put[0].gen = Ahead(g, 1)
    BY <1>2, <1>3
  <2>2. 1 \in 1 .. Cardinality(UpTo(slots, 0)) + 1
    BY <1>2, <1>4
  <2> QED BY <1>2, <2>1, <2>2
<1>6. m - 1 \in 0 .. Len(slots) /\ ~ m <= m - 1 /\ m \in 1 .. Len(slots)
  BY <1>0, <1>2, <1>5
<1>7. ok(m - 1)
  <2>1. m - 1 \notin bad
    <3> HIDE DEF bad
    <3> QED BY <1>1, <1>6
  <2> QED BY <1>6, <2>1
<1>8. put[m] = IF Live(slots[m]) THEN Store(put[m - 1], slots[m].key, slots[m].val) ELSE put[m - 1]
  BY <1>2, <1>3, <1>5
<1>9. PICK b \in 1 .. Cardinality(UpTo(slots, m - 1)) + 1 : put[m - 1].gen = Ahead(g, b)
  BY <1>7
<1> HIDE DEF bad, ok
<1>10. Filled(slots, put[m - 1], h, best, m - 1)
  BY <1>6, FillAll
<1>11. put[m] = put[m - 1] \/ (Live(slots[m]) /\ Warned(put[m - 1], put[m], h))
  BY <1>6, <1>8, <1>10, FillStep
<1>12. UpTo(slots, m - 1) \in SUBSET UpTo(slots, m)
  <2>1. \A j \in LiveSlots(slots) : j \in Int
    BY <1>0 DEF LiveSlots
  <2> QED BY <1>6, <2>1 DEF UpTo
<1>13. Cardinality(UpTo(slots, m - 1)) <= Cardinality(UpTo(slots, m))
  BY <1>2, <1>4, <1>12, FS_Subset
<1>14. CASE put[m].gen = put[m - 1].gen
  <2>1. b \in 1 .. Cardinality(UpTo(slots, m)) + 1
    BY <1>2, <1>4, <1>6, <1>13
  <2> QED BY <1>2, <1>9, <1>14, <2>1 DEF ok
<1>15. CASE Live(slots[m]) /\ put[m].gen = (put[m - 1].gen + 1) % GenSize
  <2>1. UpTo(slots, m) = UpTo(slots, m - 1) \cup {m} /\ m \notin UpTo(slots, m - 1)
    <3>1. m \in LiveSlots(slots)
      BY <1>0, <1>6, <1>15 DEF LiveSlots
    <3>2. \A j \in LiveSlots(slots) : j \in Int
      BY <1>0 DEF LiveSlots
    <3>3. \A j : j \in UpTo(slots, m) <=> j \in LiveSlots(slots) /\ j <= m
      BY DEF UpTo
    <3>4. \A j : j \in UpTo(slots, m - 1) <=> j \in LiveSlots(slots) /\ j <= m - 1
      BY DEF UpTo
    <3>5. \A j \in LiveSlots(slots) : j <= m <=> j = m \/ j <= m - 1
      BY <1>2, <3>2
    <3>6. \A j : j \in UpTo(slots, m) <=> j \in UpTo(slots, m - 1) \/ j = m
      BY <3>1, <3>3, <3>4, <3>5
    <3> QED BY <1>6, <3>4, <3>6
  <2>2. Cardinality(UpTo(slots, m)) = Cardinality(UpTo(slots, m - 1)) + 1
    BY <1>4, <1>6, <2>1, FS_AddElement
  <2>3. b + 1 \in 1 .. Cardinality(UpTo(slots, m)) + 1 /\ b \in Nat /\ b < GenSize
    <3>1. /\ Cardinality(UpTo(slots, m)) \in Nat /\ Cardinality(UpTo(slots, m - 1)) \in Nat
          /\ Cardinality(UpTo(slots, m - 1)) <= Cardinality(LiveSlots(slots))
          /\ Cardinality(LiveSlots(slots)) \in Nat /\ GenSize \in Nat
      BY <1>2, <1>4, <1>6, FS_CardinalityType, LimitsAssumption
    <3> QED BY <2>2, <3>1
  <2>4. Ahead(g, b) \in 0 .. GenSize - 1 /\ Ahead(Ahead(g, b), 1) = Ahead(g, b + 1)
    BY <2>3, AheadSteps
  <2>5. (Ahead(g, b) + 1) % GenSize = Ahead(Ahead(g, b), 1)
    <3>1. 0 < GenSize /\ 0 \in Nat
      BY LimitsAssumption
    <3> QED BY <2>4, <3>1, AheadSteps
  <2>6. put[m].gen = Ahead(g, b + 1)
    BY <1>9, <1>15, <2>4, <2>5
  <2> QED BY <1>2, <2>3, <2>6 DEF ok
<1> QED BY <1>11, <1>14, <1>15 DEF Warned

\* A rehash keeps the fields and makes room for the key it was called for; its
\* generation differs unless there are as many keys as generations (rehash).
LEMMA RehashSound ==
    ASSUME NEW h, NEW t, Sound(t, h), NEW k \in Keys
    PROVE  LET u == rehash(t, k)
           IN  /\ \E h2 : Sound(u, h2) /\ NodeCount(h2)
               /\ \A q \in Keys : rawGet(u, q) = rawGet(t, q)
               /\ arrayIndex(u, k) \/ HasRoom(u, k)
               /\ IsFiniteSet(Keys) /\ Cardinality(Keys) + 2 < GenSize =>
                     \E b \in 1 .. Cardinality(Keys) + 1 : u.gen = Ahead(t.gen, b)
<1> DEFINE slots == Slots(t)
           best == bestASize(slots, k)
           L == LiveSlots(slots)
           A == {i \in L : slots[i].key \in 1 .. best}
           B == Hashing(slots, best)
           rest == Cardinality(L) + 1 - CountUpTo(slots, k, best)
           hs == newHSize(rest)
           fresh == BumpGen(Layout(best, hs, hs, t.gen))
           u == rehash(t, k)
<1>1. h \in Nat /\ t \in Tables(h) /\ t.gen \in 0 .. GenSize - 1
  BY DEF Sound, Tables
<1>2. u = Refilled(slots, fresh)
  BY DEF rehash
<1>3. Lists(t, slots) /\ best \in Nat
  BY SlotsList, BestASize
<1> HIDE DEF slots, u, best
<1>4. IsFiniteSet(L) /\ Cardinality(L) \in Nat
  <2>1. IsFiniteSet(1 .. Len(slots))
    BY <1>3, FS_Interval DEF Lists
  <2>2. L \in SUBSET (1 .. Len(slots))
    BY <1>3 DEF Lists, LiveSlots
  <2> QED BY <2>1, <2>2, FS_Subset, FS_CardinalityType
<1>5. IsFiniteSet(A) /\ Cardinality(A) \in Nat /\ IsFiniteSet(B) /\ Cardinality(B) \in Nat
      /\ Cardinality(B) = Cardinality(L) - Cardinality(A)
  <2>1. A \in SUBSET L /\ B = L \ A /\ L \cap A = A
    BY DEF Hashing
  <2> HIDE DEF A, B, L
  <2>2. IsFiniteSet(A) /\ IsFiniteSet(L \ A) /\ Cardinality(L \ A) = Cardinality(L) - Cardinality(L \cap A)
    BY <1>4, <2>1, FS_Subset, FS_Difference
  <2> QED BY <2>1, <2>2, FS_CardinalityType
<1>6. CountUpTo(slots, k, best) = Cardinality(A) + IF k \in 1 .. best THEN 1 ELSE 0
  BY DEF CountUpTo
<1>7. rest \in Nat /\ rest = Cardinality(B) + IF k \in 1 .. best THEN 0 ELSE 1
  <2> HIDE DEF A, B, L
  <2> QED BY <1>4, <1>5, <1>6
<1>8. hs \in Nat /\ NodeCount(hs) /\ (rest > 0 => hs >= rest + 1)
  <2> HIDE DEF rest
  <2> QED BY <1>7, NewHSize
<1>9. B # {} => Cardinality(B) > 0
  <2> HIDE DEF B
  <2>1. Cardinality(B) = 0 <=> B = {}
    BY <1>5, FS_EmptySet
  <2> QED BY <1>5, <2>1
<1>10. (B # {} => hs > Cardinality(B)) /\ (k \notin 1 .. best => hs > Cardinality(B))
  <2> HIDE DEF B, rest, hs
  <2> QED BY <1>5, <1>7, <1>8, <1>9
<1> HIDE DEF rest, hs, A
<1>11. /\ fresh = Layout(best, hs, hs, (t.gen + 1) % GenSize)
       /\ (t.gen + 1) % GenSize \in 0 .. GenSize - 1
       /\ fresh.gen = Ahead(t.gen, 1)
  <2>1. fresh = Layout(best, hs, hs, (t.gen + 1) % GenSize)
    <3> DEFINE arr == [i \in 1 .. best |-> Nil]
               nodes == [i \in 0 .. hs - 1 |-> EmptyNode]
    <3>1. \A g : Layout(best, hs, hs, g) = [array |-> arr, node |-> nodes, lastfree |-> hs, gen |-> g]
      BY DEF Layout
    <3> HIDE DEF arr, nodes
    <3> QED BY <3>1 DEF BumpGen
  <2>2. (t.gen + 1) % GenSize \in 0 .. GenSize - 1
    BY <1>1, BumpTyped
  <2>3. fresh.gen = (t.gen + 1) % GenSize
    BY <2>1 DEF Layout
  <2>4. 0 < GenSize /\ 0 \in Nat
    BY LimitsAssumption
  <2>5. (t.gen + 1) % GenSize = Ahead(t.gen, 1)
    BY <1>1, <2>4, AheadSteps
  <2> QED BY <2>1, <2>2, <2>3, <2>5
<1> HIDE DEF fresh
<1>12. Filled(slots, fresh, hs, best, 0)
  <2>1. hs \in 0 .. hs
    BY <1>8
  <2>2. Sound(fresh, hs) /\ asize(fresh) = best /\ Compact(fresh, hs) /\ \A q \in Keys : rawGet(fresh, q) = Nil
    BY <1>3, <1>8, <1>11, <2>1, LayoutIsSound
  <2>3. UpTo(slots, 0) = {}
    BY <1>3 DEF UpTo, LiveSlots, Lists
  <2> QED BY <2>2, <2>3 DEF Filled
<1>13. Len(slots) \in Nat
  BY <1>3 DEF Lists
<1>14. PICK put : u = put[Len(slots)] /\ Refills(put, slots, fresh)
  BY <1>2, <1>13, RefillSteps
<1> HIDE DEF B
<1>15. Filled(slots, u, hs, best, Len(slots))
  <2>1. Len(slots) \in 0 .. Len(slots)
    BY <1>13
  <2>2. \A i \in 0 .. Len(slots) : Filled(slots, put[i], hs, best, i)
    BY <1>3, <1>5, <1>10, <1>12, <1>14, FillAll DEF B
  <2> QED BY <1>14, <2>1, <2>2
<1>16. UpTo(slots, Len(slots)) = L
  BY <1>3 DEF UpTo, LiveSlots, Lists
<1>17. \A q \in Keys : rawGet(u, q) = rawGet(t, q)
  <2> SUFFICES ASSUME NEW q \in Keys PROVE rawGet(u, q) = rawGet(t, q)
    OBVIOUS
  <2>1. CASE \E j \in L : slots[j].key = q
    BY <1>3, <1>15, <1>16, <2>1 DEF Filled, Lists
  <2>2. CASE \A j \in L : slots[j].key # q
    BY <1>3, <1>15, <1>16, <2>2 DEF Filled, Lists
  <2> QED BY <2>1, <2>2
<1>18. arrayIndex(u, k) \/ HasRoom(u, k)
  <2>1. CASE k \in 1 .. best
    BY <1>15, <2>1 DEF arrayIndex, Filled
  <2>2. CASE k \notin 1 .. best
    <3>1. \A n \in Numbers(hs) :
            u.node[n].key # Nil => \E j \in B : slots[j].key = u.node[n].key
      BY <1>3, <1>15, NodesFromSlots DEF B
    <3>2. Sound(u, hs) /\ Compact(u, hs) /\ hs > Cardinality(B)
      BY <1>10, <1>15, <2>2 DEF Filled
    <3> QED BY <1>5, <3>1, <3>2, RoomFor
  <2> QED BY <2>1, <2>2
<1>19. ASSUME IsFiniteSet(Keys), Cardinality(Keys) + 2 < GenSize
       PROVE  \E b \in 1 .. Cardinality(Keys) + 1 : u.gen = Ahead(t.gen, b)
  <2> DEFINE f == [j \in L |-> slots[j].key]
  <2>1. f \in Injection(L, Keys)
    BY <1>3 DEF Injection, IsInjective, Lists
  <2>2. Cardinality(L) <= Cardinality(Keys) /\ Cardinality(Keys) \in Nat
    <3> HIDE DEF f, L
    <3> QED BY <1>19, <2>1, FS_Injection, FS_CardinalityType
  <2>3. Cardinality(L) + 1 < GenSize /\ GenSize \in Nat
    BY <1>4, <1>19, <2>2, LimitsAssumption
  <2>4. Len(slots) \in 0 .. Len(slots)
    BY <1>13
  <2>5. Advances(slots, put, t.gen)
    BY <1>1, <1>3, <1>4, <1>5, <1>10, <1>11, <1>12, <1>14, <2>3, FillGen DEF B
  <2>6. PICK b \in 1 .. Cardinality(L) + 1 : u.gen = Ahead(t.gen, b)
    BY <1>14, <1>16, <2>4, <2>5 DEF Advances
  <2>7. b \in 1 .. Cardinality(Keys) + 1
    BY <1>4, <2>2
  <2> QED BY <2>6, <2>7
<1> QED BY <1>8, <1>15, <1>17, <1>18, <1>19 DEF u, Filled

----------------------------------------------------------------------------
(* The operations *)

\* There are fewer keys than generations: what a table can hold in an address
\* space of 2^32 bytes.
FewKeys == IsFiniteSet(Keys) /\ Cardinality(Keys) + 2 < GenSize

\* The generation has moved, and not by a whole round.
Moved(t, u) == \E b \in 1 .. Cardinality(Keys) + 2 : u.gen = Ahead(t.gen, b)

\* Or every value stays with its key, and the parts keep their sizes.
Calm(t, u) ==
    /\ u.gen = t.gen /\ asize(u) = asize(t) /\ DOMAIN u.node = DOMAIN t.node
    /\ \A i \in DOMAIN t.node : t.node[i].val # Nil => u.node[i].key = t.node[i].key

Laid(t) == \E h : Sound(t, h) /\ NodeCount(h)

\* An operation leads to a sound layout, and tells when it disturbs places.
Operation(t, u) == Laid(u) /\ (FewKeys => Calm(t, u) \/ Moved(t, u))

\* One change of the generation is one.
LEMMA WarnedMoves ==
    ASSUME NEW t, NEW h \in Nat, t \in Tables(h), NEW u, FewKeys, u.gen = (t.gen + 1) % GenSize
    PROVE  Moved(t, u)
<1>1. t.gen \in 0 .. GenSize - 1 /\ 0 \in Nat /\ 0 < GenSize
  BY LimitsAssumption DEF Tables
<1>2. u.gen = Ahead(t.gen, 1)
  BY <1>1, AheadSteps
<1>3. Cardinality(Keys) \in Nat
  BY FS_CardinalityType DEF FewKeys
<1>4. 1 \in 1 .. Cardinality(Keys) + 2
  BY <1>3
<1> QED BY <1>2, <1>4 DEF Moved

\* Storing a value (rawSet).
LEMMA RawSetSound ==
    ASSUME NEW t, Laid(t), NEW k \in Keys, NEW v \in Vals \cup {Nil}
    PROVE  Operation(t, rawSet(t, k, v)) /\ Becomes(t, rawSet(t, k, v), k, v)
<1> DEFINE u == rawSet(t, k, v)
<1>1. PICK h : Sound(t, h) /\ NodeCount(h)
  BY DEF Laid
<1>2. h \in Nat /\ t \in Tables(h) /\ t.gen \in 0 .. GenSize - 1
  BY <1>1 DEF Sound, Tables
<1>3. CASE ~ (v # Nil /\ ~ arrayIndex(t, k) /\ Find(t, k) = -1 /\ ~ HasRoom(t, k))
  <2>1. u = Store(t, k, v)
    BY <1>3 DEF rawSet
  <2>2. Stored(t, u, h, k, v)
    BY <1>1, <1>3, <2>1, StoreSound DEF Fits
  <2> HIDE DEF u
  <2>3. Sound(u, h) /\ asize(u) = asize(t) /\ Becomes(t, u, k, v) /\ Warned(t, u, h)
    BY <2>2 DEF Stored
  <2>4. DOMAIN t.node = Numbers(h) /\ DOMAIN u.node = Numbers(h)
    BY <1>2, <2>3, SizesOf DEF Sound
  <2>5. FewKeys => Calm(t, u) \/ Moved(t, u)
    BY <1>2, <2>3, <2>4, WarnedMoves DEF Warned, Calm
  <2>6. Laid(u)
    BY <1>1, <2>3 DEF Laid
  <2> QED BY <2>3, <2>5, <2>6 DEF Operation, u
<1>4. CASE v # Nil /\ ~ arrayIndex(t, k) /\ Find(t, k) = -1 /\ ~ HasRoom(t, k)
  <2> DEFINE r == rehash(t, k)
  <2>1. u = Store(r, k, v)
    BY <1>4 DEF rawSet
  <2>2. /\ \E h2 : Sound(r, h2) /\ NodeCount(h2)
        /\ \A q \in Keys : rawGet(r, q) = rawGet(t, q)
        /\ arrayIndex(r, k) \/ HasRoom(r, k)
        /\ FewKeys => \E b \in 1 .. Cardinality(Keys) + 1 : r.gen = Ahead(t.gen, b)
    BY <1>1, RehashSound DEF FewKeys
  <2> HIDE DEF r, u
  <2>3. PICK h2 : Sound(r, h2) /\ NodeCount(h2)
    BY <2>2
  <2>4. Stored(r, u, h2, k, v)
    BY <2>1, <2>2, <2>3, StoreSound DEF Fits
  <2>5. Sound(u, h2) /\ Becomes(r, u, k, v) /\ Warned(r, u, h2)
    BY <2>4 DEF Stored
  <2>6. Becomes(t, u, k, v)
    BY <2>2, <2>5 DEF Becomes
  <2>7. ASSUME FewKeys PROVE Moved(t, u)
    <3>1. Cardinality(Keys) \in Nat /\ Cardinality(Keys) + 2 < GenSize /\ GenSize \in Nat
      BY <2>7, FS_CardinalityType, LimitsAssumption DEF FewKeys
    <3>2. PICK b \in 1 .. Cardinality(Keys) + 1 : r.gen = Ahead(t.gen, b)
      BY <2>2, <2>7
    <3>3. b \in Nat /\ b < GenSize /\ 0 \in Nat /\ 0 < GenSize
      BY <3>1
    <3>4. Ahead(t.gen, b) \in 0 .. GenSize - 1 /\ Ahead(Ahead(t.gen, b), 1) = Ahead(t.gen, b + 1)
      BY <1>2, <3>3, AheadSteps
    <3>5. u.gen = r.gen \/ u.gen = (r.gen + 1) % GenSize
      BY <2>5 DEF Warned
    <3>6. u.gen = Ahead(t.gen, b) \/ u.gen = Ahead(t.gen, b + 1)
      BY <3>2, <3>3, <3>4, <3>5, AheadSteps
    <3>7. b \in 1 .. Cardinality(Keys) + 2 /\ b + 1 \in 1 .. Cardinality(Keys) + 2
      BY <3>1
    <3> QED BY <3>6, <3>7 DEF Moved
  <2>8. Laid(u)
    BY <2>3, <2>5 DEF Laid
  <2> QED BY <2>6, <2>7, <2>8 DEF Operation, u
<1> QED BY <1>3, <1>4

\* Growing the array part over absent keys (PreallocateArray).
LEMMA PreallocateSound ==
    ASSUME NEW n \in PreSizes, Laid(table), Preallocate(n), Staged = FALSE
    PROVE  Operation(table, table') /\ \A q \in Keys : rawGet(table', q) = rawGet(table, q)
<1> DEFINE t == table
           u == table'
           more == [i \in 1 .. n - asize(t) |-> Nil]
<1>1. PICK h : Sound(t, h) /\ NodeCount(h)
  BY DEF Laid
<1>2. h \in Nat /\ t \in Tables(h) /\ Arranged(t, h)
  BY <1>1 DEF Sound
<1>3. asize(t) \in Nat /\ t.array \in Seq(Vals \cup {Nil}) /\ DOMAIN t.array = 1 .. asize(t)
      /\ DOMAIN t.node = Numbers(h) /\ n \in Nat /\ n > asize(t)
  BY <1>2, SizesOf, SizesAssumption DEF Preallocate
<1>4. more \in Seq(Vals \cup {Nil}) /\ Len(more) = n - asize(t)
  <2>1. n - asize(t) \in Nat
    BY <1>3
  <2> QED BY <2>1
<1>5. u = BumpGen([t EXCEPT !.array = @ \o more])
  BY DEF Preallocate
<1>6. \A i \in Numbers(h) : t.node[i].key \notin 1 .. n
  BY <1>3 DEF Preallocate, Hashed
<1> HIDE DEF t, u, more
<1>7. /\ t.array \o more \in Seq(Vals \cup {Nil}) /\ Len(t.array \o more) = n
      /\ \A i \in 1 .. n : (t.array \o more)[i] = IF i <= asize(t) THEN t.array[i] ELSE Nil
  <2>1. Len(t.array) = asize(t)
    BY DEF asize
  <2>2. t.array \o more \in Seq(Vals \cup {Nil})
        /\ Len(t.array \o more) = Len(t.array) + Len(more)
    BY <1>3, <1>4, ConcatProperties
  <2>3. ASSUME NEW i \in 1 .. n PROVE (t.array \o more)[i] = IF i <= asize(t) THEN t.array[i] ELSE Nil
    <3>1. i \in 1 .. Len(t.array) + Len(more)
      BY <1>3, <1>4, <2>1
    <3>2. (t.array \o more)[i] = IF i <= Len(t.array) THEN t.array[i] ELSE more[i - Len(t.array)]
      BY <1>3, <1>4, <3>1, ConcatProperties
    <3>3. ~ i <= asize(t) => more[i - asize(t)] = Nil
      BY <1>3 DEF more
    <3> QED BY <2>1, <3>2, <3>3
  <2> QED BY <1>3, <1>4, <2>1, <2>2, <2>3
<1>8. (t.gen + 1) % GenSize \in 0 .. GenSize - 1
  BY <1>2, BumpTyped
<1>9. /\ u \in Tables(h) /\ u.array = t.array \o more /\ u.node = t.node /\ u.lastfree = t.lastfree
      /\ u.gen = (t.gen + 1) % GenSize
  BY <1>2, <1>5, <1>7, <1>8 DEF Tables, BumpGen
<1>10. asize(u) = n
  BY <1>7, <1>9 DEF asize
<1>11. \A i \in 1 .. n : u.array[i] = IF i <= asize(t) THEN t.array[i] ELSE Nil
  BY <1>7, <1>9
<1>12. SameLinks(t, u, h)
  <2>1. \A k \in 1 .. asize(u) : u.array[k] # Nil => k \in Keys
    BY <1>2, <1>3, <1>10, <1>11 DEF Arranged
  <2> QED BY <1>2, <1>6, <1>9, <1>10, <2>1 DEF SameLinks, Arranged
<1>13. Sound(u, h)
  BY <1>1, <1>12, SameLinksSound
<1>14. ASSUME NEW q \in Keys PROVE rawGet(u, q) = rawGet(t, q)
  <2>1. CASE q \in 1 .. n
    <3>1. rawGet(u, q) = u.array[q]
      BY <1>10, <1>13, <2>1, Reads
    <3>2. CASE q <= asize(t)
      <4>1. rawGet(t, q) = t.array[q]
        BY <1>1, <1>3, <2>1, <3>2, Reads
      <4> QED BY <1>11, <2>1, <3>1, <3>2, <4>1
    <3>3. CASE ~ q <= asize(t)
      <4>1. q \notin 1 .. asize(t) /\ \A i \in Numbers(h) : t.node[i].key # q
        BY <1>3, <1>6, <2>1, <3>3
      <4>2. rawGet(t, q) = Nil
        BY <1>1, <4>1, Reads
      <4> QED BY <1>11, <2>1, <3>1, <3>3, <4>2
    <3> QED BY <3>2, <3>3
  <2>2. CASE q \notin 1 .. n
    <3>1. q \notin 1 .. asize(t)
      BY <1>3, <2>2
    <3>2. CASE \E i \in Numbers(h) : t.node[i].key = q
      BY <1>1, <1>9, <1>13, <3>2, Reads
    <3>3. CASE \A i \in Numbers(h) : t.node[i].key # q
      BY <1>1, <1>9, <1>10, <1>13, <2>2, <3>1, <3>3, Reads
    <3> QED BY <3>2, <3>3
  <2> QED BY <2>1, <2>2
<1>15. FewKeys => Moved(t, u)
  BY <1>2, <1>9, WarnedMoves
<1> QED BY <1>1, <1>13, <1>14, <1>15 DEF Operation, Laid, t, u

\* Clearing the fields that lost their values (clearWeakTables).
LEMMA ClearWeakSound ==
    ASSUME NEW dead \in SUBSET Keys, Laid(table), ClearWeak(dead)
    PROVE  /\ Operation(table, table')
           /\ \A q \in Keys : rawGet(table', q) = IF q \in dead THEN Nil ELSE rawGet(table, q)
<1> DEFINE t == table
           u == table'
           nodes == {i \in DOMAIN t.node : t.node[i].key \in dead}
           arr == [k \in DOMAIN t.array |-> IF k \in dead THEN Nil ELSE t.array[k]]
           nd == [i \in DOMAIN t.node |-> IF i \in nodes THEN Node(Nil, Nil, t.node[i].next) ELSE t.node[i]]
           cleared == [t EXCEPT !.array = arr, !.node = nd]
<1>1. PICK h : Sound(t, h) /\ NodeCount(h)
  BY DEF Laid
<1>2. h \in Nat /\ t \in Tables(h) /\ Arranged(t, h)
  BY <1>1 DEF Sound
<1>3. asize(t) \in Nat /\ t.array \in Seq(Vals \cup {Nil}) /\ DOMAIN t.array = 1 .. asize(t)
      /\ DOMAIN t.node = Numbers(h)
  BY <1>2, SizesOf
<1>4. u = IF nodes = {} THEN cleared ELSE BumpGen(cleared)
  BY DEF ClearWeak
<1> HIDE DEF t, u
<1>5. arr \in Seq(Vals \cup {Nil}) /\ Len(arr) = asize(t)
      /\ \A k \in 1 .. asize(t) : arr[k] = IF k \in dead THEN Nil ELSE t.array[k]
  <2>1. \A k \in 1 .. asize(t) : t.array[k] \in Vals \cup {Nil}
    BY <1>3, ElementOfSeq DEF asize
  <2>2. arr = [k \in 1 .. asize(t) |-> IF k \in dead THEN Nil ELSE t.array[k]]
    BY <1>3
  <2> HIDE DEF arr
  <2>3. arr \in [1 .. asize(t) -> Vals \cup {Nil}]
    BY <2>1, <2>2
  <2> QED BY <1>3, <2>2, <2>3
<1>6. \A i \in Numbers(h) : t.node[i] \in Entries(h)
  BY <1>2 DEF Tables
<1>7. \A i \in Numbers(h) :
        /\ nd[i] \in Entries(h)
        /\ nd[i].next = t.node[i].next
        /\ t.node[i].key \in dead => nd[i].key = Nil /\ nd[i].val = Nil
        /\ t.node[i].key \notin dead => nd[i] = t.node[i]
  BY <1>3, <1>6 DEF Entries, Node
<1>8. nd \in [Numbers(h) -> Entries(h)] /\ (nodes = {} => nd = t.node)
  <2>1. nd = [i \in Numbers(h) |-> nd[i]]
    BY <1>3
  <2>2. nodes = {} => \A i \in Numbers(h) : nd[i] = t.node[i]
    BY <1>3
  <2>3. t.node = [i \in Numbers(h) |-> t.node[i]]
    BY <1>2 DEF Tables
  <2> HIDE DEF nd, nodes
  <2> QED BY <1>7, <2>1, <2>2, <2>3
<1>9. (t.gen + 1) % GenSize \in 0 .. GenSize - 1
  BY <1>2, BumpTyped
<1> HIDE DEF arr, nd, nodes
<1>10. /\ u \in Tables(h) /\ u.array = arr /\ u.node = nd /\ u.lastfree = t.lastfree
       /\ u.gen = IF nodes = {} THEN t.gen ELSE (t.gen + 1) % GenSize
  <2>1. cleared \in Tables(h) /\ cleared.array = arr /\ cleared.node = nd /\ cleared.lastfree = t.lastfree
        /\ cleared.gen = t.gen
    BY <1>2, <1>5, <1>8 DEF Tables
  <2> HIDE DEF cleared
  <2> QED BY <1>4, <1>9, <2>1 DEF Tables, BumpGen
<1>11. asize(u) = asize(t)
  BY <1>5, <1>10 DEF asize
<1>12. SameLinks(t, u, h)
  <2>1. \A k \in 1 .. asize(u) : u.array[k] # Nil => k \in Keys
    BY <1>2, <1>5, <1>10, <1>11 DEF Arranged
  <2>2. \A i \in Numbers(h) :
         /\ u.node[i].next = t.node[i].next
         /\ u.node[i].key \in {t.node[i].key, Nil}
         /\ u.node[i].key = Nil <=> u.node[i].val = Nil
         /\ u.node[i].key # Nil => u.node[i].key \notin 1 .. asize(u)
    BY <1>2, <1>7, <1>10, <1>11 DEF Arranged
  <2> QED BY <1>10, <2>1, <2>2 DEF SameLinks
<1>13. Sound(u, h)
  BY <1>1, <1>12, SameLinksSound
<1>14. ASSUME NEW q \in Keys PROVE rawGet(u, q) = IF q \in dead THEN Nil ELSE rawGet(t, q)
  <2>1. CASE q \in 1 .. asize(t)
    <3>1. rawGet(u, q) = u.array[q] /\ rawGet(t, q) = t.array[q]
      BY <1>1, <1>11, <1>13, <2>1, Reads
    <3> QED BY <1>5, <1>10, <2>1, <3>1
  <2>2. CASE q \notin 1 .. asize(t)
    <3>1. CASE \E i \in Numbers(h) : t.node[i].key = q
      <4>1. PICK i \in Numbers(h) : t.node[i].key = q
        BY <3>1
      <4>2. rawGet(t, q) = t.node[i].val /\ q # Nil
        BY <1>1, <4>1, Reads, NilIsNoKey
      <4>3. CASE q \in dead
        <5>1. \A j \in Numbers(h) : u.node[j].key # q
          BY <1>7, <1>10, <4>2, <4>3
        <5>2. rawGet(u, q) = Nil
          BY <1>11, <1>13, <2>2, <5>1, Reads
        <5> QED BY <4>3, <5>2
      <4>4. CASE q \notin dead
        <5>1. u.node[i] = t.node[i]
          BY <1>7, <1>10, <4>1, <4>4
        <5>2. rawGet(u, q) = u.node[i].val
          BY <1>13, <4>1, <5>1, Reads
        <5> QED BY <4>2, <4>4, <5>1, <5>2
      <4> QED BY <4>3, <4>4
    <3>2. CASE \A i \in Numbers(h) : t.node[i].key # q
      <4>1. \A i \in Numbers(h) : u.node[i].key # q
        BY <1>7, <1>10, <3>2, NilIsNoKey
      <4> QED BY <1>1, <1>11, <1>13, <2>2, <3>2, <4>1, Reads
    <3> QED BY <3>1, <3>2
  <2> QED BY <2>1, <2>2
<1>15. FewKeys => Calm(t, u) \/ Moved(t, u)
  <2>1. CASE nodes = {}
    <3>1. u.node = t.node /\ u.gen = t.gen
      BY <1>8, <1>10, <2>1
    <3> QED BY <1>11, <3>1 DEF Calm
  <2>2. CASE nodes # {}
    BY <1>2, <1>10, <2>2, WarnedMoves
  <2> QED BY <2>1, <2>2
<1> QED BY <1>1, <1>13, <1>14, <1>15 DEF Operation, Laid, t, u

----------------------------------------------------------------------------
(* The length of a table *)

\* What makes n a border.
IsBorder(t, n) ==
    /\ n = 0 \/ rawGet(t, n) # Nil
    /\ n + 1 \in Keys => rawGet(t, n + 1) = Nil

\* The search has its bounds on either side of a border.
Brackets(t, b, width) ==
    /\ b[1] \in Nat /\ b[2] \in 1 .. asize(t) /\ b[1] < b[2]
    /\ b[1] = 0 \/ t.array[b[1]] # Nil
    /\ t.array[b[2]] = Nil
    /\ b[2] - b[1] <= 1 \/ b[2] - b[1] <= width

\* Halving the distance of the bounds takes one at least from it (rawBorder).
LEMMA HalvedBrackets ==
    ASSUME NEW t, asize(t) \in Nat, NEW b \in Nat \X Nat, NEW width \in Nat, Brackets(t, b, width + 1)
    PROVE  Brackets(t, Halved(t, b), width) /\ Halved(t, b) \in Nat \X Nat
<1> DEFINE mid == (b[1] + b[2]) \div 2
<1>1. b[1] \in Nat /\ b[2] \in Nat /\ b[2] <= asize(t) /\ b[1] < b[2]
      /\ (b[2] - b[1] <= 1 \/ b[2] - b[1] <= width + 1)
  BY DEF Brackets
<1>2. CASE b[2] - b[1] <= 1
  <2>1. Halved(t, b) = b
    BY <1>2 DEF Halved
  <2> QED BY <1>2, <2>1 DEF Brackets
<1>3. CASE ~ b[2] - b[1] <= 1
  <2>1. mid \in Nat /\ b[1] < mid /\ mid < b[2]
    BY <1>1, <1>3
  <2> HIDE DEF mid
  <2>2. Halved(t, b) = IF t.array[mid] = Nil THEN <<b[1], mid>> ELSE <<mid, b[2]>>
    BY <1>3 DEF Halved, mid
  <2>3. CASE t.array[mid] = Nil
    BY <1>1, <1>3, <2>1, <2>2, <2>3 DEF Brackets
  <2>4. CASE t.array[mid] # Nil
    BY <1>1, <1>3, <2>1, <2>2, <2>4 DEF Brackets
  <2> QED BY <2>3, <2>4
<1> QED BY <1>2, <1>3

\* The binary search ends at a border (rawBorder).
LEMMA BisectBorder ==
    ASSUME NEW t, asize(t) \in Nat, asize(t) > 0, t.array[asize(t)] = Nil
    PROVE  IsBorder(t, Bisect(t))
<1> DEFINE a == asize(t)
           step == [b \in Nat \X Nat |->
                       IF \E w \in Nat : Brackets(t, b, w + 1) THEN Halved(t, b) ELSE b]
           bounds == CHOOSE f : f = [n \in 0 .. a |-> IF n = 0 THEN <<0, a>> ELSE Halved(t, f[n - 1])]
<1>1. \A b \in Nat \X Nat : \A w \in Nat :
         Brackets(t, b, w + 1) => Brackets(t, Halved(t, b), w) /\ Halved(t, b) \in Nat \X Nat
  BY HalvedBrackets
<1>2. step \in [Nat \X Nat -> Nat \X Nat]
  BY <1>1
<1>3. <<0, a>> \in Nat \X Nat
  OBVIOUS
<1>4. PICK f \in [0 .. a -> Nat \X Nat] : Recursive(f, a, <<0, a>>, step)
  <2> HIDE DEF step
  <2> QED BY <1>2, <1>3, FiniteRecursion
<1>5. \A n \in 0 .. a : f[n] = IF n = 0 THEN <<0, a>> ELSE step[f[n - 1]]
  BY <1>4 DEF Recursive
<1> DEFINE ok(n) == Brackets(t, f[n], a - n) /\ f[n] = IF n = 0 THEN <<0, a>> ELSE Halved(t, f[n - 1])
           bad == {n \in 0 .. a : ~ ok(n)}
<1>6. bad = {}
  <2> SUFFICES ASSUME bad # {} PROVE FALSE
    OBVIOUS
  <2>1. PICK m \in bad : \A x \in bad : m <= x
    <3>1. bad \in SUBSET Nat
      OBVIOUS
    <3> HIDE DEF bad
    <3> QED BY <3>1, Least
  <2>2. m \in 0 .. a /\ ~ ok(m)
    OBVIOUS
  <2>3. m # 0
    <3> SUFFICES ASSUME m = 0 PROVE FALSE
      OBVIOUS
    <3> HIDE DEF step
    <3>1. f[0] = <<0, a>>
      BY <1>5
    <3>2. Brackets(t, f[0], a - 0)
      BY <3>1 DEF Brackets
    <3> QED BY <2>2, <3>1, <3>2
  <2>4. m - 1 \in 0 .. a /\ ~ m <= m - 1
    BY <2>2, <2>3
  <2>5. m - 1 \notin bad
    <3> HIDE DEF bad
    <3> QED BY <2>1, <2>4
  <2>6. Brackets(t, f[m - 1], a - (m - 1))
    BY <2>4, <2>5
  <2>7. a - (m - 1) = (a - m) + 1 /\ a - m \in Nat /\ f[m - 1] \in Nat \X Nat
    BY <2>2, <2>4, <1>4
  <2>8. step[f[m - 1]] = Halved(t, f[m - 1]) /\ Brackets(t, Halved(t, f[m - 1]), a - m)
    <3>1. Brackets(t, f[m - 1], (a - m) + 1)
      BY <2>6, <2>7
    <3>2. Brackets(t, Halved(t, f[m - 1]), a - m)
      BY <1>1, <2>7, <3>1
    <3> QED BY <2>7, <3>1, <3>2
  <2> HIDE DEF step
  <2>9. f[m] = Halved(t, f[m - 1])
    BY <1>5, <2>2, <2>3, <2>8
  <2> QED BY <2>2, <2>3, <2>8, <2>9
<1>7. \A n \in 0 .. a : f[n] = IF n = 0 THEN <<0, a>> ELSE Halved(t, f[n - 1])
  BY <1>6
<1>8. f = [n \in 0 .. a |-> IF n = 0 THEN <<0, a>> ELSE Halved(t, f[n - 1])]
  <2>1. f = [n \in 0 .. a |-> f[n]]
    BY <1>4
  <2> HIDE DEF bad, ok
  <2> QED BY <1>7, <2>1
<1>9. bounds = [n \in 0 .. a |-> IF n = 0 THEN <<0, a>> ELSE Halved(t, bounds[n - 1])]
  <2> HIDE DEF bad, ok, step
  <2> QED BY <1>8
<1> HIDE DEF bounds
<1> DEFINE good(n) == Brackets(t, bounds[n], a - n) /\ bounds[n] \in Nat \X Nat
           worse == {n \in 0 .. a : ~ good(n)}
<1>10. worse = {}
  <2> SUFFICES ASSUME worse # {} PROVE FALSE
    OBVIOUS
  <2> HIDE DEF bad, ok, step
  <2>1. PICK m \in worse : \A x \in worse : m <= x
    <3>1. worse \in SUBSET Nat
      OBVIOUS
    <3> HIDE DEF worse
    <3> QED BY <3>1, Least
  <2>2. m \in 0 .. a /\ ~ good(m)
    OBVIOUS
  <2>3. m # 0
    <3>1. bounds[0] = <<0, a>>
      BY <1>9
    <3>2. Brackets(t, bounds[0], a - 0)
      BY <3>1 DEF Brackets
    <3> QED BY <2>2, <3>1, <3>2
  <2>4. m - 1 \in 0 .. a /\ ~ m <= m - 1
    BY <2>2, <2>3
  <2>5. m - 1 \notin worse
    <3> HIDE DEF worse
    <3> QED BY <2>1, <2>4
  <2>6. Brackets(t, bounds[m - 1], a - (m - 1)) /\ bounds[m - 1] \in Nat \X Nat
    BY <2>4, <2>5
  <2>7. a - (m - 1) = (a - m) + 1 /\ a - m \in Nat
    BY <2>2
  <2>8. bounds[m] = Halved(t, bounds[m - 1])
    BY <1>9, <2>2, <2>3
  <2>9. Brackets(t, bounds[m - 1], (a - m) + 1)
    BY <2>6, <2>7
  <2>10. good(m)
    BY <1>1, <2>6, <2>7, <2>8, <2>9
  <2> QED BY <2>2, <2>10
<1>11. Brackets(t, bounds[a], a - a)
  <2> HIDE DEF bad, ok, step
  <2>1. a \in 0 .. a
    OBVIOUS
  <2> QED BY <1>10, <2>1
<1>12. Bisect(t) = bounds[a][1]
  BY DEF Bisect, bounds
<1> HIDE DEF bad, ok, step, worse, good, a
<1>13. LET n == bounds[a][1]
       IN  n \in Nat /\ n + 1 = bounds[a][2] /\ n + 1 \in 1 .. asize(t)
           /\ (n = 0 \/ t.array[n] # Nil) /\ t.array[n + 1] = Nil
  BY <1>11 DEF Brackets, a
<1> DEFINE n == bounds[a][1]
<1>14. rawGet(t, n + 1) = Nil
  BY <1>13 DEF rawGet, arrayIndex
<1>15. n = 0 \/ rawGet(t, n) # Nil
  <2>1. n = 0 \/ n \in 1 .. asize(t)
    BY <1>13
  <2> QED BY <1>13, <2>1 DEF rawGet, arrayIndex
<1> QED BY <1>12, <1>14, <1>15 DEF IsBorder

\* Going up from the array part ends at a border (rawBorder).
LEMMA ProbeBorder ==
    ASSUME NEW t, asize(t) \in Nat, asize(t) = 0 \/ t.array[asize(t)] # Nil
    PROVE  IsBorder(t, Probe(t))
<1> DEFINE stops == {n \in Nat : n + 1 \notin Keys \/ rawGet(t, n + 1) = Nil}
           above(n) == {m \in stops : m >= n}
           low(S) == CHOOSE m \in S : \A x \in S : m <= x
           w == [n \in Nat |-> low(above(n))]
           from == CHOOSE f : f = [n \in Nat |-> IF n + 1 \notin Keys \/ rawGet(t, n + 1) = Nil
                                                 THEN n ELSE f[n + 1]]
<1>1. \A n \in Nat : n + 1 \notin Keys \/ rawGet(t, n + 1) = Nil <=> n \in stops
  OBVIOUS
<1>2. \A n \in Nat \ stops : n + 1 \in Nat /\ n + 1 <= MaxInt /\ rawGet(t, n + 1) # Nil
  <2>1. ASSUME NEW n \in Nat \ stops PROVE n + 1 \in Nat /\ n + 1 \in Keys /\ rawGet(t, n + 1) # Nil
    OBVIOUS
  <2>2. \A x \in Keys \cap Nat : x <= MaxInt
    BY NameAssumption, LimitsAssumption DEF Keys
  <2> HIDE DEF stops
  <2> QED BY <2>1, <2>2
<1>3. stops \subseteq Nat
  OBVIOUS
<1> HIDE DEF stops
<1>4. ASSUME NEW n \in Nat PROVE w[n] = IF n \in stops THEN n ELSE w[n + 1]
  <2>1. n + 1 \in Nat /\ w[n] = low(above(n)) /\ w[n + 1] = low(above(n + 1))
    OBVIOUS
  <2>2. CASE n \in stops
    <3>1. n \in above(n) /\ (\A x \in above(n) : n <= x) /\ above(n) \subseteq Nat
      <4> HIDE DEF low, w
      <4>1. n >= n
        OBVIOUS
      <4>2. n \in above(n)
        BY <2>2, <4>1
      <4>3. above(n) \subseteq Nat /\ \A x \in above(n) : x >= n
        BY <1>3
      <4> HIDE DEF above
      <4> QED BY <4>2, <4>3
    <3>2. \A m \in above(n) : (\A x \in above(n) : m <= x) => m = n
      BY <3>1
    <3> HIDE DEF above
    <3>3. low(above(n)) = n
      BY <3>1, <3>2
    <3> QED BY <2>1, <2>2, <3>3
  <2>3. CASE n \notin stops
    <3>1. above(n) = above(n + 1)
      <4> HIDE DEF low, w
      <4>1. \A m \in stops : m >= n <=> m >= n + 1
        BY <1>3, <2>3
      <4> QED BY <4>1
    <3> HIDE DEF above, low, w
    <3> QED BY <2>1, <2>3, <3>1
  <2> QED BY <2>2, <2>3
<1>5. w = [n \in Nat |-> IF n + 1 \notin Keys \/ rawGet(t, n + 1) = Nil THEN n ELSE w[n + 1]]
  <2>1. w = [n \in Nat |-> w[n]]
    OBVIOUS
  <2> HIDE DEF w
  <2> QED BY <1>1, <1>4, <2>1
<1>6. from = [n \in Nat |-> IF n + 1 \notin Keys \/ rawGet(t, n + 1) = Nil THEN n ELSE from[n + 1]]
  <2> HIDE DEF w
  <2> QED BY <1>5
<1> HIDE DEF w, from
<1>7. \A n \in Nat : from[n] = IF n \in stops THEN n ELSE from[n + 1]
  BY <1>1, <1>6
<1> DEFINE good(n) == from[n] \in stops /\ (from[n] = n \/ rawGet(t, from[n]) # Nil)
           bad == {n \in Nat : ~ good(n)}
           left == [n \in Nat |-> IF n <= MaxInt THEN MaxInt - n ELSE 0]
<1>8. left \in [Nat -> Nat]
  BY LimitsAssumption
<1>9. ASSUME NEW n \in bad PROVE \E m \in bad : left[m] < left[n]
  <2>1. n \in Nat /\ ~ good(n)
    OBVIOUS
  <2>2. n \notin stops
    BY <1>7, <2>1
  <2>3. n + 1 \in Nat /\ n + 1 <= MaxInt /\ rawGet(t, n + 1) # Nil /\ from[n] = from[n + 1]
    BY <1>2, <1>7, <2>1, <2>2
  <2>4. ~ good(n + 1)
    BY <2>1, <2>3
  <2>5. left[n + 1] < left[n]
    BY <2>1, <2>3, LimitsAssumption
  <2>6. n + 1 \in bad
    BY <2>3, <2>4
  <2> QED BY <2>5, <2>6
<1>10. bad = {}
  <2>1. bad \in SUBSET Nat
    OBVIOUS
  <2> HIDE DEF bad, left, good
  <2>2. \A x \in bad : \E y \in bad : left[y] < left[x]
    BY <1>9
  <2> DEFINE N == Nat
  <2>3. left \in [N -> Nat] /\ bad \in SUBSET N
    BY <1>8, <2>1
  <2> HIDE DEF N
  <2> QED BY <2>2, <2>3, NoDescent
<1>11. good(asize(t))
  BY <1>10
<1>12. Probe(t) = from[asize(t)]
  BY DEF Probe, from
<1>13. asize(t) = 0 \/ rawGet(t, asize(t)) # Nil
  <2>1. asize(t) = 0 \/ asize(t) \in 1 .. asize(t)
    OBVIOUS
  <2> QED BY <2>1 DEF rawGet, arrayIndex
<1> HIDE DEF bad
<1>14. Probe(t) \in stops /\ (Probe(t) = 0 \/ rawGet(t, Probe(t)) # Nil)
  BY <1>11, <1>12, <1>13
<1> QED BY <1>14 DEF IsBorder, stops

\* The length of a table is a border of it, wherever its integer keys are
\* (rawBorder).
LEMMA BorderOf ==
    ASSUME NEW h \in Nat, NEW t \in Tables(h)
    PROVE  IsBorder(t, rawBorder(t))
<1>1. asize(t) \in Nat
  BY SizesOf
<1>2. CASE asize(t) > 0 /\ t.array[asize(t)] = Nil
  BY <1>1, <1>2, BisectBorder DEF rawBorder
<1>3. CASE ~ (asize(t) > 0 /\ t.array[asize(t)] = Nil)
  <2>1. asize(t) = 0 \/ t.array[asize(t)] # Nil
    BY <1>1, <1>3
  <2> QED BY <1>1, <1>3, <2>1, ProbeBorder DEF rawBorder
<1> QED BY <1>2, <1>3

----------------------------------------------------------------------------
(* The table by itself *)

\* What every step of the table does, for a key or for a set of keys that die.
Step(t, u) ==
    /\ Operation(t, u)
    /\ \/ \E k \in Keys, v \in Vals \cup {Nil} : Becomes(t, u, k, v)
       \/ \E dead \in SUBSET Keys :
            /\ \A q \in dead : rawGet(t, q) \in Collectable
            /\ \A q \in Keys : rawGet(u, q) = IF q \in dead THEN Nil ELSE rawGet(t, q)
       \/ \A q \in Keys : rawGet(u, q) = rawGet(t, q)

\* A new table is sound and empty (AllocTable).
LEMMA NewTable ==
    ASSUME NEW s \in InitSizes
    PROVE  LET t == AllocTable(s[1], s[2])
           IN  Laid(t) /\ \A q \in Keys : rawGet(t, q) = Nil
<1>1. s[1] \in Nat /\ s[2] \in Nat /\ NodeCount(s[2])
  BY SizesAssumption
<1>2. 0 \in 0 .. s[2] /\ 0 \in 0 .. GenSize - 1
  BY <1>1, LimitsAssumption
<1> QED BY <1>1, <1>2, LayoutIsSound DEF AllocTable, Laid

\* Every operation is a step.
LEMMA NextSteps ==
    ASSUME Laid(table), Next, Staged = FALSE
    PROVE  Step(table, table')
<1>1. ASSUME NEW s \in Stores \cup (Keys \X {Nil}), Set(s[1], s[2]) PROVE Step(table, table')
  <2>1. s[1] \in Keys /\ s[2] \in Vals \cup {Nil}
    BY StoresAssumption
  <2>2. table' = rawSet(table, s[1], s[2])
    BY <1>1 DEF Set
  <2>3. Operation(table, table') /\ Becomes(table, table', s[1], s[2])
    BY <2>1, <2>2, RawSetSound
  <2> QED BY <2>1, <2>3 DEF Step
<1>2. ASSUME NEW n \in PreSizes, Preallocate(n) PROVE Step(table, table')
  BY <1>2, PreallocateSound DEF Step
<1>3. ASSUME NEW dead \in SUBSET Keys, ClearWeak(dead) PROVE Step(table, table')
  <2>1. \A q \in dead : rawGet(table, q) \in Collectable
    BY <1>3 DEF ClearWeak
  <2>2. /\ Operation(table, table')
        /\ \A q \in Keys : rawGet(table', q) = IF q \in dead THEN Nil ELSE rawGet(table, q)
    BY <1>3, ClearWeakSound
  <2> QED BY <2>1, <2>2 DEF Step
<1> QED BY <1>1, <1>2, <1>3 DEF Next

\* The invariant of every specification in which the table takes such steps.
LEMMA AlwaysLaid ==
    ASSUME Staged = FALSE
    PROVE  Spec => []Laid(table)
<1>1. Init => Laid(table)
  BY NewTable DEF Init
<1>2. ASSUME Laid(table), [Next]_table PROVE Laid(table)'
  <2>1. CASE Next
    BY <1>2, <2>1, NextSteps DEF Step, Operation
  <2>2. CASE UNCHANGED table
    BY <1>2, <2>2
  <2> QED BY <1>2, <2>1, <2>2
<1> QED BY <1>1, <1>2, PTL DEF Spec

\* The chains of a sound layout do not fork, and its length is a border.
LEMMA LaidIsSound ==
    ASSUME Laid(table)
    PROVE  LayoutSound
<1>1. PICK h : Sound(table, h) /\ NodeCount(h)
  BY DEF Laid
<1>2. h \in Nat /\ table \in Tables(h) /\ Arranged(table, h)
  BY <1>1 DEF Sound
<1>3. hsize(table) = h /\ DOMAIN table.node = Numbers(h)
  BY <1>2, SizesOf
<1>4. TypeOK
  BY <1>1, <1>2, <1>3 DEF TypeOK, Tables, Entries, Numbers
<1>5. PICK own, height : Chained(table, h, own, height)
  BY <1>1 DEF Sound
<1>6. ASSUME NEW i \in Numbers(h), NEW j \in Numbers(h), table.node[i].next = j
      PROVE  /\ j >= table.lastfree /\ i # j
             /\ \A other \in Numbers(h) : table.node[other].next = j => other = i
  <2>1. j # -1
    BY DEF Numbers
  <2>2. \A x \in Numbers(h) : table.node[x].next = j =>
           own[j] = own[x] /\ height[x] = height[j] + 1 /\ height[j] \in Nat
    BY <1>5, <2>1 DEF Chained
  <2>3. \A x, y \in Numbers(h) : own[x] = own[y] /\ height[x] = height[y] => x = y
    BY <1>5 DEF Chained
  <2>4. j >= table.lastfree
    BY <1>2, <1>6, <2>1 DEF Arranged
  <2> QED BY <1>6, <2>2, <2>3, <2>4
<1>7. IsBorder(table, rawBorder(table))
  BY <1>2, BorderOf
<1> QED BY <1>3, <1>4, <1>6, <1>7 DEF LayoutSound, IsBorder

\* Whatever the sizes, the keys, their hashes and the order of operations, the
\* layout of a table is sound: its chains neither fork nor reach a node that may
\* be given away, and its length is a border (rawtable.go).
THEOREM LayoutKept ==
    ASSUME Staged = FALSE
    PROVE  Spec => []LayoutSound
<1>1. Spec => []Laid(table)
  BY AlwaysLaid
<1>2. Laid(table) => LayoutSound
  BY LaidIsSound
<1> QED BY <1>1, <1>2, PTL

\* A step of the table is a step of the plain table, or changes no field.
LEMMA StepOfPlain ==
    ASSUME Step(table, table')
    PROVE  [Plain!Next]_(Fields(table))
<1> DEFINE old == [k \in Keys |-> rawGet(table, k)]
           new == [k \in Keys |-> rawGet(table', k)]
<1>1. ASSUME NEW k \in Keys, NEW v \in Vals \cup {Nil}, Becomes(table, table', k, v)
      PROVE  new = [old EXCEPT ![k] = v]
  BY <1>1 DEF Becomes
<1>2. ASSUME NEW dead \in SUBSET Keys,
             \A q \in dead : rawGet(table, q) \in Collectable,
             \A q \in Keys : rawGet(table', q) = IF q \in dead THEN Nil ELSE rawGet(table, q)
      PROVE  /\ \A q \in dead : old[q] \in Collectable
             /\ new = [k \in Keys |-> IF k \in dead THEN Nil ELSE old[k]]
  BY <1>2
<1>3. ASSUME \A q \in Keys : rawGet(table', q) = rawGet(table, q) PROVE new = old
  BY <1>3
<1>4. \/ \E k \in Keys, v \in Vals \cup {Nil} : new = [old EXCEPT ![k] = v]
      \/ \E dead \in SUBSET Keys : /\ \A q \in dead : old[q] \in Collectable
                                   /\ new = [k \in Keys |-> IF k \in dead THEN Nil ELSE old[k]]
      \/ new = old
  <2> HIDE DEF old, new
  <2> QED BY <1>1, <1>2, <1>3 DEF Step
<1> QED BY <1>4 DEF Plain!Next, Plain!SetField, Plain!Lose, Fields

\* A store gives its own key its own value and changes no other (rawSet).
LEMMA StoreAssigns ==
    ASSUME Laid(table), NEW s \in Stores \cup (Keys \X {Nil})
    PROVE  Fields(rawSet(table, s[1], s[2])) = [Fields(table) EXCEPT ![s[1]] = s[2]]
<1>1. s[1] \in Keys /\ s[2] \in Vals \cup {Nil}
  BY StoresAssumption
<1>2. Becomes(table, rawSet(table, s[1], s[2]), s[1], s[2])
  BY <1>1, RawSetSound
<1> QED BY <1>1, <1>2 DEF Becomes, Fields

\* A table keeps the promise of a plain one through collisions, relocations,
\* deletions, rehashes and weak entries that the collector clears: what it reads
\* like is changed by every operation as that operation says (rawSet,
\* PreallocateArray, clearWeakTables).
THEOREM PromiseOfFields ==
    ASSUME Staged = FALSE
    PROVE  Spec => KeepsPromise
<1> DEFINE Assigned == \A s \in Stores \cup (Keys \X {Nil}) :
                         Fields(rawSet(table, s[1], s[2])) = [Fields(table) EXCEPT ![s[1]] = s[2]]
           Grown == \A n \in PreSizes : Preallocate(n) => Fields(table') = Fields(table)
           Lost == \A dead \in SUBSET {k \in Keys : rawGet(table, k) \in Collectable} :
                     ClearWeak(dead) => Plain!Lose(dead)
<1>1. Init => Fields(table) = Plain!Absent
  BY NewTable DEF Init, Plain!Absent, Fields
<1>2. ASSUME Laid(table), [Next]_table PROVE [Plain!Next]_(Fields(table))
  <2>1. CASE Next
    BY <1>2, <2>1, NextSteps, StepOfPlain DEF Fields
  <2>2. CASE UNCHANGED table
    BY <2>2 DEF Fields
  <2> QED BY <1>2, <2>1, <2>2
<1>3. Laid(table) => Assigned
  BY StoreAssigns
<1>4. ASSUME Laid(table) PROVE Grown /\ Lost
  <2>1. ASSUME NEW n \in PreSizes, Preallocate(n) PROVE Fields(table') = Fields(table)
    BY <1>4, <2>1, PreallocateSound DEF Fields
  <2>2. ASSUME NEW dead \in SUBSET {k \in Keys : rawGet(table, k) \in Collectable}, ClearWeak(dead)
        PROVE  Plain!Lose(dead)
    <3>1. /\ dead \in SUBSET Keys /\ \A q \in dead : rawGet(table, q) \in Collectable
          /\ \A q \in Keys : rawGet(table', q) = IF q \in dead THEN Nil ELSE rawGet(table, q)
      BY <1>4, <2>2, ClearWeakSound
    <3> QED BY <3>1 DEF Plain!Lose, Fields
  <2> QED BY <2>1, <2>2
<1>5. Spec => []Laid(table)
  BY AlwaysLaid
<1> HIDE DEF Assigned, Grown, Lost
<1>6. Spec => Plain!Spec /\ []Assigned /\ [][Grown /\ Lost]_table
  BY <1>1, <1>2, <1>3, <1>4, <1>5, PTL DEF Spec, Plain!Spec
<1> QED BY <1>6, PTL DEF KeepsPromise, Assigned, Grown, Lost

\* A generation that moved is another one (BumpGen).
LEMMA MovedDiffers ==
    ASSUME NEW t, Laid(t), NEW u, FewKeys, Moved(t, u)
    PROVE  u.gen # t.gen
<1>1. t.gen \in 0 .. GenSize - 1
  BY DEF Laid, Sound, Tables
<1>2. Cardinality(Keys) \in Nat /\ Cardinality(Keys) + 2 < GenSize
  BY FS_CardinalityType DEF FewKeys
<1>3. PICK b \in 1 .. Cardinality(Keys) + 2 : u.gen = Ahead(t.gen, b)
  BY DEF Moved
<1>4. b \in Nat /\ b < GenSize /\ b > 0
  BY <1>2, <1>3, LimitsAssumption
<1> QED BY <1>1, <1>3, <1>4, AheadSteps

\* Whoever remembers a place of the table and its generation is warned before
\* that place holds something else, as long as there are fewer keys than
\* generations: one operation then never goes once around (rawtable.go).
THEOREM GenWarns ==
    ASSUME Staged = FALSE, FewKeys
    PROVE  Spec => GenContract
<1> DEFINE Warns ==
           /\ asize(table') # asize(table) => table'.gen # table.gen
           /\ \A i \in DOMAIN table.node :
                table.node[i].val # Nil =>
                    \/ table'.gen # table.gen
                    \/ i \in DOMAIN table'.node /\ table'.node[i].key = table.node[i].key
<1>1. ASSUME Laid(table), [Next]_table PROVE [Warns]_table
  <2>1. CASE Next
    <3>1. Calm(table, table') \/ Moved(table, table')
      BY <1>1, <2>1, NextSteps DEF Step, Operation
    <3>2. CASE Calm(table, table')
      BY <3>2 DEF Calm
    <3>3. CASE Moved(table, table')
      <4>1. table'.gen # table.gen
        BY <1>1, <3>3, MovedDiffers
      <4> QED BY <4>1
    <3> QED BY <3>1, <3>2, <3>3
  <2>2. CASE UNCHANGED table
    BY <2>2
  <2> QED BY <1>1, <2>1, <2>2
<1>2. Spec => []Laid(table)
  BY AlwaysLaid
<1>3. Spec => [][Warns]_table
  <2> HIDE DEF Warns
  <2> QED BY <1>1, <1>2, PTL DEF Spec
<1> QED BY <1>3 DEF GenContract, Warns

----------------------------------------------------------------------------
(* Inline caches *)

\* SetTableMeta changes the generation and nothing else (BumpGen).
LEMMA BumpSound ==
    ASSUME NEW t, Laid(t)
    PROVE  LET u == BumpGen(t)
           IN  Laid(u) /\ u.gen = (t.gen + 1) % GenSize /\ u.array = t.array /\ u.node = t.node
<1> DEFINE u == BumpGen(t)
<1>1. PICK h : Sound(t, h) /\ NodeCount(h)
  BY DEF Laid
<1>2. h \in Nat /\ t \in Tables(h) /\ Arranged(t, h)
  BY <1>1 DEF Sound
<1>3. (t.gen + 1) % GenSize \in 0 .. GenSize - 1
  BY <1>2, BumpTyped
<1>4. /\ u \in Tables(h) /\ u.array = t.array /\ u.node = t.node /\ u.lastfree = t.lastfree
      /\ u.gen = (t.gen + 1) % GenSize
  BY <1>2, <1>3 DEF Tables, BumpGen
<1> HIDE DEF u
<1>5. asize(u) = asize(t)
  BY <1>4 DEF asize
<1>6. SameLinks(t, u, h)
  BY <1>2, <1>4, <1>5 DEF SameLinks, Arranged
<1>7. Sound(u, h)
  BY <1>1, <1>6, SameLinksSound
<1> QED BY <1>1, <1>4, <1>7 DEF Laid, u

\* The table under a cache is sound, whether it was operated on, given a
\* metatable or replaced.
LEMMA CachedLaid ==
    ASSUME Staged = FALSE
    PROVE  CachedSpec => []Laid(table)
<1>1. CachedInit => Laid(table)
  BY NewTable DEF CachedInit, Init
<1>2. ASSUME Laid(table), [CachedNext]_<<table, slot>> PROVE Laid(table)'
  <2>1. CASE Operate
    BY <1>2, <2>1, NextSteps DEF Operate, Step, Operation
  <2>2. CASE SetMeta
    BY <1>2, <2>2, BumpSound DEF SetMeta
  <2>3. CASE \E k \in Keys : Fill(k)
    BY <1>2, <2>3 DEF Fill
  <2>4. CASE Recycle
    BY <2>4, NewTable DEF Recycle
  <2>5. CASE UNCHANGED <<table, slot>>
    BY <1>2, <2>5
  <2> QED BY <1>2, <2>1, <2>2, <2>3, <2>4, <2>5 DEF CachedNext
<1> QED BY <1>1, <1>2, PTL DEF CachedSpec

\* A hit whose key was compared reads that key's place, of whatever table
\* (icGetTable).
LEMMA ComparedHit ==
    ASSUME Laid(table), NEW k \in Keys, Verified(k) # Nil
    PROVE  Verified(k) = rawGet(table, k)
<1>1. PICK h : Sound(table, h)
  BY DEF Laid
<1>2. asize(table) \in Nat /\ DOMAIN table.node = Numbers(h)
  BY <1>1, SizesOf DEF Sound
<1>3. slot.kind # None /\ Fresh /\ SameKey(k) /\ Verified(k) = GenOnly
  BY DEF Verified
<1>4. CASE slot.kind = ArrayHit
  <2>1. k = slot.index /\ k \in 1 .. asize(table)
    BY <1>3, <1>4 DEF SameKey, arrayIndex
  <2>2. slot.index <= asize(table)
    BY <1>2, <2>1
  <2>3. GenOnly = table.array[slot.index]
    BY <1>3, <1>4, <2>2 DEF GenOnly
  <2> QED BY <1>1, <1>3, <2>1, <2>3, Reads
<1>5. CASE slot.kind # ArrayHit
  <2>1. slot.index \in Numbers(h) /\ table.node[slot.index].key = k
    BY <1>2, <1>3, <1>5 DEF SameKey
  <2>2. GenOnly = table.node[slot.index].val
    BY <1>2, <1>3, <1>5, <2>1 DEF GenOnly
  <2> QED BY <1>1, <1>3, <2>1, <2>2, Reads
<1> QED BY <1>4, <1>5

\* An interpreter hit is right for every key, table and generation, wrapped
\* around or not, since it compares the key of the node (icGetTable).
THEOREM VerifiedHits ==
    ASSUME Staged = FALSE
    PROVE  CachedSpec => []VerifiedHitIsRight
<1>1. CachedSpec => []Laid(table)
  BY CachedLaid
<1>2. Laid(table) => VerifiedHitIsRight
  BY ComparedHit DEF VerifiedHitIsRight
<1> QED BY <1>1, <1>2, PTL

\* The generations that operations reach do not come close to the last one.
NoWrap == IsFiniteSet(Keys) /\ MaxGen + Cardinality(Keys) + 2 < GenSize

\* A slot of the table at hand is not newer than it, and while it is as new, the
\* key is at the place remembered.
Placed ==
    /\ table.gen <= MaxGen
    /\ slot \in [kind : {None, ArrayHit, NodeHit}, key : Keys \cup {Nil}, shape : Nat,
                 index : Nat, orphan : BOOLEAN]
    /\ ~ slot.orphan /\ slot.kind # None =>
         /\ slot.key \in Keys /\ slot.shape <= table.gen
         /\ Fresh /\ slot.kind = ArrayHit => slot.index = slot.key /\ slot.key \in 1 .. asize(table)
         /\ Fresh /\ slot.kind = NodeHit =>
              slot.index \in DOMAIN table.node /\ table.node[slot.index].key = slot.key

\* Filling a slot (rawGetWithLoc).
LEMMA FillPlaced ==
    ASSUME Laid(table), Placed, NEW k \in Keys, Fill(k)
    PROVE  Placed'
<1>1. PICK h : Sound(table, h)
  BY DEF Laid
<1>2. /\ DOMAIN table.node = Numbers(h) /\ table.gen \in Nat /\ asize(table) \in Nat
      /\ \A i \in Numbers(h) : i \in Nat
  BY <1>1, SizesOf, BumpTyped DEF Sound, Numbers
<1>3. rawGet(table, k) # Nil /\ slot' = SlotFor(k) /\ table' = table
  BY DEF Fill
<1>4. CASE k \in 1 .. asize(table)
  <2>1. slot' = Slot(ArrayHit, k, table.gen, k)
    BY <1>3, <1>4 DEF SlotFor, arrayIndex
  <2> QED BY <1>2, <1>3, <1>4, <2>1 DEF Placed, Slot, ArrayHit, NodeHit
<1>5. CASE k \notin 1 .. asize(table)
  <2>1. PICK i \in Numbers(h) : table.node[i].key = k
    BY <1>1, <1>3, <1>5, Reads
  <2>2. Find(table, k) = i
    BY <1>1, <2>1, Found
  <2>3. slot' = Slot(NodeHit, k, table.gen, i)
    BY <1>3, <1>5, <2>2 DEF SlotFor, arrayIndex
  <2> QED BY <1>2, <1>3, <2>1, <2>3 DEF Placed, Slot, ArrayHit, NodeHit
<1> QED BY <1>4, <1>5

\* The table moves on: either every value keeps its place, or no slot of it is
\* as new any more.
LEMMA OperatePlaced ==
    ASSUME Laid(table), Placed, NoWrap, Calm(table, table') \/ Moved(table, table'),
           table'.gen <= MaxGen, UNCHANGED slot
    PROVE  Placed'
<1>1. PICK h : Sound(table, h)
  BY DEF Laid
<1>2. /\ DOMAIN table.node = Numbers(h) /\ table.gen \in Nat /\ Arranged(table, h)
      /\ Cardinality(Keys) \in Nat
  BY <1>1, SizesOf, BumpTyped, FS_CardinalityType DEF Sound, NoWrap
<1>3. CASE Calm(table, table')
  <2>1. table'.gen = table.gen /\ asize(table') = asize(table) /\ DOMAIN table'.node = DOMAIN table.node
    BY <1>3 DEF Calm
  <2>2. \A i \in DOMAIN table.node :
           table.node[i].key \in Keys => table'.node[i].key = table.node[i].key
    BY <1>2, <1>3, NilIsNoKey DEF Calm, Arranged
  <2> QED BY <2>1, <2>2 DEF Placed, Fresh
<1>4. CASE Moved(table, table')
  <2>1. PICK b \in 1 .. Cardinality(Keys) + 2 : table'.gen = Ahead(table.gen, b)
    BY <1>4 DEF Moved
  <2>2. b \in Nat /\ b > 0 /\ table.gen + b < GenSize
    BY <1>2, <2>1, MaxGenAssumption, LimitsAssumption DEF NoWrap, Placed
  <2>3. table'.gen = table.gen + b
    BY <2>1, <2>2 DEF Ahead
  <2>4. table'.gen > table.gen
    BY <1>2, <2>2, <2>3
  <2>5. slot.shape \in Nat /\ slot.shape <= table.gen => slot.shape <= table'.gen /\ slot.shape # table'.gen
    BY <1>2, <2>2, <2>3
  <2> QED BY <2>5 DEF Placed, Fresh
<1> QED BY <1>3, <1>4

\* A fresh slot reads the field of its key (emitTableGuard, emitSlotBase).
LEMMA PlacedHit ==
    ASSUME Laid(table), Placed
    PROVE  GenOnlyHitIsRight
<1> SUFFICES ASSUME ~ slot.orphan, GenOnly # Nil PROVE GenOnly = rawGet(table, slot.key)
  BY DEF GenOnlyHitIsRight
<1>1. PICK h : Sound(table, h)
  BY DEF Laid
<1>2. asize(table) \in Nat /\ DOMAIN table.node = Numbers(h)
  BY <1>1, SizesOf DEF Sound
<1>3. Fresh /\ slot.kind # None
  BY DEF GenOnly
<1>4. slot.kind \in {ArrayHit, NodeHit} /\ slot.key \in Keys
  BY <1>3 DEF Placed
<1>5. CASE slot.kind = ArrayHit
  <2>1. slot.index = slot.key /\ slot.key \in 1 .. asize(table)
    BY <1>3, <1>5 DEF Placed
  <2>2. slot.index <= asize(table)
    BY <1>2, <2>1
  <2>3. GenOnly = table.array[slot.index]
    BY <1>3, <1>5, <2>2 DEF GenOnly
  <2> QED BY <1>1, <1>4, <2>1, <2>3, Reads
<1>6. CASE slot.kind # ArrayHit
  <2>1. slot.index \in Numbers(h) /\ table.node[slot.index].key = slot.key
    BY <1>2, <1>3, <1>4, <1>6 DEF Placed
  <2>2. GenOnly = table.node[slot.index].val
    BY <1>2, <1>3, <1>6, <2>1 DEF GenOnly
  <2> QED BY <1>1, <1>4, <2>1, <2>2, Reads
<1> QED BY <1>5, <1>6

\* What compiled code reads after comparing generations only is the field of its
\* constant key, as long as generations do not wrap around (emitTableGuard).
THEOREM GenOnlyHits ==
    ASSUME Staged = FALSE, NoWrap
    PROVE  CachedSpec => []GenOnlyHitIsRight
<1>0. FewKeys
  <2>1. Cardinality(Keys) \in Nat
    BY FS_CardinalityType DEF NoWrap
  <2> QED BY <2>1, MaxGenAssumption, LimitsAssumption DEF NoWrap, FewKeys
<1>1. CachedInit => Placed
  <2> SUFFICES ASSUME CachedInit PROVE Placed
    OBVIOUS
  <2>1. table.gen = 0
    BY DEF CachedInit, Init, AllocTable, Layout
  <2> QED BY <2>1, MaxGenAssumption DEF CachedInit, Placed, Slot, None
<1>2. ASSUME Laid(table), Placed, [CachedNext]_<<table, slot>> PROVE Placed'
  <2>1. CASE Operate
    <3>1. Calm(table, table') \/ Moved(table, table')
      BY <1>0, <1>2, <2>1, NextSteps DEF Operate, Step, Operation
    <3> QED BY <1>2, <2>1, <3>1, OperatePlaced DEF Operate
  <2>2. CASE SetMeta
    <3>1. table'.gen = (table.gen + 1) % GenSize
      BY <1>2, <2>2, BumpSound DEF SetMeta
    <3>2. PICK h : h \in Nat /\ table \in Tables(h)
      BY <1>2 DEF Laid, Sound
    <3>3. Moved(table, table')
      BY <1>0, <3>1, <3>2, WarnedMoves
    <3> QED BY <1>2, <2>2, <3>3, OperatePlaced DEF SetMeta
  <2>3. CASE \E k \in Keys : Fill(k)
    BY <1>2, <2>3, FillPlaced
  <2>4. CASE Recycle
    <3>1. table'.gen = 0
      BY <2>4 DEF Recycle, AllocTable, Layout
    <3>2. slot' = [slot EXCEPT !.orphan = TRUE]
      BY <2>4 DEF Recycle
    <3>3. /\ slot' \in [kind : {None, ArrayHit, NodeHit}, key : Keys \cup {Nil}, shape : Nat,
                         index : Nat, orphan : BOOLEAN]
          /\ slot'.orphan
      BY <1>2, <3>2 DEF Placed
    <3> QED BY <3>1, <3>3, MaxGenAssumption DEF Placed
  <2>5. CASE UNCHANGED <<table, slot>>
    BY <1>2, <2>5 DEF Placed, Fresh
  <2> QED BY <1>2, <2>1, <2>2, <2>3, <2>4, <2>5 DEF CachedNext
<1>3. CachedSpec => []Laid(table)
  BY CachedLaid
<1>4. Laid(table) /\ Placed => GenOnlyHitIsRight
  BY PlacedHit
<1> QED BY <1>1, <1>2, <1>3, <1>4, PTL DEF CachedSpec

----------------------------------------------------------------------------
(* Loops *)

\* The place of a key in the order of next: the array part, then the nodes.
Located(t, k) == arrayIndex(t, k) \/ Find(t, k) # -1
Place(t, k) == IF arrayIndex(t, k) THEN k ELSE asize(t) + 1 + Find(t, k)

\* Where next begins to search after c.
Start(t, c) == IF c = Nil THEN 1 ELSE Place(t, c) + 1

\* k is what a search from a place on should give.
FirstAt(t, start, k) ==
    \/ /\ k = Nil
       /\ \A q \in Keys : rawGet(t, q) # Nil => Place(t, q) < start
    \/ /\ k \in Keys /\ rawGet(t, k) # Nil /\ Place(t, k) >= start
       /\ \A q \in Keys : rawGet(t, q) # Nil /\ Place(t, q) >= start => Place(t, q) >= Place(t, k)

\* The places of the slots that hold a value, and no others (rawNext).
LEMMA Places ==
    ASSUME NEW h, NEW t, Sound(t, h)
    PROVE  /\ \A i \in 1 .. asize(t) : t.array[i] # Nil => i \in Keys /\ rawGet(t, i) # Nil /\ Place(t, i) = i
           /\ \A i \in Numbers(h) : t.node[i].key # Nil =>
                 /\ t.node[i].key \in Keys /\ t.node[i].val # Nil /\ rawGet(t, t.node[i].key) # Nil
                 /\ Place(t, t.node[i].key) = asize(t) + 1 + i
           /\ \A q \in Keys : rawGet(t, q) # Nil =>
                 \/ q \in 1 .. asize(t) /\ t.array[q] # Nil
                 \/ \E i \in Numbers(h) : t.node[i].key = q
           /\ \A q \in Keys : rawGet(t, q) # Nil => Located(t, q)
<1>1. h \in Nat /\ t \in Tables(h) /\ Arranged(t, h)
  BY DEF Sound
<1>2. asize(t) \in Nat
  BY <1>1, SizesOf
<1>3. ASSUME NEW i \in 1 .. asize(t), t.array[i] # Nil
      PROVE  i \in Keys /\ rawGet(t, i) # Nil /\ Place(t, i) = i
  <2>1. i \in Keys
    BY <1>1, <1>3 DEF Arranged
  <2>2. rawGet(t, i) = t.array[i]
    BY <2>1, Reads
  <2> QED BY <1>3, <2>1, <2>2 DEF Place, arrayIndex
<1>4. ASSUME NEW i \in Numbers(h), t.node[i].key # Nil
      PROVE  /\ t.node[i].key \in Keys /\ t.node[i].val # Nil /\ rawGet(t, t.node[i].key) # Nil
             /\ Place(t, t.node[i].key) = asize(t) + 1 + i
  <2>1. t.node[i].key \in Keys
    BY <1>1, <1>4 DEF Tables, Entries
  <2>2. t.node[i].val # Nil /\ t.node[i].key \notin 1 .. asize(t)
    BY <1>1, <1>4 DEF Arranged
  <2>3. rawGet(t, t.node[i].key) = t.node[i].val /\ Find(t, t.node[i].key) = i
    BY <2>1, Reads, Found
  <2> QED BY <2>1, <2>2, <2>3 DEF Place, arrayIndex
<1>5. ASSUME NEW q \in Keys, rawGet(t, q) # Nil
      PROVE  /\ \/ q \in 1 .. asize(t) /\ t.array[q] # Nil
                \/ \E i \in Numbers(h) : t.node[i].key = q
             /\ Located(t, q)
  <2>1. CASE q \in 1 .. asize(t)
    <3>1. rawGet(t, q) = t.array[q]
      BY <2>1, Reads
    <3> QED BY <1>5, <2>1, <3>1 DEF Located, arrayIndex
  <2>2. CASE q \notin 1 .. asize(t)
    <3>1. PICK i \in Numbers(h) : t.node[i].key = q
      BY <1>5, <2>2, Reads
    <3>2. Find(t, q) = i /\ i # -1
      BY <3>1, Found DEF Numbers
    <3> QED BY <3>1, <3>2 DEF Located
  <2> QED BY <2>1, <2>2
<1> QED BY <1>3, <1>4, <1>5

\* The least element of a set of naturals.
LEMMA LeastIsMin ==
    ASSUME NEW S \in SUBSET Nat, S # {}
    PROVE  Min(S) \in S /\ \A x \in S : Min(S) <= x
<1>1. \E m \in S : \A x \in S : m <= x
  BY Least
<1> QED BY <1>1 DEF Min

\* The search of next (rawNext).
LEMMA FirstFromIs ==
    ASSUME NEW h, NEW t, Sound(t, h), NEW a \in 1 .. asize(t) + 1, NEW n \in Nat, a <= asize(t) => n = 0
    PROVE  FirstAt(t, IF a <= asize(t) THEN a ELSE asize(t) + 1 + n, FirstFrom(t, a, n))
<1> DEFINE as == {i \in a .. asize(t) : t.array[i] # Nil}
           ns == {i \in DOMAIN t.node : i >= n /\ t.node[i].key # Nil /\ t.node[i].val # Nil}
           start == IF a <= asize(t) THEN a ELSE asize(t) + 1 + n
           k == FirstFrom(t, a, n)
<1>1. h \in Nat /\ t \in Tables(h) /\ asize(t) \in Nat /\ DOMAIN t.node = Numbers(h)
  BY SizesOf DEF Sound
<1>2. a \in Nat /\ a >= 1 /\ a <= asize(t) + 1 /\ as \subseteq Nat /\ ns \subseteq Nat
  BY <1>1 DEF Numbers
<1>3. start \in Nat
  BY <1>1, <1>2
<1>4. k = IF as # {} THEN Min(as) ELSE IF ns # {} THEN t.node[Min(ns)].key ELSE Nil
  BY DEF FirstFrom
<1>5. /\ \A i \in as : i \in 1 .. asize(t) /\ i >= start /\ a <= asize(t) /\ t.array[i] # Nil
      /\ \A i \in 1 .. asize(t) : i >= start /\ t.array[i] # Nil => i \in as
  BY <1>1, <1>2
<1>6. \A i \in ns : i \in Numbers(h) /\ i >= n /\ t.node[i].key # Nil
  BY <1>1
<1>7. \A i \in Numbers(h) : t.node[i].key # Nil /\ i >= n => i \in ns
  BY <1>1, Places
<1>8. \A i \in Numbers(h) : i \in Nat /\ (asize(t) + 1 + i >= start /\ a > asize(t) => i >= n)
  BY <1>1, <1>2 DEF Numbers
<1>9. a <= asize(t) => \A i \in Numbers(h) : i >= n /\ asize(t) + 1 + i >= start
  BY <1>1, <1>2 DEF Numbers
<1>10. \A i \in ns : asize(t) + 1 + i >= start
  BY <1>1, <1>2, <1>6, <1>8, <1>9
<1> HIDE DEF as, ns, start, k
<1>11. CASE as # {}
  <2>1. k \in as /\ \A x \in as : k <= x
    BY <1>2, <1>4, <1>11, LeastIsMin
  <2>2. k \in Keys /\ rawGet(t, k) # Nil /\ Place(t, k) = k /\ k >= start /\ k \in 1 .. asize(t)
    BY <1>5, <2>1, Places
  <2>3. ASSUME NEW q \in Keys, rawGet(t, q) # Nil, Place(t, q) >= start PROVE Place(t, q) >= Place(t, k)
    <3>1. CASE q \in 1 .. asize(t) /\ t.array[q] # Nil
      <4>1. Place(t, q) = q
        BY <3>1, Places
      <4>2. q \in as
        BY <1>5, <2>3, <3>1, <4>1
      <4>3. q \in Nat /\ k <= q /\ k \in Nat
        BY <1>2, <2>1, <4>2
      <4> QED BY <2>2, <4>1, <4>3
    <3>2. CASE \E i \in Numbers(h) : t.node[i].key = q
      <4>1. PICK i \in Numbers(h) : t.node[i].key = q
        BY <3>2
      <4>2. Place(t, q) = asize(t) + 1 + i
        BY <4>1, Places, NilIsNoKey
      <4> QED BY <1>1, <1>8, <2>2, <4>2
    <3> QED BY <2>3, <3>1, <3>2, Places
  <2> QED BY <2>2, <2>3 DEF FirstAt, start, k
<1>12. CASE as = {} /\ ns # {}
  <2> DEFINE m == Min(ns)
  <2>1. m \in ns /\ \A x \in ns : m <= x
    BY <1>2, <1>12, LeastIsMin
  <2> HIDE DEF m
  <2>2. k = t.node[m].key /\ m \in Numbers(h) /\ m \in Nat /\ k # Nil
    BY <1>2, <1>4, <1>6, <1>12, <2>1 DEF m
  <2>3. k \in Keys /\ rawGet(t, k) # Nil /\ Place(t, k) = asize(t) + 1 + m
    BY <2>2, Places
  <2>4. Place(t, k) >= start
    BY <1>10, <2>1, <2>3
  <2>5. ASSUME NEW q \in Keys, rawGet(t, q) # Nil, Place(t, q) >= start PROVE Place(t, q) >= Place(t, k)
    <3>1. CASE q \in 1 .. asize(t) /\ t.array[q] # Nil
      <4>1. Place(t, q) = q
        BY <3>1, Places
      <4>2. q \in as
        BY <1>5, <2>5, <3>1, <4>1
      <4> QED BY <1>12, <4>2
    <3>2. CASE \E i \in Numbers(h) : t.node[i].key = q
      <4>1. PICK i \in Numbers(h) : t.node[i].key = q
        BY <3>2
      <4>2. Place(t, q) = asize(t) + 1 + i /\ t.node[i].key # Nil
        BY <4>1, Places, NilIsNoKey
      <4>3. i >= n
        BY <1>1, <1>2, <1>8, <1>9, <2>5, <4>2
      <4>4. m <= i
        BY <1>7, <2>1, <4>2, <4>3
      <4> QED BY <1>1, <1>8, <2>2, <2>3, <4>2, <4>4
    <3> QED BY <2>5, <3>1, <3>2, Places
  <2> QED BY <2>3, <2>4, <2>5 DEF FirstAt, start, k
<1>13. CASE as = {} /\ ns = {}
  <2>1. k = Nil
    BY <1>4, <1>13
  <2>2. ASSUME NEW q \in Keys, rawGet(t, q) # Nil PROVE Place(t, q) < start
    <3>1. CASE q \in 1 .. asize(t) /\ t.array[q] # Nil
      <4>1. Place(t, q) = q
        BY <3>1, Places
      <4>2. ~ q >= start
        BY <1>5, <1>13, <3>1
      <4> QED BY <1>1, <1>3, <3>1, <4>1, <4>2
    <3>2. CASE \E i \in Numbers(h) : t.node[i].key = q
      <4>1. PICK i \in Numbers(h) : t.node[i].key = q
        BY <3>2
      <4>2. Place(t, q) = asize(t) + 1 + i /\ t.node[i].key # Nil
        BY <4>1, Places, NilIsNoKey
      <4>3. ~ i >= n
        BY <1>7, <1>13, <4>2
      <4> QED BY <1>1, <1>2, <1>3, <1>8, <1>9, <4>2, <4>3
    <3> QED BY <2>2, <3>1, <3>2, Places
  <2> QED BY <2>1, <2>2 DEF FirstAt, start, k
<1> QED BY <1>11, <1>12, <1>13

\* The key after c is the first present one after the place of c; a key that has
\* no place is refused (rawNext).
LEMMA NextKey ==
    ASSUME NEW h, NEW t, Sound(t, h), NEW c \in Keys \cup {Nil}
    PROVE  IF c = Nil \/ Located(t, c) THEN FirstAt(t, Start(t, c), rawNext(t, c))
           ELSE rawNext(t, c) = InvalidKey
<1>1. h \in Nat /\ t \in Tables(h) /\ asize(t) \in Nat
  BY SizesOf DEF Sound
<1>2. CASE c = Nil
  <2>1. rawNext(t, c) = FirstFrom(t, 1, 0) /\ 1 \in 1 .. asize(t) + 1 /\ 0 \in Nat
    BY <1>1, <1>2 DEF rawNext
  <2>2. FirstAt(t, IF 1 <= asize(t) THEN 1 ELSE asize(t) + 1 + 0, FirstFrom(t, 1, 0))
    BY <2>1, FirstFromIs
  <2>3. (IF 1 <= asize(t) THEN 1 ELSE asize(t) + 1 + 0) = Start(t, c)
    BY <1>1, <1>2 DEF Start
  <2> QED BY <1>2, <2>1, <2>2, <2>3
<1>3. CASE c # Nil /\ c \in 1 .. asize(t)
  <2>1. rawNext(t, c) = FirstFrom(t, c + 1, 0) /\ c + 1 \in 1 .. asize(t) + 1 /\ 0 \in Nat
    BY <1>1, <1>3 DEF rawNext, arrayIndex
  <2>2. FirstAt(t, IF c + 1 <= asize(t) THEN c + 1 ELSE asize(t) + 1 + 0, FirstFrom(t, c + 1, 0))
    BY <2>1, FirstFromIs
  <2>3. (IF c + 1 <= asize(t) THEN c + 1 ELSE asize(t) + 1 + 0) = Start(t, c)
    BY <1>1, <1>3 DEF Start, Place, arrayIndex
  <2> QED BY <1>3, <2>1, <2>2, <2>3 DEF Located, arrayIndex
<1>4. CASE c # Nil /\ c \notin 1 .. asize(t)
  <2> DEFINE i == Find(t, c)
  <2>1. i = -1 \/ i \in Numbers(h)
    <3>1. c \in Keys
      BY <1>4
    <3>2. CASE \E g \in Numbers(h) : t.node[g].key = c
      BY <3>1, <3>2, Found
    <3>3. CASE \A g \in Numbers(h) : t.node[g].key # c
      BY <3>1, <3>3, Found
    <3> QED BY <3>2, <3>3
  <2>2. CASE i = -1
    <3>1. rawNext(t, c) = InvalidKey
      BY <1>4, <2>2 DEF rawNext, arrayIndex
    <3> QED BY <1>4, <2>2, <3>1 DEF Located, arrayIndex
  <2>3. CASE i # -1
    <3>1. i \in Nat
      BY <1>1, <2>1, <2>3 DEF Numbers
    <3>2. rawNext(t, c) = FirstFrom(t, asize(t) + 1, i + 1)
      BY <1>4, <2>3 DEF rawNext, arrayIndex, AfterNode
    <3>3. asize(t) + 1 \in 1 .. asize(t) + 1 /\ i + 1 \in Nat /\ ~ asize(t) + 1 <= asize(t)
      BY <1>1, <3>1
    <3>4. FirstAt(t, IF asize(t) + 1 <= asize(t) THEN asize(t) + 1 ELSE asize(t) + 1 + (i + 1),
                  FirstFrom(t, asize(t) + 1, i + 1))
      <4> HIDE DEF i
      <4> QED BY <3>3, FirstFromIs
    <3>5. asize(t) + 1 + (i + 1) = Start(t, c)
      BY <1>1, <1>4, <3>1 DEF Start, Place, arrayIndex
    <3> QED BY <1>4, <2>3, <3>2, <3>3, <3>4, <3>5 DEF Located
  <2> QED BY <2>2, <2>3
<1> QED BY <1>2, <1>3, <1>4

\* Places stay where they are, except that a key may have none any more.
KeepsPlaces(t, u) == \A q \in Keys : Located(u, q) => Located(t, q) /\ Place(u, q) = Place(t, q)

\* Assigning to a field that exists never moves one, since it needs no new node;
\* giving nil takes its node away (rawSet).
LEMMA ExistingStays ==
    ASSUME NEW h, NEW t, Sound(t, h), NEW k \in Keys, NEW v \in Vals \cup {Nil}, rawGet(t, k) # Nil
    PROVE  KeepsPlaces(t, rawSet(t, k, v))
<1> DEFINE u == rawSet(t, k, v)
<1>1. h \in Nat /\ t \in Tables(h) /\ asize(t) \in Nat
  BY SizesOf DEF Sound
<1>2. Located(t, k)
  BY Places
<1>3. u = Store(t, k, v) /\ Fits(t, k, v)
  BY <1>2 DEF rawSet, Located, Fits
<1>4. Sound(u, h) /\ asize(u) = asize(t)
  BY <1>3, StoreSound DEF Stored
<1>5. \A i \in Numbers(h) : u.node[i].key \in {t.node[i].key, Nil}
  <2>1. CASE k \in 1 .. asize(t)
    <3>1. u = [t EXCEPT !.array[k] = v]
      BY <1>3, <2>1 DEF Store, arrayIndex
    <3>2. u.node = t.node
      BY <1>1, <3>1 DEF Tables
    <3> QED BY <3>2
  <2>2. CASE k \notin 1 .. asize(t)
    <3>1. PICK g \in Numbers(h) : t.node[g].key = k
      BY <2>2, Places
    <3>2. Find(t, k) = g /\ g # -1
      BY <3>1, Found DEF Numbers
    <3>3. u = IF v = Nil THEN Delete(t, g) ELSE [t EXCEPT !.node[g].val = v]
      BY <1>3, <2>2, <3>2 DEF Store, arrayIndex
    <3>4. t.node \in [Numbers(h) -> Entries(h)] /\ \A i \in Numbers(h) : t.node[i] \in Entries(h)
      BY <1>1 DEF Tables
    <3>5. CASE v = Nil
      <4>1. u.node = [t.node EXCEPT ![g].key = Nil, ![g].val = Nil]
        BY <1>1, <3>3, <3>5 DEF Delete, BumpGen, Tables
      <4> HIDE DEF u
      <4> QED BY <3>4, <4>1 DEF Entries
    <3>6. CASE v # Nil
      <4>1. u.node = [t.node EXCEPT ![g].val = v]
        BY <1>1, <3>3, <3>6 DEF Tables
      <4> HIDE DEF u
      <4> QED BY <3>4, <4>1 DEF Entries
    <3> QED BY <3>5, <3>6
  <2> QED BY <2>1, <2>2
<1> HIDE DEF u
<1>6. ASSUME NEW q \in Keys, Located(u, q) PROVE Located(t, q) /\ Place(u, q) = Place(t, q)
  <2>1. CASE q \in 1 .. asize(t)
    BY <1>4, <2>1 DEF Located, Place, arrayIndex
  <2>2. CASE q \notin 1 .. asize(t)
    <3>1. Find(u, q) # -1
      BY <1>4, <1>6, <2>2 DEF Located, arrayIndex
    <3>2. PICK i \in Numbers(h) : u.node[i].key = q
      BY <1>4, <3>1, Found
    <3>3. t.node[i].key = q
      BY <1>5, <3>2, NilIsNoKey
    <3>4. Find(u, q) = i /\ Find(t, q) = i
      BY <1>4, <3>2, <3>3, Found
    <3> QED BY <1>4, <2>2, <3>1, <3>4 DEF Located, Place, arrayIndex
  <2> QED BY <2>1, <2>2
<1> QED BY <1>6 DEF KeepsPlaces, u

\* While a loop runs: it has visited nothing before its first step, and later
\* nothing that comes after its control, but everything due that does not.
InOrder ==
    /\ due \subseteq Present /\ visited \subseteq Keys /\ control \in Keys \cup {Nil}
    /\ control = Nil => visited = {}
    /\ control # Nil /\ Located(table, control) =>
         /\ \A k \in visited : Located(table, k) => Place(table, k) <= Place(table, control)
         /\ \A k \in due : Place(table, k) <= Place(table, control) => k \in visited

Looped ==
    /\ ~ repeated
    /\ IF looping THEN InOrder ELSE control = Nil => due \subseteq visited

\* Places are positive, and two keys do not share one (rawNext).
LEMMA PlaceOf ==
    ASSUME NEW h, NEW t, Sound(t, h)
    PROVE  /\ \A q \in Keys : Located(t, q) => Place(t, q) \in Nat \ {0}
           /\ \A p, q \in Keys : Located(t, p) /\ Located(t, q) /\ Place(t, p) = Place(t, q) => p = q
<1>1. h \in Nat /\ asize(t) \in Nat
  BY SizesOf DEF Sound
<1>2. ASSUME NEW q \in Keys, Located(t, q)
      PROVE  \/ q \in 1 .. asize(t) /\ Place(t, q) = q
             \/ \E i \in Numbers(h) : t.node[i].key = q /\ Place(t, q) = asize(t) + 1 + i
  <2>1. CASE q \in 1 .. asize(t)
    BY <2>1 DEF Place, arrayIndex
  <2>2. CASE q \notin 1 .. asize(t)
    <3>1. Find(t, q) # -1
      BY <1>2, <2>2 DEF Located, arrayIndex
    <3>2. PICK i \in Numbers(h) : t.node[i].key = q
      BY <3>1, Found
    <3>3. Find(t, q) = i
      BY <3>2, Found
    <3> QED BY <2>2, <3>2, <3>3 DEF Place, arrayIndex
  <2> QED BY <2>1, <2>2
<1>3. \A i \in Numbers(h) : i \in Nat
  BY <1>1 DEF Numbers
<1>4. ASSUME NEW q \in Keys, Located(t, q) PROVE Place(t, q) \in Nat \ {0}
  BY <1>1, <1>2, <1>3, <1>4
<1>5. ASSUME NEW p \in Keys, NEW q \in Keys, Located(t, p), Located(t, q), Place(t, p) = Place(t, q)
      PROVE  p = q
  <2>1. CASE p \in 1 .. asize(t) /\ Place(t, p) = p
    <3>1. ~ \E i \in Numbers(h) : Place(t, q) = asize(t) + 1 + i
      BY <1>1, <1>3, <1>5, <2>1
    <3>2. Place(t, q) = q
      BY <1>2, <1>5, <3>1
    <3> QED BY <1>5, <2>1, <3>2
  <2>2. CASE \E i \in Numbers(h) : t.node[i].key = p /\ Place(t, p) = asize(t) + 1 + i
    <3>1. PICK i \in Numbers(h) : t.node[i].key = p /\ Place(t, p) = asize(t) + 1 + i
      BY <2>2
    <3>2. ~ (q \in 1 .. asize(t) /\ Place(t, q) = q)
      BY <1>1, <1>3, <1>5, <3>1
    <3>3. PICK j \in Numbers(h) : t.node[j].key = q /\ Place(t, q) = asize(t) + 1 + j
      BY <1>2, <1>5, <3>2
    <3>4. i = j
      <4>1. asize(t) + 1 + i = asize(t) + 1 + j /\ asize(t) \in Nat /\ i \in Nat /\ j \in Nat
        BY <1>1, <1>3, <1>5, <3>1, <3>3
      <4> QED BY <4>1
    <3> QED BY <3>1, <3>3, <3>4
  <2> QED BY <1>2, <1>5, <2>1, <2>2
<1> QED BY <1>4, <1>5

\* One step of the loop: to the next key, to the end, or to an error (TFORLOOP).
LEMMA StepLooped ==
    ASSUME Laid(table), Looped, StepLoop
    PROVE  Looped'
<1> DEFINE k == rawNext(table, control)
<1>1. PICK h : Sound(table, h)
  BY DEF Laid
<1>2. /\ looping /\ control' = k /\ table' = table /\ due' = due
      /\ looping' = (k \notin {Nil, InvalidKey})
      /\ visited' = IF looping' THEN visited \cup {k} ELSE visited
      /\ repeated' = (repeated \/ k \in visited)
  BY DEF StepLoop
<1>3. ~ repeated /\ InOrder
  BY <1>2 DEF Looped
<1>4. /\ due \subseteq Keys /\ \A q \in due : q \in Keys /\ rawGet(table, q) # Nil /\ Located(table, q)
      /\ visited \subseteq Keys /\ control \in Keys \cup {Nil}
  BY <1>1, <1>3, Places DEF InOrder, Present
<1> HIDE DEF k
<1>5. CASE control = Nil \/ Located(table, control)
  <2>1. FirstAt(table, Start(table, control), k)
    BY <1>1, <1>4, <1>5, NextKey DEF k
  <2>2. /\ \A q \in visited : Located(table, q) => Place(table, q) < Start(table, control)
        /\ \A q \in due : Place(table, q) < Start(table, control) => q \in visited
    <3>1. CASE control = Nil
      <4>1. visited = {} /\ Start(table, control) = 1
        BY <1>3, <3>1 DEF InOrder, Start
      <4>2. \A q \in due : ~ Place(table, q) < 1
        BY <1>1, <1>4, PlaceOf
      <4> QED BY <4>1, <4>2
    <3>2. CASE control # Nil
      <4>1. Located(table, control) /\ control \in Keys
        BY <1>4, <1>5, <3>2
      <4>2. /\ \A q \in visited : Located(table, q) => Place(table, q) <= Place(table, control)
            /\ \A q \in due : Place(table, q) <= Place(table, control) => q \in visited
        BY <1>3, <3>2, <4>1 DEF InOrder
      <4>3. Start(table, control) = Place(table, control) + 1 /\ Place(table, control) \in Nat
        BY <1>1, <3>2, <4>1, PlaceOf DEF Start
      <4>4. \A q \in Keys : Located(table, q) => Place(table, q) \in Nat
        BY <1>1, PlaceOf
      <4>5. \A q \in Keys : Located(table, q) =>
               (Place(table, q) <= Place(table, control) <=> Place(table, q) < Start(table, control))
        BY <4>3, <4>4
      <4> QED BY <1>4, <4>2, <4>5
    <3> QED BY <3>1, <3>2
  <2>3. CASE k = Nil
    <3>1. ~ looping' /\ visited' = visited /\ k \notin visited
      BY <1>2, <1>4, <2>3, NilIsNoKey
    <3>2. \A q \in Keys : rawGet(table, q) # Nil => Place(table, q) < Start(table, control)
      BY <2>1, <2>3, NilIsNoKey DEF FirstAt
    <3>3. due \subseteq visited
      BY <1>4, <2>2, <3>2
    <3> QED BY <1>2, <1>3, <3>1, <3>3 DEF Looped
  <2>4. CASE k # Nil
    <3>1. /\ k \in Keys /\ rawGet(table, k) # Nil /\ Place(table, k) >= Start(table, control)
          /\ \A q \in Keys : rawGet(table, q) # Nil /\ Place(table, q) >= Start(table, control)
                => Place(table, q) >= Place(table, k)
      BY <2>1, <2>4 DEF FirstAt
    <3>2. looping' /\ visited' = visited \cup {k}
      BY <1>2, <2>4, <3>1, NilIsNoKey
    <3>3. Located(table, k) /\ Place(table, k) \in Nat /\ Start(table, control) \in Nat
      <4>1. Located(table, k)
        BY <1>1, <3>1, Places
      <4>2. Start(table, control) \in Nat
        BY <1>1, <1>4, <1>5, PlaceOf DEF Start
      <4> QED BY <1>1, <3>1, <4>1, <4>2, PlaceOf
    <3>4. k \notin visited
      BY <2>2, <3>1, <3>3
    <3>5. ASSUME NEW q \in visited \cup {k}, Located(table, q) PROVE Place(table, q) <= Place(table, k)
      <4>1. CASE q = k
        BY <3>3, <4>1
      <4>2. CASE q \in visited
        <5>1. Place(table, q) < Start(table, control) /\ Place(table, q) \in Nat
          BY <1>1, <1>4, <2>2, <3>5, <4>2, PlaceOf
        <5> QED BY <3>1, <3>3, <5>1
      <4> QED BY <4>1, <4>2
    <3>6. ASSUME NEW q \in due, Place(table, q) <= Place(table, k) PROVE q \in visited \cup {k}
      <4>1. q \in Keys /\ rawGet(table, q) # Nil /\ Located(table, q) /\ Place(table, q) \in Nat
        BY <1>1, <1>4, PlaceOf
      <4>2. CASE Place(table, q) < Start(table, control)
        BY <2>2, <4>2
      <4>3. CASE ~ Place(table, q) < Start(table, control)
        <5>1. Place(table, q) >= Place(table, k)
          BY <3>1, <3>3, <4>1, <4>3
        <5>2. Place(table, q) = Place(table, k)
          BY <3>3, <3>6, <4>1, <5>1
        <5>3. q = k
          BY <1>1, <3>1, <3>3, <4>1, <5>2, PlaceOf
        <5> QED BY <5>3
      <4> QED BY <4>2, <4>3
    <3>7. InOrder'
      <4>1. due' \subseteq Present' /\ visited' \subseteq Keys /\ control' \in Keys \cup {Nil} /\ control' # Nil
        BY <1>2, <1>3, <1>4, <2>4, <3>1, <3>2 DEF InOrder, Present
      <4> QED BY <1>2, <3>2, <3>5, <3>6, <4>1 DEF InOrder
    <3> QED BY <1>2, <1>3, <3>2, <3>4, <3>7 DEF Looped
  <2> QED BY <2>3, <2>4
<1>6. CASE ~ (control = Nil \/ Located(table, control))
  <2>1. k = InvalidKey
    BY <1>1, <1>4, <1>6, NextKey DEF k
  <2>2. ~ looping' /\ control' # Nil /\ k \notin visited
    BY <1>2, <1>4, <2>1, NilIsNoKey
  <2> QED BY <1>2, <1>3, <2>2 DEF Looped
<1> QED BY <1>5, <1>6

\* What keeps the places and gives no nil to what stays due disturbs no loop.
LEMMA UndisturbedLoop ==
    ASSUME Laid(table), Laid(table'), Looped, looping, KeepsPlaces(table, table'),
           due' \subseteq due, \A q \in due' : rawGet(table', q) # Nil,
           UNCHANGED <<control, looping, visited, repeated>>
    PROVE  Looped'
<1>1. ~ repeated /\ InOrder
  BY DEF Looped
<1>2. PICK h2 : Sound(table', h2)
  BY DEF Laid
<1>3. \A q \in due' : q \in Keys /\ rawGet(table', q) # Nil /\ Located(table', q)
  BY <1>1, <1>2, Places DEF InOrder, Present
<1>4. visited \subseteq Keys /\ control \in Keys \cup {Nil} /\ (control = Nil => visited = {})
  BY <1>1 DEF InOrder
<1>5. ASSUME control # Nil, Located(table', control)
      PROVE  /\ \A q \in visited : Located(table', q) => Place(table', q) <= Place(table', control)
             /\ \A q \in due' : Place(table', q) <= Place(table', control) => q \in visited
  <2>1. Located(table, control) /\ Place(table', control) = Place(table, control)
    BY <1>4, <1>5 DEF KeepsPlaces
  <2>2. /\ \A q \in visited : Located(table, q) => Place(table, q) <= Place(table, control)
        /\ \A q \in due : Place(table, q) <= Place(table, control) => q \in visited
    BY <1>1, <1>5, <2>1 DEF InOrder
  <2>3. \A q \in Keys : Located(table', q) => Located(table, q) /\ Place(table', q) = Place(table, q)
    BY DEF KeepsPlaces
  <2>4. \A q \in visited : Located(table', q) => Place(table', q) <= Place(table', control)
    BY <1>4, <2>1, <2>2, <2>3
  <2>5. ASSUME NEW q \in due', Place(table', q) <= Place(table', control) PROVE q \in visited
    <3>1. q \in due /\ Place(table, q) <= Place(table, control)
      BY <1>3, <2>1, <2>3, <2>5
    <3> QED BY <2>2, <3>1
  <2> QED BY <2>4, <2>5
<1>6. InOrder'
  <2>1. due' \subseteq Present'
    BY <1>3 DEF Present
  <2> QED BY <1>4, <1>5, <2>1 DEF InOrder
<1> QED BY <1>1, <1>6 DEF Looped

\* Assigning in the body of the loop disturbs neither the order nor what is due.
LEMMA AssignLooped ==
    ASSUME Laid(table), Looped, NEW k \in Keys, NEW v \in Vals \cup {Nil}, AssignExisting(k, v)
    PROVE  Looped'
<1>1. /\ looping /\ control # Nil /\ rawGet(table, k) # Nil /\ table' = rawSet(table, k, v)
      /\ due' = IF v = Nil THEN due \ {k} ELSE due
      /\ UNCHANGED <<control, looping, visited, repeated>>
  BY DEF AssignExisting, Set
<1>2. KeepsPlaces(table, table')
  BY <1>1, ExistingStays DEF Laid
<1>3. Laid(table') /\ \A q \in Keys : rawGet(table', q) = IF q = k THEN v ELSE rawGet(table, q)
  BY <1>1, RawSetSound DEF Operation, Becomes
<1>4. due' \subseteq due /\ \A q \in due' : rawGet(table', q) # Nil
  BY <1>1, <1>3 DEF Looped, InOrder, Present
<1> QED BY <1>1, <1>2, <1>3, <1>4, UndisturbedLoop

\* A collection in the middle of the loop takes places away and moves none
\* (clearWeakTables).
LEMMA ClearedStays ==
    ASSUME NEW h, Sound(table, h), NEW dead \in SUBSET Keys, ClearWeak(dead), NEW h2, Sound(table', h2)
    PROVE  KeepsPlaces(table, table')
<1> DEFINE nodes == {i \in DOMAIN table.node : table.node[i].key \in dead}
           arr == [k \in DOMAIN table.array |-> IF k \in dead THEN Nil ELSE table.array[k]]
           nd == [i \in DOMAIN table.node |->
                    IF i \in nodes THEN Node(Nil, Nil, table.node[i].next) ELSE table.node[i]]
           cleared == [table EXCEPT !.array = arr, !.node = nd]
<1>1. h \in Nat /\ table \in Tables(h) /\ asize(table) \in Nat /\ DOMAIN table.node = Numbers(h)
  BY SizesOf DEF Sound
<1>2. h2 \in Nat /\ table' \in Tables(h2) /\ DOMAIN table'.node = Numbers(h2)
  BY SizesOf DEF Sound
<1>3. table' = IF nodes = {} THEN cleared ELSE BumpGen(cleared)
  BY DEF ClearWeak
<1>4. cleared.array = arr /\ cleared.node = nd
  BY <1>1 DEF Tables
<1> HIDE DEF arr, nd
<1>5. table'.array = arr /\ table'.node = nd
  <2> HIDE DEF nodes
  <2>1. BumpGen(cleared).array = cleared.array /\ BumpGen(cleared).node = cleared.node
    BY <1>1 DEF BumpGen, Tables
  <2> HIDE DEF cleared
  <2> QED BY <1>3, <1>4, <2>1
<1>6. asize(table') = asize(table)
  <2>1. DOMAIN arr = DOMAIN table.array
    BY DEF arr
  <2>2. table.array \in Seq(Vals \cup {Nil}) /\ table'.array \in Seq(Vals \cup {Nil})
    BY <1>1, <1>2 DEF Tables
  <2> QED BY <1>5, <2>1, <2>2 DEF asize
<1>7. DOMAIN nd = Numbers(h) /\ \A i \in Numbers(h) : nd[i].key \in {table.node[i].key, Nil}
  BY <1>1 DEF nd, Node
<1>8. ASSUME NEW q \in Keys, Located(table', q) PROVE Located(table, q) /\ Place(table', q) = Place(table, q)
  <2>1. CASE q \in 1 .. asize(table)
    BY <1>6, <2>1 DEF Located, Place, arrayIndex
  <2>2. CASE q \notin 1 .. asize(table)
    <3>1. Find(table', q) # -1
      BY <1>6, <1>8, <2>2 DEF Located, arrayIndex
    <3>2. PICK i \in Numbers(h2) : table'.node[i].key = q
      BY <3>1, Found
    <3>3. i \in Numbers(h) /\ table.node[i].key = q
      BY <1>2, <1>5, <1>7, <3>2, NilIsNoKey
    <3>4. Find(table', q) = i /\ Find(table, q) = i
      BY <3>2, <3>3, Found
    <3> QED BY <1>6, <2>2, <3>1, <3>4 DEF Located, Place, arrayIndex
  <2> QED BY <2>1, <2>2
<1> QED BY <1>8 DEF KeepsPlaces

\* A collection in the middle of a loop disturbs neither the order nor what is due.
LEMMA CollectLooped ==
    ASSUME Laid(table), Looped, NEW dead \in SUBSET Keys, CollectInLoop(dead)
    PROVE  Laid(table') /\ Looped'
<1>1. /\ looping /\ ClearWeak(dead) /\ due' = due \ dead
      /\ UNCHANGED <<control, looping, visited, repeated>>
  BY DEF CollectInLoop
<1>2. Laid(table') /\ \A q \in Keys : rawGet(table', q) = IF q \in dead THEN Nil ELSE rawGet(table, q)
  BY <1>1, ClearWeakSound DEF Operation
<1>3. KeepsPlaces(table, table')
  BY <1>1, <1>2, ClearedStays DEF Laid
<1>4. \A q \in due' : rawGet(table', q) # Nil
  BY <1>1, <1>2 DEF Looped, InOrder, Present
<1> QED BY <1>1, <1>2, <1>3, <1>4, UndisturbedLoop

\* A program with a loop operates on the table as any other does, so what was
\* proved of the table by itself holds while loops run.
LEMMA LoopIsTable == LoopSpec => Spec
<1>1. LoopInit => Init
  BY DEF LoopInit
<1>2. ASSUME [LoopNext]_<<table, loop>> PROVE [Next]_table
  <2>1. ASSUME NEW s \in Stores \cup (Keys \X {Nil}), AssignExisting(s[1], s[2]) PROVE Next
    BY <2>1 DEF AssignExisting, Next
  <2>5. ASSUME NEW dead \in SUBSET Keys \ {{}}, CollectInLoop(dead) PROVE Next
    BY <2>5 DEF CollectInLoop, Next
  <2>2. CASE StartLoop \/ StepLoop \/ Break
    BY <2>2 DEF StartLoop, StepLoop, Break
  <2>3. CASE Between
    BY <2>3 DEF Between
  <2>4. CASE UNCHANGED <<table, loop>>
    BY <2>4
  <2> QED BY <1>2, <2>1, <2>2, <2>3, <2>4, <2>5 DEF LoopNext
<1> QED BY <1>1, <1>2, PTL DEF LoopSpec, Spec

\* No loop gives a key twice or leaves out one that stays, whatever the body
\* clears or assigns and the collector clears, the field it visits included
\* (rawNext).
THEOREM LoopsVisitOnce ==
    ASSUME Staged = FALSE
    PROVE  LoopSpec => []VisitsEachKeyOnce
<1>1. LoopInit => Laid(table) /\ Looped
  BY NewTable DEF LoopInit, Init, Looped
<1>2. ASSUME Laid(table), Looped, [LoopNext]_<<table, loop>> PROVE Laid(table)' /\ Looped'
  <2>1. CASE StartLoop
    <3>1. InOrder'
      BY <2>1 DEF StartLoop, InOrder, Present
    <3> QED BY <1>2, <2>1, <3>1 DEF StartLoop, Looped
  <2>2. CASE StepLoop
    <3>1. Looped'
      BY <1>2, <2>2, StepLooped
    <3> QED BY <1>2, <2>2, <3>1 DEF StepLoop
  <2>3. CASE Break
    BY <1>2, <2>3 DEF Break, Looped
  <2>4. CASE Between
    <3>1. Laid(table')
      BY <1>2, <2>4, NextSteps DEF Between, Step, Operation
    <3> QED BY <1>2, <2>4, <3>1 DEF Between, Looped
  <2>5. ASSUME NEW s \in Stores \cup (Keys \X {Nil}), AssignExisting(s[1], s[2])
        PROVE  Laid(table)' /\ Looped'
    <3>1. s[1] \in Keys /\ s[2] \in Vals \cup {Nil}
      BY StoresAssumption
    <3>2. Looped'
      BY <1>2, <2>5, <3>1, AssignLooped
    <3>3. Laid(table')
      BY <1>2, <2>5, <3>1, RawSetSound DEF AssignExisting, Set, Operation
    <3> QED BY <3>2, <3>3
  <2>6. CASE UNCHANGED <<table, loop>>
    BY <1>2, <2>6 DEF Looped, InOrder, Present, loop
  <2>7. ASSUME NEW dead \in SUBSET Keys \ {{}}, CollectInLoop(dead) PROVE Laid(table)' /\ Looped'
    BY <1>2, <2>7, CollectLooped
  <2> QED BY <1>2, <2>1, <2>2, <2>3, <2>4, <2>5, <2>6, <2>7 DEF LoopNext
<1>3. Looped => VisitsEachKeyOnce
  BY DEF Looped, VisitsEachKeyOnce
<1> QED BY <1>1, <1>2, <1>3, PTL DEF LoopSpec
=============================================================================
