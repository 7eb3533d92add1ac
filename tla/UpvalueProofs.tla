----------------------------- MODULE UpvalueProofs -----------------------------
(***************************************************************************)
(* What the operators of Upvalues do to any thread: whatever is captured,  *)
(* assigned, closed or freed, slots and open upvalues stay linked, and     *)
(* every captured variable keeps its value.                                *)
(***************************************************************************)
EXTENDS Upvalues, ChainLemmas

(* A thread is a record with the fields of Upvalues and any others.        *)
UpvalType(x) ==
  /\ x = [f \in {"open", "idx", "val"} |-> x[f]]
  /\ x.open \in BOOLEAN /\ (x.open => x.idx \in Nat)
Thread(v) ==
  /\ v = [f \in DOMAIN v |-> v[f]]
  /\ {"stack", "open", "maxOpen", "uvs", "next"} \subseteq DOMAIN v
  /\ v.stack = [i \in DOMAIN v.stack |-> v.stack[i]] /\ DOMAIN v.stack \subseteq Nat
  /\ v.open = [i \in DOMAIN v.open |-> v.open[i]] /\ DOMAIN v.open \subseteq DOMAIN v.stack
  /\ v.uvs = [u \in DOMAIN v.uvs |-> v.uvs[u]]
  /\ \A u \in DOMAIN v.uvs : UpvalType(v.uvs[u])
  /\ v.maxOpen \in Nat /\ v.next \in Nat
  /\ \A u \in DOMAIN v.uvs : u \in Nat /\ u < v.next

(* Capture replaces four fields of a thread and keeps the others.          *)
LEMMA Changed ==
  ASSUME NEW v, v = [f \in DOMAIN v |-> v[f]],
         {"stack", "open", "maxOpen", "uvs", "next"} \subseteq DOMAIN v,
         NEW uvs, NEW maxOpen, NEW open, NEW next, NEW w,
         w = [v EXCEPT !.uvs = uvs, !.maxOpen = maxOpen, !.open = open, !.next = next]
  PROVE  /\ w = [f \in DOMAIN w |-> w[f]] /\ DOMAIN w = DOMAIN v
         /\ w.uvs = uvs /\ w.maxOpen = maxOpen /\ w.open = open /\ w.next = next
         /\ w.stack = v.stack
  BY Zenon

(* closeUpvals replaces three fields of a thread and keeps the others.     *)
LEMMA Closed ==
  ASSUME NEW v, v = [f \in DOMAIN v |-> v[f]],
         {"stack", "open", "maxOpen", "uvs", "next"} \subseteq DOMAIN v,
         NEW uvs, NEW maxOpen, NEW open, NEW w,
         w = [v EXCEPT !.uvs = uvs, !.open = open, !.maxOpen = maxOpen]
  PROVE  /\ w = [f \in DOMAIN w |-> w[f]] /\ DOMAIN w = DOMAIN v
         /\ w.uvs = uvs /\ w.maxOpen = maxOpen /\ w.open = open /\ w.next = v.next
         /\ w.stack = v.stack
  BY Zenon

(* Storing into one slot of the stack.                                     *)
LEMMA Stored ==
  ASSUME NEW v, Thread(v), NEW i \in DOMAIN v.stack, NEW val,
         NEW w, w = [v EXCEPT !.stack[i] = val]
  PROVE  /\ w = [f \in DOMAIN w |-> w[f]] /\ DOMAIN w = DOMAIN v
         /\ w.uvs = v.uvs /\ w.maxOpen = v.maxOpen /\ w.open = v.open /\ w.next = v.next
         /\ w.stack = [v.stack EXCEPT ![i] = val]
         /\ w.stack = [j \in DOMAIN w.stack |-> w.stack[j]] /\ DOMAIN w.stack = DOMAIN v.stack
         /\ w.stack[i] = val /\ \A j \in DOMAIN v.stack \ {i} : w.stack[j] = v.stack[j]
<1>1. /\ w = [f \in DOMAIN w |-> w[f]] /\ DOMAIN w = DOMAIN v
      /\ w.uvs = v.uvs /\ w.maxOpen = v.maxOpen /\ w.open = v.open /\ w.next = v.next
      /\ w.stack = [v.stack EXCEPT ![i] = val]
  BY Zenon DEF Thread
<1> QED BY <1>1 DEF Thread

(* A set of slots has a highest one, if one slot is above all of them.     *)
LEMMA Highest ==
  ASSUME NEW S \in SUBSET Nat, NEW b \in Nat, \A i \in S : i <= b, S # {}
  PROVE  \E i \in S : \A j \in S : j <= i
<1> DEFINE T == {m \in Nat : b - m \in S}
<1>1. T \in SUBSET Nat
  OBVIOUS
<1>2. \A j \in S : b - j \in T
  <2> SUFFICES ASSUME NEW j \in S PROVE b - j \in T
    OBVIOUS
  <2>1. j \in Nat /\ j <= b
    OBVIOUS
  <2>2. b - j \in Nat /\ b - (b - j) = j
    BY <2>1
  <2> QED BY <2>2
<1>3. T # {}
  BY <1>2
<1> HIDE DEF T
<1>4. PICK x \in T : \A y \in T : x <= y
  BY <1>1, <1>3, Least
<1>5. b - x \in S /\ x \in Nat
  BY <1>4 DEF T
<1>6. \A j \in S : j <= b - x
  BY <1>2, <1>4, <1>5
<1> QED BY <1>5, <1>6

(* Capturing a slot makes its upvalue, or finds the one it has; no other   *)
(* upvalue is touched, and slots and open upvalues stay linked.            *)
THEOREM CapturingShares ==
  ASSUME NEW v, Thread(v), UpvalsLinked(v), NEW i \in DOMAIN v.stack,
         NEW w, w = findOrCreateUpval(v, i)
  PROVE  /\ Thread(w) /\ UpvalsLinked(w)
         /\ i \in DOMAIN w.open /\ w.open[i] \in DOMAIN w.uvs
         /\ UpvalGet(w, w.open[i]) = v.stack[i]
         /\ \A u \in DOMAIN v.uvs : u \in DOMAIN w.uvs /\ UpvalGet(w, u) = UpvalGet(v, u)
<1> DEFINE uv == [open |-> TRUE, idx |-> i, val |-> Nil]
           max == IF DOMAIN v.open = {} \/ i > v.maxOpen THEN i ELSE v.maxOpen
<1>n. i \in Nat /\ v.next \notin DOMAIN v.uvs
  BY DEF Thread
<1>1. CASE i \in DOMAIN v.open
  <2>1. w = v
    BY <1>1 DEF findOrCreateUpval
  <2>2. UpvalGet(v, v.open[i]) = v.stack[i]
    BY <1>1 DEF UpvalGet, UpvalsLinked
  <2> QED BY <1>1, <2>1, <2>2 DEF UpvalsLinked
<1>2. CASE i \notin DOMAIN v.open
  <2>1. w = Capture(v, i, max)
    BY <1>2 DEF findOrCreateUpval
  <2>2. /\ w = [f \in DOMAIN w |-> w[f]] /\ DOMAIN w = DOMAIN v
        /\ w.uvs = With(v.uvs, v.next, uv) /\ w.maxOpen = max
        /\ w.open = With(v.open, i, v.next) /\ w.next = v.next + 1 /\ w.stack = v.stack
    <3> HIDE DEF max
    <3>1. w = [v EXCEPT !.uvs = With(v.uvs, v.next, uv), !.maxOpen = max,
                        !.open = With(v.open, i, v.next), !.next = v.next + 1]
      BY <2>1, Zenon DEF Capture, Thread
    <3> HIDE DEF uv
    <3>2. v = [f \in DOMAIN v |-> v[f]] /\ {"stack", "open", "maxOpen", "uvs", "next"} \subseteq DOMAIN v
      BY DEF Thread
    <3> QED BY <3>1, <3>2, Changed
  <2>3. /\ w.uvs = [u \in DOMAIN w.uvs |-> w.uvs[u]] /\ DOMAIN w.uvs = DOMAIN v.uvs \cup {v.next}
        /\ w.uvs[v.next] = uv /\ \A u \in DOMAIN v.uvs : w.uvs[u] = v.uvs[u]
    <3> HIDE DEF uv
    <3> QED BY <1>n, <2>2 DEF With
  <2>4. /\ w.open = [z \in DOMAIN w.open |-> w.open[z]] /\ DOMAIN w.open = DOMAIN v.open \cup {i}
        /\ w.open[i] = v.next /\ \A z \in DOMAIN v.open : w.open[z] = v.open[z]
    BY <1>2, <2>2 DEF With
  <2>5. max \in Nat /\ i <= max /\ \A z \in DOMAIN v.open : z <= max
    BY <1>n DEF Thread, UpvalsLinked
  <2>6. UpvalType(uv)
    BY <1>n DEF UpvalType
  <2>7. Thread(w)
    <3> HIDE DEF uv, max
    <3> QED BY <2>2, <2>3, <2>4, <2>5, <2>6 DEF Thread
  <2>8. uv.open /\ uv.idx = i
    OBVIOUS
  <2> HIDE DEF uv, max
  <2>9. UpvalsLinked(w)
    BY <1>2, <2>2, <2>3, <2>4, <2>5, <2>8 DEF UpvalsLinked
  <2> QED BY <2>2, <2>3, <2>4, <2>7, <2>8, <2>9 DEF UpvalGet
<1> QED BY <1>1, <1>2

(* Closing from a level leaves no open upvalue there and loses no value:   *)
(* whatever the slots from that level on are used for next, every captured *)
(* variable reads as before.                                               *)
THEOREM ClosingKeeps ==
  ASSUME NEW v, Thread(v), UpvalsLinked(v), NEW level \in Nat,
         NEW w, w = closeUpvals(v, level)
  PROVE  /\ Thread(w) /\ UpvalsLinked(w)
         /\ \A i \in DOMAIN w.open : i < level
         /\ DOMAIN w.uvs = DOMAIN v.uvs
         /\ \A later : (/\ later.uvs = w.uvs
                        /\ \A i \in Nat : i < level => later.stack[i] = w.stack[i])
                       => \A u \in DOMAIN v.uvs : UpvalGet(later, u) = UpvalGet(v, u)
<1> DEFINE left == {i \in DOMAIN v.open : i < level}
           closing == {v.open[i] : i \in DOMAIN v.open \ left}
           shut(u) == [open |-> FALSE, idx |-> 0, val |-> v.stack[v.uvs[u].idx]]
           uvs == [u \in DOMAIN v.uvs |-> IF u \in closing THEN shut(u) ELSE v.uvs[u]]
           max == IF left = {} THEN 0 ELSE CHOOSE i \in left : \A j \in left : j <= i
<1>1. CASE DOMAIN v.open = {} \/ level > v.maxOpen
  <2>1. w = v
    BY <1>1 DEF closeUpvals
  <2>2. \A i \in DOMAIN v.open : i < level
    BY <1>1 DEF UpvalsLinked, Thread
  <2>3. \A u \in DOMAIN v.uvs : v.uvs[u].open => v.uvs[u].idx \in Nat /\ v.uvs[u].idx < level
    BY <2>2 DEF UpvalsLinked, Thread
  <2> QED BY <2>1, <2>2, <2>3 DEF UpvalGet
<1>2. CASE ~ (DOMAIN v.open = {} \/ level > v.maxOpen)
  <2>1. w = [v EXCEPT !.uvs = uvs, !.open = Restrict(v.open, left), !.maxOpen = max]
    BY <1>2, Zenon DEF closeUpvals, Thread
  <2>2. /\ w = [f \in DOMAIN w |-> w[f]] /\ DOMAIN w = DOMAIN v
        /\ w.uvs = uvs /\ w.maxOpen = max /\ w.open = Restrict(v.open, left)
        /\ w.next = v.next /\ w.stack = v.stack
    <3> HIDE DEF uvs, max, left
    <3> QED BY <2>1, Closed DEF Thread
  <2>3. /\ w.uvs = [u \in DOMAIN w.uvs |-> w.uvs[u]] /\ DOMAIN w.uvs = DOMAIN v.uvs
        /\ \A u \in DOMAIN v.uvs : w.uvs[u] = IF u \in closing THEN shut(u) ELSE v.uvs[u]
    <3> HIDE DEF closing, shut
    <3> QED BY <2>2
  <2>4. /\ w.open = [i \in DOMAIN w.open |-> w.open[i]] /\ DOMAIN w.open = left
        /\ \A i \in left : w.open[i] = v.open[i]
    BY <2>2 DEF Restrict
  <2>5. left \in SUBSET Nat /\ \A i \in left : i <= v.maxOpen
    BY DEF Thread, UpvalsLinked
  <2>6. max \in Nat /\ \A i \in left : i <= max
    <3>1. CASE left = {}
      BY <3>1
    <3>2. CASE left # {}
      <4>1. \E i \in left : \A j \in left : j <= i
        <5> HIDE DEF left
        <5> QED BY <2>5, <3>2, Highest DEF Thread
      <4> QED BY <2>5, <3>2, <4>1
    <3> QED BY <3>1, <3>2
  <2>7. \A u \in DOMAIN v.uvs :
          u \in closing <=> v.uvs[u].open /\ ~ (v.uvs[u].idx < level)
    BY DEF UpvalsLinked
  <2>8. \A u : UpvalType(shut(u)) /\ ~ shut(u).open
    BY DEF UpvalType
  <2>9. \A u : shut(u).val = v.stack[v.uvs[u].idx]
    OBVIOUS
  <2> HIDE DEF uvs, max, closing, shut
  <2>10. Thread(w)
    <3>1. \A u \in DOMAIN w.uvs : UpvalType(w.uvs[u])
      BY <2>3, <2>8 DEF Thread
    <3>2. left \subseteq DOMAIN w.stack
      BY <2>2 DEF Thread
    <3> HIDE DEF left
    <3> QED BY <2>2, <2>3, <2>4, <2>6, <3>1, <3>2 DEF Thread
  <2>11. UpvalsLinked(w)
    <3>1. ASSUME NEW u \in DOMAIN w.uvs, w.uvs[u].open
          PROVE  w.uvs[u].idx \in DOMAIN w.open /\ w.open[w.uvs[u].idx] = u
      BY <2>3, <2>4, <2>7, <2>8, <3>1 DEF UpvalsLinked
    <3>2. ASSUME NEW i \in DOMAIN w.open
          PROVE  /\ w.open[i] \in DOMAIN w.uvs
                 /\ w.uvs[w.open[i]].open /\ w.uvs[w.open[i]].idx = i
                 /\ i <= w.maxOpen
      <4>1. i \in DOMAIN v.open /\ i < level /\ w.open[i] = v.open[i]
        BY <2>4
      <4>2. v.open[i] \in DOMAIN v.uvs \ closing
        BY <2>7, <4>1 DEF UpvalsLinked
      <4> QED BY <2>2, <2>3, <2>4, <2>6, <4>1, <4>2 DEF UpvalsLinked
    <3> QED BY <3>1, <3>2 DEF UpvalsLinked
  <2>12. ASSUME NEW later, later.uvs = w.uvs, NEW u \in DOMAIN v.uvs,
                \A i \in Nat : i < level => later.stack[i] = w.stack[i]
         PROVE  UpvalGet(later, u) = UpvalGet(v, u)
    <3>1. CASE u \in closing
      BY <2>3, <2>7, <2>8, <2>9, <2>12, <3>1 DEF UpvalGet
    <3>2. CASE u \notin closing
      <4>1. w.uvs[u] = v.uvs[u]
        BY <2>3, <3>2
      <4>2. v.uvs[u].open => v.uvs[u].idx \in Nat /\ v.uvs[u].idx < level
        BY <2>7, <3>2 DEF UpvalsLinked, Thread
      <4> QED BY <2>2, <2>12, <4>1, <4>2 DEF UpvalGet
    <3> QED BY <3>1, <3>2
  <2> QED BY <2>3, <2>4, <2>10, <2>11, <2>12
<1> QED BY <1>1, <1>2

(* A register that is written is what its upvalue, if it has one, reads    *)
(* from then on; every other captured variable stays as it is.             *)
THEOREM WritingIsShared ==
  ASSUME NEW v, Thread(v), UpvalsLinked(v), NEW i \in DOMAIN v.stack, NEW val,
         NEW w, w = [v EXCEPT !.stack[i] = val]
  PROVE  /\ Thread(w) /\ UpvalsLinked(w)
         /\ \A u \in DOMAIN v.uvs :
              UpvalGet(w, u) = IF i \in DOMAIN v.open /\ v.open[i] = u THEN val ELSE UpvalGet(v, u)
<1>1. /\ w = [f \in DOMAIN w |-> w[f]] /\ DOMAIN w = DOMAIN v
      /\ w.uvs = v.uvs /\ w.maxOpen = v.maxOpen /\ w.open = v.open /\ w.next = v.next
      /\ w.stack = [j \in DOMAIN w.stack |-> w.stack[j]] /\ DOMAIN w.stack = DOMAIN v.stack
      /\ w.stack[i] = val
  BY Stored
<1>4. \A j \in DOMAIN v.stack \ {i} : w.stack[j] = v.stack[j]
  BY Stored
<1>2. Thread(w)
  BY <1>1 DEF Thread
<1>3. UpvalsLinked(w)
  BY <1>1 DEF UpvalsLinked
<1>5. \A u \in DOMAIN v.uvs : v.uvs[u].open => v.uvs[u].idx \in DOMAIN v.stack
  BY DEF UpvalsLinked, Thread
<1>6. ASSUME NEW u \in DOMAIN v.uvs
      PROVE  UpvalGet(w, u) = IF i \in DOMAIN v.open /\ v.open[i] = u THEN val ELSE UpvalGet(v, u)
  BY <1>1, <1>4, <1>5 DEF UpvalGet, UpvalsLinked
<1> QED BY <1>2, <1>3, <1>6

(* Two closures share a variable if they have the same upvalue, and only   *)
(* then: assigning to one upvalue changes what it and, while it is open,   *)
(* its slot hold, and no other upvalue and no other slot.                  *)
THEOREM AssigningIsLocal ==
  ASSUME NEW v, Thread(v), UpvalsLinked(v), NEW u \in DOMAIN v.uvs, NEW val,
         NEW w, w = UpvalSet(v, u, val)
  PROVE  /\ Thread(w) /\ UpvalsLinked(w)
         /\ UpvalGet(w, u) = val
         /\ \A t \in DOMAIN v.uvs \ {u} : UpvalGet(w, t) = UpvalGet(v, t)
         /\ \A i \in DOMAIN v.stack :
              w.stack[i] = IF i \in DOMAIN v.open /\ v.open[i] = u THEN val ELSE v.stack[i]
<1>1. CASE v.uvs[u].open
  <2> DEFINE at == v.uvs[u].idx
  <2>1. at \in DOMAIN v.stack /\ at \in DOMAIN v.open /\ v.open[at] = u
    BY <1>1 DEF UpvalsLinked, Thread
  <2>2. w = [v EXCEPT !.stack[at] = val]
    BY <1>1 DEF UpvalSet
  <2> HIDE DEF at
  <2>3. Thread(w) /\ UpvalsLinked(w)
    BY <2>1, <2>2, WritingIsShared
  <2>6. UpvalGet(w, u) = val
    <3>1. w.uvs = v.uvs /\ w.stack[at] = val
      BY <2>1, <2>2, Stored
    <3> QED BY <1>1, <3>1 DEF UpvalGet, at
  <2>7. \A t \in DOMAIN v.uvs \ {u} : UpvalGet(w, t) = UpvalGet(v, t)
    BY <2>1, <2>2, WritingIsShared
  <2>4. w.stack[at] = val /\ \A i \in DOMAIN v.stack \ {at} : w.stack[i] = v.stack[i]
    BY <2>1, <2>2, Stored
  <2>5. \A i \in DOMAIN v.open : v.open[i] = u => i = at
    BY DEF UpvalsLinked, at
  <2> QED BY <2>1, <2>3, <2>4, <2>5, <2>6, <2>7
<1>2. CASE ~ v.uvs[u].open
  <2>1. w = [v EXCEPT !.uvs[u].val = val]
    BY <1>2 DEF UpvalSet
  <2> DEFINE uv == [v.uvs[u] EXCEPT !.val = val]
  <2>6. /\ w = [f \in DOMAIN w |-> w[f]] /\ DOMAIN w = DOMAIN v
        /\ w.stack = v.stack /\ w.maxOpen = v.maxOpen /\ w.open = v.open /\ w.next = v.next
        /\ w.uvs = [v.uvs EXCEPT ![u] = uv]
    BY <2>1, Zenon DEF Thread
  <2>7. UpvalType(v.uvs[u])
    BY DEF Thread
  <2>8. /\ uv = [f \in DOMAIN uv |-> uv[f]] /\ DOMAIN uv = {"open", "idx", "val"}
        /\ uv.val = val /\ uv.open = v.uvs[u].open /\ uv.idx = v.uvs[u].idx
    BY <2>7, Zenon DEF UpvalType
  <2> HIDE DEF uv
  <2>9. UpvalType(uv)
    BY <2>7, <2>8 DEF UpvalType
  <2>2. /\ w.uvs = [t \in DOMAIN w.uvs |-> w.uvs[t]] /\ DOMAIN w.uvs = DOMAIN v.uvs
        /\ w.uvs[u] = uv /\ \A t \in DOMAIN v.uvs \ {u} : w.uvs[t] = v.uvs[t]
    BY <2>6 DEF Thread
  <2>3. \A i \in DOMAIN v.open : v.open[i] # u
    BY <1>2 DEF UpvalsLinked
  <2>4. Thread(w)
    BY <2>2, <2>6, <2>9 DEF Thread
  <2>5. UpvalsLinked(w)
    BY <1>2, <2>2, <2>6, <2>8 DEF UpvalsLinked
  <2> QED BY <1>2, <2>2, <2>3, <2>4, <2>5, <2>6, <2>8 DEF UpvalGet
<1> QED BY <1>1, <1>2

(* A collection that keeps the open upvalues, as the roots do, leaves slots *)
(* and open upvalues linked and the values of what it keeps alone.         *)
THEOREM FreeingKeeps ==
  ASSUME NEW v, Thread(v), UpvalsLinked(v), NEW kept \in SUBSET DOMAIN v.uvs,
         \A i \in DOMAIN v.open : v.open[i] \in kept,
         NEW w, w = [v EXCEPT !.uvs = Restrict(v.uvs, kept)]
  PROVE  /\ Thread(w) /\ UpvalsLinked(w)
         /\ \A u \in kept : u \in DOMAIN w.uvs /\ UpvalGet(w, u) = UpvalGet(v, u)
<1>1. /\ w = [f \in DOMAIN w |-> w[f]] /\ DOMAIN w = DOMAIN v
      /\ w.stack = v.stack /\ w.maxOpen = v.maxOpen /\ w.open = v.open /\ w.next = v.next
      /\ w.uvs = Restrict(v.uvs, kept)
  BY Zenon DEF Thread
<1>2. /\ w.uvs = [u \in DOMAIN w.uvs |-> w.uvs[u]] /\ DOMAIN w.uvs = kept
      /\ \A u \in kept : w.uvs[u] = v.uvs[u]
  BY <1>1 DEF Restrict
<1>3. Thread(w)
  BY <1>1, <1>2 DEF Thread
<1>4. UpvalsLinked(w)
  BY <1>1, <1>2 DEF UpvalsLinked
<1> QED BY <1>1, <1>2, <1>3, <1>4 DEF UpvalGet
===============================================================================
