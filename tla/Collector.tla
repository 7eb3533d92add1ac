------------------------------ MODULE Collector ------------------------------
(***************************************************************************)
(* The stop-the-world mark and sweep collector of internal/gc, over a heap *)
(* of objects that are allocated, stored, loaded and dropped between two   *)
(* collections.                                                            *)
(*                                                                         *)
(* An object is abstracted to what the collector reads of it: its type,    *)
(* its colour, the references it always holds (metatable, upvalues, stack  *)
(* slots, environment ...), and, for a table, its entries and the weak     *)
(* mode cached in its header flags.  An array slot is an entry whose key   *)
(* is Scalar.  `roots` is everything markRoots visits.  Every object of    *)
(* the heap is on the sweep chain, whose links are not modelled.  A bucket *)
(* of the string table is the set of the strings in it: its order says no  *)
(* more than which of two equal strings would be found.                    *)
(* A collection runs with the program stopped, but for its finalizers.     *)
(***************************************************************************)
EXTENDS Naturals, Sequences, FiniteSets, SequencesExt

CONSTANTS Addr,         \* addresses the arena may hand out
          Scalar,       \* a value that is not collectable
          OTypes,       \* the object types allocated
          Contents,     \* contents of the strings interned
          Hash,         \* of each of the Contents
          FirstBuckets, \* buckets of the string table at first: 16
          Modes,        \* what a metatable's "__mode" may say
          MaxEntries,   \* entries of one table
          MaxTables,    \* tables allocated at any time
          Finalizers    \* what finalizers do, see below

\* "none": nothing is registered, as in the shipped program, which never calls
\* RegisterFinalizer; "quiet": userdata without fields, and __gc handlers that
\* leave the heap alone; "lua": any userdata and any handler.
ASSUME FinalizersAssumption == Finalizers \in {"none", "quiet", "lua"}
ASSUME ModesAssumption == Modes \subseteq {"", "k", "v", "kv"}
ASSUME ScalarAssumption == Scalar \notin Addr
ASSUME OTypesAssumption == "string" \notin OTypes   \* strings are interned
ASSUME HashAssumption == Hash \in [Contents -> Nat]
ASSUME FirstBucketsAssumption == FirstBuckets \in Nat \ {0}
ASSUME BoundAssumption == MaxEntries \in Nat /\ MaxTables \in Nat

VARIABLES heap,           \* allocated objects: address -> object
          currentWhite,
          phase,          \* where Collect stands; "mutate" when it is not running
          gray,           \* the gray stack
          weakList,
          roots,
          finalizeList, hasFinalizer, toRunFinalizers,
          strBuckets, strMask, strCount

strings == <<strBuckets, strMask, strCount>>
finalizing == <<finalizeList, hasFinalizer, toRunFinalizers>>
vars == <<heap, currentWhite, phase, gray, weakList, roots, finalizing, strings>>

Gray == 2
Black == 3
deadWhite == 1 - currentWhite

Allocated == DOMAIN heap
Colored(S, c) == [o \in Allocated |-> IF o \in S THEN [heap[o] EXCEPT !.color = c] ELSE heap[o]]
Dead(v) == v \in Allocated /\ heap[v].color = deadWhite

WeakKey(mode) == mode \in {"k", "kv"}
WeakVal(mode) == mode \in {"v", "kv"}

----------------------------------------------------------------------------
(* References *)

Refs(obj) == obj.refs \cup {e.key : e \in obj.entries} \cup {e.val : e \in obj.entries}

\* scanObject: the references the collector follows from an object.  Of an entry
\* of a weak table it follows the strong side, whatever becomes of the other.
ScanNoWeakTable(obj) == IF obj.mode = "" THEN Refs(obj) \ {Scalar} ELSE obj.refs
scanObject(obj) ==
    (obj.refs \cup {e.key : e \in {f \in obj.entries : ~ WeakKey(obj.mode)}}
              \cup {e.val : e \in {f \in obj.entries : ~ WeakVal(obj.mode)}}) \ {Scalar}

\* What follows from the roots along some references of the objects: what no
\* set holding the roots and closed under these references leaves out.
Closed(S, follow) == roots \subseteq S /\ \A o \in S : follow[o] \subseteq S
Following(follow) == {o \in Allocated : \A S \in SUBSET Allocated : Closed(S, follow) => o \in S}

\* What a program can get at, by strong and by weak references.
Accessible == Following([o \in Allocated |-> Refs(heap[o]) \ {Scalar}])

----------------------------------------------------------------------------
(* The program *)

\* Collect stands still for the program, except while a __gc handler runs.
Running == phase = "mutate" \/ (phase = "finalizing" /\ Finalizers = "lua")

collectorVars == <<currentWhite, phase, gray, weakList>>

\* LinkSweep gives a new object the colour the next collection looks for.
NewColorCurrent == currentWhite
NewColor == deadWhite
LinkSweep(a, obj) ==
    heap' = [o \in Allocated \cup {a} |-> IF o = a THEN [obj EXCEPT !.color = NewColor] ELSE heap[o]]

Object(otype, content) ==
    [otype |-> otype, color |-> 0, refs |-> {}, entries |-> {}, mode |-> "", content |-> content]

\* The alloc helpers: the new object is a root before the next safepoint.
Alloc(a, otype) ==
    /\ Running
    /\ a \notin Allocated
    /\ otype = "table" => Cardinality({o \in Allocated : heap[o].otype = "table"}) < MaxTables
    /\ LinkSweep(a, Object(otype, Scalar))
    /\ roots' = roots \cup {a}
    /\ UNCHANGED <<collectorVars, finalizing, strings>>

\* The string table is an index that keeps nothing alive: a reference to each
\* string, in the bucket its hash selects (h & strMask, the number of buckets being
\* a power of two).  A bucket is searched for the contents.
Strings == {s \in Allocated : heap[s].otype = "string"}
Bucket(c) == Hash[c] % (strMask + 1)
stringMatches(s, c) == s \in Strings /\ heap[s].content = c

\* The buckets are doubled, and the strings in `buckets` distributed anew.
rehashStringTable(buckets) ==
    LET newMask == strMask * 2 + 1
        listed == UNION {buckets[b] : b \in DOMAIN buckets}
    IN  /\ strMask' = newMask
        /\ strBuckets' = [b \in 0 .. newMask |->
                           {s \in listed : Hash[heap'[s].content] % (newMask + 1) = b}]

\* The string object of these contents, if its bucket has it, else a new one.
Interned(c) == {s \in strBuckets[Bucket(c)] : stringMatches(s, c)}
Listed(a, c) == [strBuckets EXCEPT ![Bucket(c)] = @ \cup {a}]
Intern(c) ==
    /\ Running
    /\ IF Interned(c) # {}
       THEN /\ \E s \in Interned(c) : roots' = roots \cup {s}
            /\ UNCHANGED <<heap, strings>>
       ELSE \E a \in Addr \ Allocated :
            /\ LinkSweep(a, Object("string", c))
            /\ roots' = roots \cup {a}
            /\ strCount' = strCount + 1
            /\ IF strCount + 1 > strMask + 1
               THEN rehashStringTable(Listed(a, c))
               ELSE strBuckets' = Listed(a, c) /\ UNCHANGED strMask
    /\ UNCHANGED <<collectorVars, finalizing>>

\* A value is loaded into a register, out of any object the program can get at.
Load(o) ==
    /\ Running
    /\ o \in Accessible \ roots
    /\ roots' = roots \cup {o}
    /\ UNCHANGED <<heap, collectorVars, finalizing, strings>>

Forget(o) ==
    /\ Running
    /\ o \in roots
    /\ roots' = roots \ {o}
    /\ UNCHANGED <<heap, collectorVars, finalizing, strings>>

Update(o, obj) ==
    /\ heap' = [heap EXCEPT ![o] = obj]
    /\ UNCHANGED <<roots, collectorVars, finalizing, strings>>

HasRefs(otype) == otype \in {"closure", "upval", "thread"} \/ (otype = "userdata" /\ Finalizers = "lua")

\* A field is replaced, by nil for Scalar: an upvalue, a stack slot, a metatable.
SetRef(o, r) ==
    /\ Running
    /\ o \in roots /\ HasRefs(heap[o].otype)
    /\ Update(o, [heap[o] EXCEPT !.refs = {r} \ {Scalar}])

\* rawSet: Scalar as the key stands for the array part; storing over a key, or
\* nil, drops the old entry.
Keep(obj, k) == {e \in obj.entries : e.key # k}
RawSet(o, k, v) ==
    /\ Running
    /\ o \in roots /\ heap[o].otype = "table"
    /\ Cardinality(Keep(heap[o], k)) < MaxEntries
    /\ Update(o, [heap[o] EXCEPT !.entries = Keep(heap[o], k) \cup {[key |-> k, val |-> v]}])
RawSetNil(o, k) ==
    /\ Running
    /\ o \in roots /\ heap[o].otype = "table"
    /\ Update(o, [heap[o] EXCEPT !.entries = Keep(heap[o], k)])

\* setmetatable: what the metatable says now of weakness is cached.
SetMeta(o, mt, m) ==
    /\ Running
    /\ o \in roots /\ heap[o].otype = "table"
    /\ \/ /\ mt = Scalar
          /\ Update(o, [heap[o] EXCEPT !.refs = {}, !.mode = ""])
       \/ /\ mt \in roots /\ heap[mt].otype = "table"
          /\ Update(o, [heap[o] EXCEPT !.refs = {mt}, !.mode = m])

RegisterFinalizer(ud) ==
    /\ Finalizers # "none" /\ Running
    /\ ud \in roots /\ heap[ud].otype = "userdata"
    /\ ud \notin hasFinalizer
    /\ hasFinalizer' = hasFinalizer \cup {ud}
    /\ finalizeList' = Append(finalizeList, ud)
    /\ UNCHANGED <<heap, roots, collectorVars, toRunFinalizers, strings>>

----------------------------------------------------------------------------
(* Collect *)

\* The guard against recursion is the phase: a Collect inside a finalizer
\* returns at once.
markRoots ==
    /\ phase = "mutate"
    /\ phase' = "mark"
    /\ gray' = {o \in roots : Dead(o)}
    /\ heap' = Colored(gray', Gray)
    /\ UNCHANGED <<currentWhite, weakList, roots, finalizing, strings>>

\* One turn of markAll: blacken, scan, and gray the dead-white children.
markAll(o) ==
    /\ phase = "mark" /\ o \in gray
    /\ LET fresh == {c \in scanObject(heap[o]) : Dead(c)}
       IN  /\ gray' = (gray \ {o}) \cup fresh
           /\ heap' = [c \in Allocated |->
                         IF c = o THEN [heap[c] EXCEPT !.color = Black]
                         ELSE IF c \in fresh THEN [heap[c] EXCEPT !.color = Gray]
                         ELSE heap[c]]
    /\ weakList' = IF heap[o].mode # "" THEN weakList \cup {o} ELSE weakList
    /\ UNCHANGED <<currentWhite, phase, roots, finalizing, strings>>

markDone ==
    /\ phase = "mark" /\ gray = {}
    /\ phase' = "separate"
    /\ UNCHANGED <<heap, currentWhite, gray, weakList, roots, finalizing, strings>>

\* The elements of s that are in S, in their order.
Selected(s, S) ==
    LET upTo[n \in 0 .. Len(s)] ==
            IF n = 0 THEN <<>> ELSE IF s[n] \in S THEN Append(upTo[n - 1], s[n]) ELSE upTo[n - 1]
    IN  upTo[Len(s)]

\* Unreached userdata with a finalizer turn black; what they refer to does not.
Resurrected == {ud \in ToSet(finalizeList) : Dead(ud)}
separateFinalizers ==
    /\ phase = "separate"
    /\ phase' = "clear"
    /\ IF finalizeList = <<>>
       THEN UNCHANGED <<heap, toRunFinalizers, finalizeList>>
       ELSE /\ heap' = Colored(Resurrected, Black)
            /\ toRunFinalizers' = toRunFinalizers \o Selected(finalizeList, Resurrected)
            /\ finalizeList' = Selected(finalizeList, Allocated \ Resurrected)
    /\ UNCHANGED <<currentWhite, gray, weakList, roots, hasFinalizer, strings>>

DeadKeyOnly(obj, e) == WeakKey(obj.mode) /\ Dead(e.key)
DeadEntry(obj, e) == (WeakKey(obj.mode) /\ Dead(e.key)) \/ (WeakVal(obj.mode) /\ Dead(e.val))
clearWeakTables ==
    /\ phase = "clear"
    /\ phase' = "sweep"
    /\ heap' = [o \in Allocated |->
                  IF o \in weakList
                  THEN [heap[o] EXCEPT !.entries = {e \in @ : ~ DeadEntry(heap[o], e)}]
                  ELSE heap[o]]
    /\ weakList' = {}
    /\ UNCHANGED <<currentWhite, gray, roots, finalizing, strings>>

\* Freed strings leave the table, each the bucket of its own hash: the hash is read
\* before Free overwrites the word that holds it (removeAfterFree reads a 0).
removeAfterFree(freed) ==
    LET found == {s \in freed \cap Strings : s \in strBuckets[0]}
    IN  /\ strBuckets' = [strBuckets EXCEPT ![0] = @ \ found]
        /\ strCount' = strCount - Cardinality(found)
        /\ UNCHANGED strMask
removeFromStringTable(freed) ==
    LET found == {s \in freed \cap Strings : s \in strBuckets[Bucket(heap[s].content)]}
    IN  /\ strBuckets' = [b \in DOMAIN strBuckets |->
                           strBuckets[b] \ {s \in found : Bucket(heap[s].content) = b}]
        /\ strCount' = strCount - Cardinality(found)
        /\ UNCHANGED strMask

\* What stayed dead-white is freed; freeing a userdata forgets that it had a
\* finalizer, so that its address may register again.
ForgotNone(freed) == {}
Forgotten(freed) == freed
sweep ==
    /\ phase = "sweep"
    /\ phase' = "finalize"
    /\ LET freed == {o \in Allocated : Dead(o)}
       IN  /\ heap' = [o \in Allocated \ freed |-> [heap[o] EXCEPT !.color = currentWhite]]
           /\ hasFinalizer' = hasFinalizer \ Forgotten(freed)
           /\ removeFromStringTable(freed)
    /\ UNCHANGED <<currentWhite, gray, weakList, roots, finalizeList, toRunFinalizers>>

\* __gc handlers run last registered first, with the userdata as argument.
runFinalizer ==
    /\ phase \in {"finalize", "finalizing"}
    /\ toRunFinalizers # <<>>
    /\ phase' = "finalizing"
    /\ roots' = roots \cup {Last(toRunFinalizers)}
    /\ toRunFinalizers' = Front(toRunFinalizers)
    /\ UNCHANGED <<heap, currentWhite, gray, weakList, finalizeList, hasFinalizer, strings>>

FlipNever == currentWhite
Flip == 1 - currentWhite
endCollect ==
    /\ phase \in {"finalize", "finalizing"}
    /\ toRunFinalizers = <<>>
    /\ phase' = "mutate"
    /\ currentWhite' = Flip
    /\ UNCHANGED <<heap, gray, weakList, roots, finalizing, strings>>

Collect ==
    \/ markRoots
    \/ \E o \in gray : markAll(o)
    \/ markDone \/ separateFinalizers \/ clearWeakTables \/ sweep \/ runFinalizer \/ endCollect

----------------------------------------------------------------------------
Init ==
    /\ heap = [o \in {} |-> Object("table", Scalar)]
    /\ currentWhite = 0
    /\ phase = "mutate"
    /\ gray = {} /\ weakList = {}
    /\ roots = {}
    /\ finalizeList = <<>> /\ hasFinalizer = {} /\ toRunFinalizers = <<>>
    /\ strMask = FirstBuckets - 1 /\ strCount = 0
    /\ strBuckets = [b \in 0 .. FirstBuckets - 1 |-> {}]

Mutate ==
    \/ \E a \in Addr, t \in OTypes : Alloc(a, t)
    \/ \E c \in Contents : Intern(c)
    \/ \E o \in Allocated : Load(o) \/ Forget(o) \/ RegisterFinalizer(o)
    \/ \E o \in roots, r \in roots \cup {Scalar} : SetRef(o, r)
    \/ \E o \in roots, k, v \in roots \cup {Scalar} : RawSet(o, k, v) \/ RawSetNil(o, k)
    \/ \E o \in roots, mt \in roots \cup {Scalar}, m \in Modes : SetMeta(o, mt, m)

Next == Mutate \/ Collect
Spec == Init /\ [][Next]_vars

----------------------------------------------------------------------------
(* Properties *)

\* Shapes of the variables but the string table's, which StringsInternedOnce gives.
ObjectType == [otype : OTypes \cup {"string"}, color : 0 .. 3, refs : SUBSET Addr,
               entries : SUBSET [key : Addr \cup {Scalar}, val : Addr \cup {Scalar}],
               mode : Modes \cup {""}, content : Contents \cup {Scalar}]
TypeOK ==
    /\ Allocated \subseteq Addr /\ heap \in [Allocated -> ObjectType]
    /\ currentWhite \in {0, 1}
    /\ phase \in {"mutate", "mark", "separate", "clear", "sweep", "finalize", "finalizing"}
    /\ gray \subseteq Addr /\ weakList \subseteq Addr /\ roots \subseteq Addr
    /\ finalizeList \in Seq(Addr) /\ toRunFinalizers \in Seq(Addr) /\ hasFinalizer \subseteq Addr

\* A string is interned once, so that comparing addresses compares contents: no
\* two strings of the heap are equal, and the string table lists just the strings
\* of the heap, none of them freed, each where a search for its contents looks.
StringsInternedOnce ==
    /\ DOMAIN strBuckets = 0 .. strMask
    /\ \A b \in 0 .. strMask : strBuckets[b] = {s \in Strings : Bucket(heap[s].content) = b}
    /\ \A s, t \in Strings : heap[s].content = heap[t].content => s = t
    /\ strCount = Cardinality(Strings)

\* Nothing the program or the collector can follow leads to a freed object:
\* roots, references, weak entries that outlived a collection, queues.
NoDangling ==
    /\ roots \cup gray \cup weakList \subseteq Allocated
    /\ \A o \in Allocated : Refs(heap[o]) \subseteq Allocated \cup {Scalar}
    /\ ToSet(finalizeList) \cup ToSet(toRunFinalizers) \subseteq Allocated

\* What keeps objects alive: fields, and the sides of entries that are not weak.
Strong(obj) ==
    {r \in Refs(obj) \ {Scalar} :
        \/ r \in obj.refs
        \/ \E e \in obj.entries : r = e.key /\ obj.mode \in {"", "v"}
        \/ \E e \in obj.entries : r = e.val /\ obj.mode \in {"", "k"}}
Reachable == Following([o \in Allocated |-> Strong(heap[o])])

\* When marking is over, exactly the reachable objects are black, through any
\* order of scanning, cycles and weak tables included: nothing floats.
MarkIsExact == phase = "separate" => {o \in Allocated : heap[o].color = Black} = Reachable

\* A sweep frees nothing the program can still get at, by strong or weak ways.
SweepSpares == [][phase = "sweep" => Accessible \subseteq DOMAIN heap']_vars

\* Between collections every object is in the colour the next one looks for.
\* markRef takes any other colour for an object already handled.
NewbornsAreCandidates == phase = "mutate" => \A o \in Allocated : heap[o].color = deadWhite

\* A finalizer is owed at most once, to a userdata, and its address is free to
\* register again only once the userdata is gone.
FinalizerOwedOnce ==
    /\ hasFinalizer \subseteq {o \in Allocated : heap[o].otype = "userdata"}
    /\ ToSet(finalizeList) \cup ToSet(toRunFinalizers) \subseteq hasFinalizer
    /\ IsInjective(finalizeList \o toRunFinalizers)
=============================================================================
