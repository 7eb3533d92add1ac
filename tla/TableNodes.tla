------------------------------ MODULE TableNodes ------------------------------
(***************************************************************************)
(* The layout of one Lua table (rawtable.go): an array part for the keys   *)
(* 1 .. asize, and a hash part of 2^n nodes linked in collision chains,    *)
(* with Brent's variation for a key that finds its main position taken by  *)
(* a node of another chain.  `gen` is the generation that inline caches    *)
(* compare.  Keys are the integers 1 .. MaxInt, for which the array part   *)
(* competes, and the members of Name, which only the hash part can hold;   *)
(* normKey has already folded -0.0, and nil and NaN were refused.          *)
(***************************************************************************)
EXTENDS Integers, Sequences, FiniteSetsExt

CONSTANTS Name, MaxInt,  \* the keys
          Hash,          \* hashValue: key -> natural number
          Vals,          \* the values stored
          Collectable,   \* those a weak table may lose
          Stores,        \* the <<key, value>> pairs the program stores
          Nil, InvalidKey,  \* no value; the error "invalid key to 'next'"
          InitSizes,     \* <<asize, hsize>> of tables as NEWTABLE makes them
          PreSizes,      \* sizes given to Preallocate
          Staged,        \* may Preallocate come after integer keys were hashed?
          MaxArraySize,  \* maxArraySize
          GenSize        \* generations are counted modulo GenSize, 2^32

Keys == Name \cup 1 .. MaxInt

Power(n) ==
    LET double[i \in 0 .. n] == IF i = 0 THEN 1 ELSE 2 * double[i - 1] IN double[n]
NodeCount(n) == n \in {0} \cup {Power(b) : b \in 0 .. n}

ASSUME NameAssumption == Name \cap Nat = {}
ASSUME HashAssumption == Hash \in [Keys -> Nat]
ASSUME NilAssumption == {Nil, InvalidKey} \cap (Keys \cup Vals) = {} /\ Nil # InvalidKey /\ Collectable \subseteq Vals
ASSUME SizesAssumption ==
    InitSizes \subseteq Nat \X Nat /\ PreSizes \subseteq Nat /\ \A s \in InitSizes : NodeCount(s[2])
ASSUME LimitsAssumption ==
    MaxInt \in Nat /\ MaxArraySize \in Nat /\ GenSize \in Nat \ {0} /\ Staged \in BOOLEAN
ASSUME StoresAssumption == Stores \subseteq Keys \X Vals

VARIABLE table   \* [array, node, lastfree, gen]

Node(k, v, n) == [key |-> k, val |-> v, next |-> n]
EmptyNode == Node(Nil, Nil, -1)
EmptyWhateverNext(node) == node.key = Nil /\ node.val = Nil
Empty(node) == node.key = Nil /\ node.val = Nil /\ node.next < 0

\* AllocTable, as NEWTABLE calls it; SetTableArray and SetTableNode of rehash.
Layout(asize, hsize, lastfree, gen) ==
    [array |-> [i \in 1 .. asize |-> Nil], node |-> [i \in 0 .. hsize - 1 |-> EmptyNode],
     lastfree |-> lastfree, gen |-> gen]
AllocTable(asize, hsize) == Layout(asize, hsize, 0, 0)

asize(t) == Len(t.array)
hsize(t) == Cardinality(DOMAIN t.node)
BumpGen(t) == [t EXCEPT !.gen = (@ + 1) % GenSize]
arrayIndex(t, k) == k \in 1 .. asize(t)

----------------------------------------------------------------------------
(* Looking up *)

mainPosition(t, k) == Hash[k] % hsize(t)

\* The node of a key: -1 when its chain ends without it.
Find(t, k) ==
    LET walk[i \in DOMAIN t.node \cup {-1}] ==
            IF i = -1 THEN -1 ELSE IF t.node[i].key = k THEN i ELSE walk[t.node[i].next]
    IN  IF hsize(t) = 0 THEN -1 ELSE walk[mainPosition(t, k)]

rawGet(t, k) ==
    IF arrayIndex(t, k) THEN t.array[k]
    ELSE LET i == Find(t, k) IN IF i = -1 THEN Nil ELSE t.node[i].val

----------------------------------------------------------------------------
(* Inserting *)

\* The search goes down from lastfree and does not come back.
findFreeNode(t) ==
    LET free == {i \in DOMAIN t.node : i < t.lastfree /\ Empty(t.node[i])}
    IN  IF free = {} THEN -1 ELSE Max(free)

\* The node before `target` on the chain that starts at `from`.
Predecessor(t, from, target) ==
    LET walk[i \in DOMAIN t.node \cup {-1}] ==
            IF i = -1 THEN -1 ELSE IF t.node[i].next = target THEN i ELSE walk[t.node[i].next]
    IN  walk[from]

\* The occupant of m gives way: it moves to the free node, its chain with it.
\* Other keys may now be found where it was, so the generation changes.
MoveUnlinked(t, m, free) == BumpGen([t EXCEPT !.node[free] = t.node[m]])
MoveSilently(t, m, free) ==
    [t EXCEPT !.node[free] = t.node[m],
              !.node[Predecessor(t, mainPosition(t, t.node[m].key), m)].next = free]
Move(t, m, free) ==
    BumpGen([t EXCEPT !.node[free] = t.node[m],
                      !.node[Predecessor(t, mainPosition(t, t.node[m].key), m)].next = free])

HasRoom(t, k) ==
    hsize(t) > 0 /\ (Empty(t.node[mainPosition(t, k)]) \/ findFreeNode(t) # -1)

insertNewKey(t, k, v) ==
    LET m == mainPosition(t, k)
        occ == t.node[m]
        free == findFreeNode(t)
        taken == [t EXCEPT !.lastfree = free]
    IN  IF Empty(occ) THEN [t EXCEPT !.node[m] = Node(k, v, -1)]
        ELSE IF occ.key # Nil /\ mainPosition(t, occ.key) # m
             THEN [Move(taken, m, free) EXCEPT !.node[m] = Node(k, v, -1)]
             ELSE [taken EXCEPT !.node[free] = Node(k, v, occ.next), !.node[m].next = free]

\* Deleting keeps the node on its chain; its node may serve another key.
DeleteSilently(t, i) == [t EXCEPT !.node[i].key = Nil, !.node[i].val = Nil]
DeleteUnlinked(t, i) == BumpGen([t EXCEPT !.node[i] = EmptyNode])
Delete(t, i) == BumpGen([t EXCEPT !.node[i].key = Nil, !.node[i].val = Nil])

\* rawSet where a new key finds room.
Store(t, k, v) ==
    LET i == Find(t, k)
    IN  IF arrayIndex(t, k) THEN [t EXCEPT !.array[k] = v]
        ELSE IF i # -1 THEN IF v = Nil THEN Delete(t, i) ELSE [t EXCEPT !.node[i].val = v]
        ELSE IF v = Nil THEN t ELSE insertNewKey(t, k, v)

----------------------------------------------------------------------------
(* Rehashing *)

\* Every slot, in the order in which the live fields are put back.
Live(e) == e.key # Nil /\ e.val # Nil
Slots(t) ==
    [i \in 1 .. asize(t) + hsize(t) |->
        IF i <= asize(t) THEN Node(i, t.array[i], -1) ELSE t.node[i - asize(t) - 1]]
LiveSlots(slots) == {i \in DOMAIN slots : Live(slots[i])}

CountUpTo(slots, extraKey, n) ==
    Cardinality({i \in LiveSlots(slots) : slots[i].key \in 1 .. n}) + IF extraKey \in 1 .. n THEN 1 ELSE 0

\* The largest power of two more than half full of integer keys; the search
\* stops at the first that holds the largest key.
bestASize(slots, extraKey) ==
    LET ints == {k \in {slots[i].key : i \in LiveSlots(slots)} \cup {extraKey} : k \in 1 .. MaxInt}
        sizes == {n \in {Power(b) : b \in 0 .. MaxInt} :
                     /\ n <= MaxArraySize
                     /\ n = 1 \/ \E k \in ints : n \div 2 < k
                     /\ CountUpTo(slots, extraKey, n) > n \div 2}
    IN  IF sizes = {} THEN 0 ELSE Max(sizes)

\* The smallest power of two for the rest and one more; none for no rest.
newHSize(n) == IF n = 0 THEN 0 ELSE Min({s \in {Power(b) : b \in 0 .. n} : s >= n + 1})

\* The live fields stored one after the other.
Refilled(slots, fresh) ==
    LET put[i \in 0 .. Len(slots)] ==
            IF i = 0 THEN fresh
            ELSE IF Live(slots[i]) THEN Store(put[i - 1], slots[i].key, slots[i].val) ELSE put[i - 1]
    IN  put[Len(slots)]

rehash(t, extraKey) ==
    LET slots == Slots(t)
        best == bestASize(slots, extraKey)
        rest == Cardinality(LiveSlots(slots)) + 1 - CountUpTo(slots, extraKey, best)
        hs == newHSize(rest)
    IN  Refilled(slots, BumpGen(Layout(best, hs, hs, t.gen)))

\* A new key that finds no room is stored again after a rehash that counted it.
rawSet(t, k, v) ==
    IF v # Nil /\ ~ arrayIndex(t, k) /\ Find(t, k) = -1 /\ ~ HasRoom(t, k)
    THEN Store(rehash(t, k), k, v)
    ELSE Store(t, k, v)

----------------------------------------------------------------------------
(* Reading the whole table *)

\* #t: a binary search of the array part when its last slot is nil, else the
\* first absent integer key after it.
Halved(t, b) ==
    LET mid == (b[1] + b[2]) \div 2
    IN  IF b[2] - b[1] <= 1 THEN b
        ELSE IF t.array[mid] = Nil THEN <<b[1], mid>> ELSE <<mid, b[2]>>
Bisect(t) ==
    LET bounds[n \in 0 .. asize(t)] ==
            IF n = 0 THEN <<0, asize(t)>> ELSE Halved(t, bounds[n - 1])
    IN  bounds[asize(t)][1]
Probe(t) ==
    LET from[n \in Nat] ==
            IF n + 1 \notin Keys \/ rawGet(t, n + 1) = Nil THEN n ELSE from[n + 1]
    IN  from[asize(t)]
rawBorder(t) ==
    IF asize(t) > 0 /\ t.array[asize(t)] = Nil THEN Bisect(t) ELSE Probe(t)

\* next(t, k): the array part in order, then the nodes in order.  The answer is
\* a key, Nil after the last one, or an error for a key that is not there.
FirstFrom(t, a, n) ==
    LET as == {i \in a .. asize(t) : t.array[i] # Nil}
        ns == {i \in DOMAIN t.node : i >= n /\ t.node[i].key # Nil /\ t.node[i].val # Nil}
    IN  IF as # {} THEN Min(as) ELSE IF ns # {} THEN t.node[Min(ns)].key ELSE Nil
AfterNextNode(t, i) == FirstFrom(t, asize(t) + 1, i + 2)
AfterNode(t, i) == FirstFrom(t, asize(t) + 1, i + 1)
rawNext(t, k) ==
    IF k = Nil THEN FirstFrom(t, 1, 0)
    ELSE IF arrayIndex(t, k) THEN FirstFrom(t, k + 1, 0)
    ELSE IF Find(t, k) = -1 THEN InvalidKey
    ELSE AfterNode(t, Find(t, k))

----------------------------------------------------------------------------
(* Operations on the table *)

Set(k, v) == table' = rawSet(table, k, v)

\* PreallocateArray: the array part grows, and the hash part stays as it is.
Hashed(t) == {n.key : n \in {t.node[i] : i \in DOMAIN t.node}}
Preallocate(n) ==
    /\ n > asize(table)
    /\ Staged \/ Hashed(table) \cap 1 .. n = {}
    /\ table' = BumpGen([table EXCEPT !.array = @ \o [i \in 1 .. n - asize(table) |-> Nil]])

\* clearWeakTables: fields whose value died; one bump for all cleared nodes.
ClearWeak(dead) ==
    LET nodes == {i \in DOMAIN table.node : table.node[i].key \in dead}
        cleared ==
            [table EXCEPT
                !.array = [k \in DOMAIN @ |-> IF k \in dead THEN Nil ELSE @[k]],
                !.node = [i \in DOMAIN @ |-> IF i \in nodes THEN Node(Nil, Nil, @[i].next) ELSE @[i]]]
    IN  /\ \A k \in dead : rawGet(table, k) \in Collectable
        /\ table' = IF nodes = {} THEN cleared ELSE BumpGen(cleared)

Init == \E s \in InitSizes : table = AllocTable(s[1], s[2])

Next ==
    \/ \E s \in Stores \cup (Keys \X {Nil}) : Set(s[1], s[2])
    \/ \E n \in PreSizes : Preallocate(n)
    \/ \E dead \in SUBSET Keys \ {{}} : ClearWeak(dead)

Spec == Init /\ [][Next]_table

----------------------------------------------------------------------------
(* Properties *)

\* The shape of the layout.
TypeOK ==
    /\ table.array \in Seq(Vals \cup {Nil})
    /\ NodeCount(hsize(table)) /\ DOMAIN table.node = 0 .. hsize(table) - 1
    /\ \A i \in DOMAIN table.node :
         table.node[i] \in [key : Keys \cup {Nil}, val : Vals \cup {Nil}, next : -1 .. hsize(table) - 1]
    /\ table.lastfree \in 0 .. hsize(table) /\ table.gen \in 0 .. GenSize - 1

\* The table as the program sees it.
Fields(t) == [k \in Keys |-> rawGet(t, k)]
Plain == INSTANCE LuaTable WITH fields <- Fields(table)

\* No collision, relocation, deletion, rehash or cleared entry loses, duplicates
\* or confuses a field: reading every key gives what a plain table would, and
\* every operation does to it what its name says.  A store gives its own key its
\* own value, also where it leaves the layout as it was (rawSet); the array part
\* grows without a change of the fields; the collector takes the dead ones only.
KeepsPromise ==
    /\ Plain!Spec
    /\ [](\A s \in Stores \cup (Keys \X {Nil}) :
             Fields(rawSet(table, s[1], s[2])) = [Fields(table) EXCEPT ![s[1]] = s[2]])
    /\ [][/\ \A n \in PreSizes : Preallocate(n) => Fields(table') = Fields(table)
          /\ \A dead \in SUBSET {k \in Keys : rawGet(table, k) \in Collectable} :
               ClearWeak(dead) => Plain!Lose(dead)]_table

\* A chain never forks into another, and no node that the search for a free one
\* may still return is on a chain: this is why reusing an emptied node is safe
\* (findFreeNode).  And #t is a border, whatever mixture of array and hash holds
\* the integer keys (rawBorder).
LayoutSound ==
    /\ TypeOK
    /\ \A i, j \in DOMAIN table.node :
         table.node[i].next = j =>
             /\ j >= table.lastfree
             /\ i # j
             /\ \A other \in DOMAIN table.node : table.node[other].next = j => other = i
    /\ LET n == rawBorder(table)
       IN  /\ n = 0 \/ rawGet(table, n) # Nil
           /\ n + 1 \in Keys => rawGet(table, n + 1) = Nil

\* The contract of gen (rawtable.go): whoever remembers where a key was, and at
\* which generation, is warned before that place holds something else.
GenContract ==
    [][/\ asize(table') # asize(table) => table'.gen # table.gen
       /\ \A i \in DOMAIN table.node :
            table.node[i].val # Nil =>
                \/ table'.gen # table.gen
                \/ i \in DOMAIN table'.node /\ table'.node[i].key = table.node[i].key]_table
=============================================================================
