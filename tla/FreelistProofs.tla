--------------------------- MODULE FreelistProofs ---------------------------
(***************************************************************************)
(* For every geometry and capacity: Freelist keeps its blocks disjoint and *)
(* its index exact, loses and miscounts no free space, and implements      *)
(* BlockStore.                                                             *)
(***************************************************************************)
EXTENDS Freelist, ChainLemmas, FiniteSetTheorems

----------------------------------------------------------------------------
(* Size classes *)

\* What the assumption on the geometry says of single classes.
LEMMA GeometryFacts ==
    /\ \A c \in Classes : ClassWords[c] \in Nat \ {0} /\ ClassWords[c] <= Threshold
    /\ Threshold \in Nat /\ Threshold >= 2
    /\ Len(ClassWords) \in Nat \ {0} /\ ClassWords[Len(ClassWords)] = Threshold
    /\ \A c, d \in Classes : ClassWords[c] = ClassWords[d] => c = d
<1>1. Len(ClassWords) \in Nat \ {0}
  BY GeometryAssumption, EmptySeq
<1>2. \A c \in Classes : ClassWords[c] \in Nat \ {0}
  BY GeometryAssumption, <1>1 DEF Classes
<1>3. \A c \in Classes : ClassWords[c] <= Threshold
  BY GeometryAssumption, <1>1, <1>2 DEF Classes, Threshold
<1>4. \A c, d \in Classes : ClassWords[c] = ClassWords[d] => c = d
  BY GeometryAssumption, <1>1, <1>2 DEF Classes
<1> QED BY <1>1, <1>2, <1>3, <1>4, GeometryAssumption DEF Threshold, Classes

\* Every small length has a class that holds it.
LEMMA SizeClassFits ==
    ASSUME NEW w \in Nat, w <= Threshold
    PROVE  IsSizeClass(sizeClass(w), w)
<1> DEFINE T == {c \in Nat : c \in Classes /\ w <= ClassWords[c]}
<1>1. Len(ClassWords) \in T
  BY GeometryFacts DEF Classes
<1>2. PICK c \in T : \A d \in T : c <= d
  BY <1>1, Least
<1>3. IsSizeClass(c, w)
  BY <1>2, GeometryFacts DEF IsSizeClass, Classes
<1> QED BY <1>3 DEF sizeClass

\* Every length belongs to some LARGE bucket.
LEMMA LargeClassExists ==
    ASSUME NEW w \in Nat
    PROVE  largeSizeClass(w) \in LargeClasses
<1> DEFINE T == {c \in Nat : c = NumLarge - 1 \/ w <= Threshold * 2^(c + 1)}
<1>1. NumLarge - 1 \in T
  BY GeometryAssumption
<1>2. PICK c \in T : \A d \in T : c <= d
  BY <1>1, Least
<1>3. c \in LargeClasses
  <2>1. c \in Nat /\ c <= NumLarge - 1
    BY <1>1, <1>2
  <2> QED BY <2>1, GeometryAssumption DEF LargeClasses
<1>4. c = 0 \/ ~ (w <= Threshold * 2^c)
  <2>1. CASE c # 0
    <3>1. c - 1 \in Nat /\ c - 1 \notin T
      BY <1>2, <2>1
    <3>2. ~ (w <= Threshold * 2^((c - 1) + 1))
      BY <3>1
    <3>3. (c - 1) + 1 = c
      BY <1>2
    <3> QED BY <3>2, <3>3
  <2> QED BY <2>1
<1>5. c = NumLarge - 1 \/ w <= Threshold * 2^(c + 1)
  BY <1>2
<1> QED BY <1>3, <1>4, <1>5 DEF largeSizeClass

\* Every request sets aside at least one word, and the words of its class when it is small.
LEMMA BlockWordsPositive ==
    ASSUME NEW n \in Nat
    PROVE  /\ BlockWords(n) \in Nat \ {0}
           /\ n <= Threshold => /\ sizeClass(Rounded(n)) \in Classes
                                /\ BlockWords(n) = ClassWords[sizeClass(Rounded(n))]
           /\ n > Threshold => BlockWords(n) = n
<1>1. CASE n <= Threshold
  <2>1. Rounded(n) \in Nat /\ Rounded(n) <= Threshold
    BY <1>1, GeometryFacts DEF Rounded
  <2>2. sizeClass(Rounded(n)) \in Classes
    BY <2>1, SizeClassFits DEF IsSizeClass
  <2> QED BY <1>1, <2>2, GeometryFacts DEF BlockWords
<1>2. CASE n > Threshold
  BY <1>2, GeometryFacts DEF BlockWords
<1> QED BY <1>1, <1>2, GeometryFacts

----------------------------------------------------------------------------
(* The LARGE index *)

IndexTyped(ix) ==
    /\ ix.heads \in [LargeClasses -> Seq(Words)]
    /\ DOMAIN ix.byStart \subseteq Words /\ ix.byStart \in [DOMAIN ix.byStart -> Words]
    /\ DOMAIN ix.byEnd \subseteq Words /\ ix.byEnd \in [DOMAIN ix.byEnd -> Words]

\* Unlinking a free block removes it from its bucket and both maps, nothing else.
LEMMA UnlinkKeepsIndex ==
    ASSUME NEW ix, IndexTyped(ix), IndexOK(ix), NEW ref \in DOMAIN ix.byStart
    PROVE  /\ IndexTyped(unlinkLarge(ix, ref)) /\ IndexOK(unlinkLarge(ix, ref))
           /\ unlinkLarge(ix, ref).byStart = Drop(ix.byStart, ref)
           /\ unlinkLarge(ix, ref).byEnd = Drop(ix.byEnd, ref + ix.byStart[ref])
<1> DEFINE w == ix.byStart[ref]
           k == largeSizeClass(w)
           jx == unlinkLarge(ix, ref)
<1>1. /\ jx.heads = [ix.heads EXCEPT ![k] = Unlinked(ix.heads[k], ref)]
      /\ jx.byStart = Drop(ix.byStart, ref)
      /\ jx.byEnd = Drop(ix.byEnd, ref + w)
  BY DEF unlinkLarge
<1>2. w \in Nat /\ w > 0 /\ k \in LargeClasses /\ MaxCap \in Nat /\ Words \subseteq Nat
  <2>1. w \in Words
    BY DEF IndexTyped
  <2>2. MaxCap \in Nat /\ Words \subseteq Nat /\ \A x \in Words : x > 0
    BY CapacityAssumption DEF Words
  <2> HIDE DEF w
  <2>3. w \in Nat /\ w > 0
    BY <2>1, <2>2
  <2> QED BY <2>2, <2>3, LargeClassExists
<1>3. ref \in Elems(ix.heads[k]) /\ IsInjective(ix.heads[k]) /\ ix.heads[k] \in Seq(Words)
  BY <1>2 DEF IndexOK, IndexTyped
<1> DEFINE u == Unlinked(ix.heads[k], ref)
<1>4. /\ u \in Seq(Words) /\ IsInjective(u)
      /\ Elems(u) = Elems(ix.heads[k]) \ {ref}
  BY <1>3, UnlinkedElems
<1> HIDE DEF u, k, w, jx
<1>5. IndexTyped(jx)
  BY <1>1, <1>2, <1>4 DEF IndexTyped, u, Drop, Restrict
<1>6. \A c \in LargeClasses : Elems(jx.heads[c]) = Elems(ix.heads[c]) \ {ref}
  <2>1. \A c \in LargeClasses : c # k => ref \notin Elems(ix.heads[c])
    BY DEF IndexOK, k, w, Elems
  <2> QED BY <1>1, <1>4, <2>1 DEF IndexTyped, u
<1>7. \A c \in LargeClasses : IsInjective(jx.heads[c])
  BY <1>1, <1>4 DEF IndexTyped, IndexOK, u
<1>8. ASSUME NEW c \in LargeClasses, NEW i \in DOMAIN jx.heads[c]
      PROVE  /\ jx.heads[c][i] \in DOMAIN jx.byStart
             /\ largeSizeClass(jx.byStart[jx.heads[c][i]]) = c
  <2>1. jx.heads[c][i] \in Elems(ix.heads[c]) /\ jx.heads[c][i] # ref
    BY <1>6 DEF Elems
  <2> QED BY <2>1, <1>1 DEF IndexOK, Elems, Drop, Restrict
<1>9. ASSUME NEW r \in DOMAIN jx.byStart
      PROVE  /\ jx.byStart[r] > Threshold
             /\ r \in Elems(jx.heads[largeSizeClass(jx.byStart[r])])
             /\ r + jx.byStart[r] \in DOMAIN jx.byEnd
             /\ jx.byEnd[r + jx.byStart[r]] = r
  <2>1. r \in DOMAIN ix.byStart /\ r # ref /\ jx.byStart[r] = ix.byStart[r]
    BY <1>1 DEF Drop, Restrict
  <2>2. r + ix.byStart[r] # ref + w
    BY <2>1 DEF IndexOK, w
  <2>3. largeSizeClass(ix.byStart[r]) \in LargeClasses
    BY <2>1, LargeClassExists, <1>2 DEF IndexTyped
  <2> QED BY <2>1, <2>2, <2>3, <1>1, <1>6 DEF IndexOK, Drop, Restrict
<1>10. ASSUME NEW e \in DOMAIN jx.byEnd
       PROVE  /\ jx.byEnd[e] \in DOMAIN jx.byStart
              /\ jx.byEnd[e] + jx.byStart[jx.byEnd[e]] = e
  <2>1. e \in DOMAIN ix.byEnd /\ e # ref + w /\ jx.byEnd[e] = ix.byEnd[e]
    BY <1>1 DEF Drop, Restrict
  <2>2. ix.byEnd[e] \in DOMAIN ix.byStart /\ ix.byEnd[e] + ix.byStart[ix.byEnd[e]] = e
    BY <2>1 DEF IndexOK
  <2>3. ix.byEnd[e] # ref
    BY <2>1, <2>2 DEF w
  <2> QED BY <2>1, <2>2, <2>3, <1>1 DEF Drop, Restrict
<1>11. IndexOK(jx)
  BY <1>7, <1>8, <1>9, <1>10 DEF IndexOK
<1> QED BY <1>1, <1>5, <1>11 DEF jx, w

\* Inserting a block that is not in the index, and ends where none ends, adds
\* it and nothing else.
LEMMA InsertKeepsIndex ==
    ASSUME NEW ix, IndexTyped(ix), IndexOK(ix),
           NEW ref \in Words, NEW w \in Words, ref + w \in Words, w > Threshold,
           ref \notin DOMAIN ix.byStart, ref + w \notin DOMAIN ix.byEnd
    PROVE  /\ IndexTyped(insertLarge(ix, ref, w)) /\ IndexOK(insertLarge(ix, ref, w))
           /\ insertLarge(ix, ref, w).byStart = Bind(ix.byStart, ref, w)
<1> DEFINE k == largeSizeClass(w)
           jx == insertLarge(ix, ref, w)
           u == <<ref>> \o ix.heads[k]
<1>1. /\ jx.heads = [ix.heads EXCEPT ![k] = u]
      /\ jx.byStart = Bind(ix.byStart, ref, w)
      /\ jx.byEnd = Bind(ix.byEnd, ref + w, ref)
  BY DEF insertLarge
<1>2. w \in Nat /\ k \in LargeClasses /\ MaxCap \in Nat /\ Words \subseteq Nat
  BY LargeClassExists, CapacityAssumption DEF Words
<1>3. ref \notin Elems(ix.heads[k]) /\ IsInjective(ix.heads[k]) /\ ix.heads[k] \in Seq(Words)
  BY <1>2 DEF IndexOK, IndexTyped, Elems
<1>4. /\ u \in Seq(Words) /\ IsInjective(u)
      /\ Elems(u) = Elems(ix.heads[k]) \cup {ref}
  BY <1>3, ConsElems
<1>k. k = largeSizeClass(w)
  OBVIOUS
<1> HIDE DEF u, k, jx
<1>5. IndexTyped(jx)
  BY <1>1, <1>2, <1>4 DEF IndexTyped, Bind
<1>6. /\ \A c \in LargeClasses : c # k => jx.heads[c] = ix.heads[c]
      /\ jx.heads[k] = u
  BY <1>1, <1>2 DEF IndexTyped
<1>7. \A c \in LargeClasses : IsInjective(jx.heads[c])
  BY <1>6, <1>4 DEF IndexOK
<1>8. ASSUME NEW c \in LargeClasses, NEW i \in DOMAIN jx.heads[c]
      PROVE  /\ jx.heads[c][i] \in DOMAIN jx.byStart
             /\ largeSizeClass(jx.byStart[jx.heads[c][i]]) = c
  <2>1. (jx.heads[c][i] \in Elems(ix.heads[c])) \/ (jx.heads[c][i] = ref /\ c = k)
    <3>1. jx.heads[c][i] \in Elems(jx.heads[c])
      BY DEF Elems
    <3> QED BY <3>1, <1>4, <1>6
  <2>2. \A r \in Elems(ix.heads[c]) : /\ r \in DOMAIN ix.byStart /\ r # ref
                                      /\ largeSizeClass(ix.byStart[r]) = c
    BY DEF IndexOK, Elems
  <2> QED BY <2>1, <2>2, <1>1, <1>k DEF Bind
<1>9. ASSUME NEW r \in DOMAIN jx.byStart
      PROVE  /\ jx.byStart[r] > Threshold
             /\ r \in Elems(jx.heads[largeSizeClass(jx.byStart[r])])
             /\ r + jx.byStart[r] \in DOMAIN jx.byEnd
             /\ jx.byEnd[r + jx.byStart[r]] = r
  <2>1. CASE r = ref
    BY <2>1, <1>1, <1>4, <1>6, <1>k DEF Bind
  <2>2. CASE r # ref
    <3>1. r \in DOMAIN ix.byStart /\ jx.byStart[r] = ix.byStart[r]
      BY <1>1, <2>2 DEF Bind
    <3>2. largeSizeClass(ix.byStart[r]) \in LargeClasses
      BY <3>1, LargeClassExists, <1>2 DEF IndexTyped
    <3>3. r \in Elems(jx.heads[largeSizeClass(ix.byStart[r])])
      BY <3>1, <3>2, <1>6, <1>4 DEF IndexOK
    <3>4. r + ix.byStart[r] \in DOMAIN ix.byEnd /\ ix.byEnd[r + ix.byStart[r]] = r
      BY <3>1 DEF IndexOK
    <3> QED BY <3>1, <3>3, <3>4, <1>1 DEF Bind, IndexOK
  <2> QED BY <2>1, <2>2
<1>10. ASSUME NEW e \in DOMAIN jx.byEnd
       PROVE  /\ jx.byEnd[e] \in DOMAIN jx.byStart
              /\ jx.byEnd[e] + jx.byStart[jx.byEnd[e]] = e
  <2>1. CASE e = ref + w
    BY <2>1, <1>1 DEF Bind
  <2>2. CASE e # ref + w
    <3>1. e \in DOMAIN ix.byEnd /\ jx.byEnd[e] = ix.byEnd[e]
      BY <1>1, <2>2 DEF Bind
    <3>2. ix.byEnd[e] \in DOMAIN ix.byStart /\ ix.byEnd[e] + ix.byStart[ix.byEnd[e]] = e
      BY <3>1 DEF IndexOK
    <3> QED BY <3>1, <3>2, <1>1 DEF Bind
  <2> QED BY <2>1, <2>2
<1>11. IndexOK(jx)
  BY <1>7, <1>8, <1>9, <1>10 DEF IndexOK
<1> QED BY <1>1, <1>5, <1>11 DEF jx

----------------------------------------------------------------------------
(* Blocks *)

Tiled(B, top) ==
    /\ \A a, b \in B : a = b \/ Apart(a, b)
    /\ \A a \in B : 1 <= a.start /\ a.start + a.words <= top

\* Replacing the blocks of R by blocks that keep clear of all the others.
LEMMA Retile ==
    ASSUME NEW B, NEW top, Tiled(B, top), NEW R, NEW N, NEW newTop, Tiled(N, newTop),
           \A n \in N, b \in B \ R : Apart(n, b),
           \A b \in B \ R : b.start + b.words <= newTop,
           NEW C, C \subseteq (B \ R) \cup N
    PROVE  Tiled(C, newTop)
<1>1. \A b \in B \ R, n \in N : Apart(b, n)
  BY DEF Apart
<1> QED BY <1>1 DEF Tiled

\* Blocks have addresses and lengths that are numbers, and every chain entry is a block.
LEMMA BlockTyped ==
    ASSUME TypeOK
    PROVE  /\ MaxCap \in Nat /\ Words \subseteq Nat \ {0} /\ bump \in Nat
           /\ \A b \in Blocks : b.start \in Nat \ {0} /\ b.words \in Nat \ {0}
           /\ \A a \in DOMAIN live : live[a] \in Nat /\ Block("live", a, BlockWords(live[a])) \in Blocks
           /\ \A c \in Classes : \A a \in Elems(freeHeads[c]) :
                a \in Words /\ Block("small", a, ClassWords[c]) \in Blocks
           /\ \A a \in DOMAIN largeByStart : Block("large", a, largeByStart[a]) \in Blocks
<1>1. MaxCap \in Nat /\ Words \subseteq Nat \ {0} /\ bump \in Nat
  BY CapacityAssumption DEF TypeOK, Words
<1>2. \A b \in LiveBlocks : b.start \in Nat \ {0} /\ b.words \in Nat \ {0}
  BY <1>1, BlockWordsPositive, CapacityAssumption DEF LiveBlocks, Block, TypeOK
<1>3. \A c \in Classes : \A a \in Elems(freeHeads[c]) : a \in Words
  BY ElemsOfSeq DEF TypeOK
<1>4. \A b \in SmallFree : b.start \in Nat \ {0} /\ b.words \in Nat \ {0}
  BY <1>1, <1>3, GeometryFacts DEF SmallFree, Block
<1>5. \A b \in LargeFree : b.start \in Nat \ {0} /\ b.words \in Nat \ {0}
  BY <1>1 DEF LargeFree, Block, TypeOK
<1>6. \A a \in DOMAIN live : live[a] \in Nat /\ Block("live", a, BlockWords(live[a])) \in Blocks
  BY CapacityAssumption DEF Blocks, LiveBlocks, TypeOK
<1>7. \A c \in Classes : \A a \in Elems(freeHeads[c]) : Block("small", a, ClassWords[c]) \in Blocks
  BY DEF Blocks, FreeBlocks, SmallFree
<1>8. \A a \in DOMAIN largeByStart : Block("large", a, largeByStart[a]) \in Blocks
  BY DEF Blocks, FreeBlocks, LargeFree
<1> QED BY <1>1, <1>2, <1>3, <1>4, <1>5, <1>6, <1>7, <1>8 DEF Blocks, FreeBlocks

\* The free LARGE blocks of a map of starts, and the free small ones of the buckets.
LargeOf(f) == {Block("large", a, f[a]) : a \in DOMAIN f}
SmallOf(heads) == UNION {{Block("small", a, ClassWords[c]) : a \in Elems(heads[c])} : c \in Classes}

\* Dropping a start drops its block.
LEMMA LargeLess ==
    ASSUME NEW f, NEW r \in DOMAIN f
    PROVE  LargeOf(Drop(f, r)) = LargeOf(f) \ {Block("large", r, f[r])}
<1>1. DOMAIN Drop(f, r) = DOMAIN f \ {r} /\ \A a \in DOMAIN f \ {r} : Drop(f, r)[a] = f[a]
  BY DEF Drop, Restrict
<1>2. \A a : Block("large", a, f[a]).start = a
  BY DEF Block
<1> QED BY <1>1, <1>2 DEF LargeOf

\* Binding a new start adds its block.
LEMMA LargeMore ==
    ASSUME NEW f, NEW r, r \notin DOMAIN f, NEW w
    PROVE  LargeOf(Bind(f, r, w)) = LargeOf(f) \cup {Block("large", r, w)}
<1>1. /\ DOMAIN Bind(f, r, w) = DOMAIN f \cup {r}
      /\ Bind(f, r, w)[r] = w /\ \A a \in DOMAIN f : Bind(f, r, w)[a] = f[a]
  BY DEF Bind
<1> QED BY <1>1 DEF LargeOf

\* Which blocks the small buckets hold.
LEMMA SmallIn ==
    ASSUME NEW heads, NEW b
    PROVE  b \in SmallOf(heads)
             <=> \E c \in Classes : \E a \in Elems(heads[c]) : b = Block("small", a, ClassWords[c])
<1> DEFINE In(c) == {Block("small", a, ClassWords[c]) : a \in Elems(heads[c])}
<1>1. b \in UNION {In(c) : c \in Classes} <=> \E c \in Classes : b \in In(c)
  <2> HIDE DEF In
  <2> QED OBVIOUS
<1>2. SmallOf(heads) = UNION {In(c) : c \in Classes}
  BY DEF SmallOf
<1> QED BY <1>1, <1>2

\* One bucket gains or loses the block at r.
Gains(heads, new, c, r) ==
    Elems(new[c]) = Elems(heads[c]) \cup {r} /\ \A d \in Classes : d # c => new[d] = heads[d]
Loses(heads, new, c, r) ==
    Elems(new[c]) = Elems(heads[c]) \ {r} /\ \A d \in Classes : d # c => new[d] = heads[d]

\* A bucket that gains a block.
LEMMA SmallMore ==
    ASSUME NEW heads, NEW new, NEW c \in Classes, NEW r, Gains(heads, new, c, r)
    PROVE  SmallOf(new) = SmallOf(heads) \cup {Block("small", r, ClassWords[c])}
<1>1. Elems(new[c]) = Elems(heads[c]) \cup {r} /\ \A d \in Classes : d # c => new[d] = heads[d]
  BY DEF Gains
<1>2. ASSUME NEW b \in SmallOf(new) PROVE b \in SmallOf(heads) \cup {Block("small", r, ClassWords[c])}
  <2>1. PICK d \in Classes : \E a \in Elems(new[d]) : b = Block("small", a, ClassWords[d])
    BY SmallIn
  <2> QED BY <1>1, <2>1, SmallIn
<1>3. ASSUME NEW b \in SmallOf(heads) PROVE b \in SmallOf(new)
  <2>1. PICK d \in Classes : \E a \in Elems(heads[d]) : b = Block("small", a, ClassWords[d])
    BY SmallIn
  <2> QED BY <1>1, <2>1, SmallIn
<1>4. Block("small", r, ClassWords[c]) \in SmallOf(new)
  BY <1>1, SmallIn
<1> QED BY <1>2, <1>3, <1>4

\* A bucket that loses a block: the length tells the bucket.
LEMMA SmallLess ==
    ASSUME NEW heads, NEW new, NEW c \in Classes, NEW r, Loses(heads, new, c, r)
    PROVE  SmallOf(new) = SmallOf(heads) \ {Block("small", r, ClassWords[c])}
<1> DEFINE old == Block("small", r, ClassWords[c])
<1>1. Elems(new[c]) = Elems(heads[c]) \ {r} /\ \A d \in Classes : d # c => new[d] = heads[d]
  BY DEF Loses
<1>2. \A a, d : Block("small", a, ClassWords[d]) = old <=> a = r /\ ClassWords[d] = ClassWords[c]
  BY DEF Block
<1> HIDE DEF old
<1>3. ASSUME NEW b \in SmallOf(new) PROVE b \in SmallOf(heads) /\ b # old
  <2>1. PICK d \in Classes : \E a \in Elems(new[d]) : b = Block("small", a, ClassWords[d])
    BY SmallIn
  <2>2. PICK a \in Elems(new[d]) : b = Block("small", a, ClassWords[d])
    BY <2>1
  <2>3. a \in Elems(heads[d]) /\ (d = c => a # r)
    BY <1>1, <2>2
  <2>4. d # c => ClassWords[d] # ClassWords[c]
    BY GeometryFacts
  <2> QED BY <1>2, <2>2, <2>3, <2>4, SmallIn
<1>4. ASSUME NEW b \in SmallOf(heads), b # old PROVE b \in SmallOf(new)
  <2>1. PICK d \in Classes : \E a \in Elems(heads[d]) : b = Block("small", a, ClassWords[d])
    BY SmallIn
  <2>2. PICK a \in Elems(heads[d]) : b = Block("small", a, ClassWords[d])
    BY <2>1
  <2>3. a \in Elems(new[d])
    BY <1>1, <1>2, <1>4, <2>2
  <2> QED BY <2>2, <2>3, SmallIn
<1> QED BY <1>3, <1>4 DEF old

\* popLarge in terms of blocks: one free LARGE block becomes a held block of n
\* words and, at most, one free block of what is left.
Splits(old, n) ==
    LET rem == old.words - n
    IN  /\ old \in LargeFree /\ n \in Nat /\ rem \in Nat /\ n > Threshold
        /\ LiveBlocks' = LiveBlocks \cup {Block("live", old.start, n)} /\ bump' = bump
        /\ \/ /\ rem > Threshold
              /\ LargeFree' = (LargeFree \ {old}) \cup {Block("large", old.start + n, rem)}
              /\ SmallFree' = SmallFree /\ freeWords' = freeWords - old.words + rem
           \/ /\ rem = 0
              /\ LargeFree' = LargeFree \ {old} /\ SmallFree' = SmallFree
              /\ freeWords' = freeWords - old.words
           \/ \E f \in Classes :
                /\ IsFloorClass(f, rem) /\ rem <= Threshold
                /\ LargeFree' = LargeFree \ {old}
                /\ SmallFree' = SmallFree \cup {Block("small", old.start + n, ClassWords[f])}
                /\ freeWords' = freeWords - old.words + ClassWords[f]

\* freeLarge in terms of blocks: the free LARGE neighbours L and R on either
\* side, if any, make one block with the freed one.
OnLeft(old, s, L) ==
    \/ L = {} /\ s = old.start /\ \A b \in LargeFree : b.start + b.words # s
    \/ s < old.start /\ L = {Block("large", s, old.start - s)} /\ L \subseteq LargeFree
OnRight(old, e, R) ==
    LET stop == old.start + old.words
    IN  \/ R = {} /\ e = stop /\ \A b \in LargeFree : b.start # e
        \/ stop < e /\ R = {Block("large", stop, e - stop)} /\ R \subseteq LargeFree
Merges(old, s, e, L, R) ==
    /\ old \in LiveBlocks /\ old.words > Threshold
    /\ s \in Nat \ {0} /\ e \in Nat /\ e <= bump
    /\ OnLeft(old, s, L) /\ OnRight(old, e, R)
    /\ LiveBlocks' = LiveBlocks \ {old} /\ SmallFree' = SmallFree
    /\ IF e = bump
       THEN /\ LargeFree' = LargeFree \ (L \cup R) /\ bump' = s
            /\ freeWords' = freeWords - ((e - s) - old.words)
       ELSE /\ LargeFree' = (LargeFree \ (L \cup R)) \cup {Block("large", s, e - s)} /\ bump' = bump
            /\ freeWords' = (freeWords - ((e - s) - old.words)) + (e - s)

\* The inductive invariant: nothing overlaps because the index tells freeLarge
\* the truth about its neighbours, and the index stays true because a block that
\* overlaps no other cannot be in it twice.
Inv ==
    /\ TypeOK
    /\ NoOverlap
    /\ IndexAgrees
    /\ ZeroAboveBump
    /\ unclean = {}

\* The empty arena satisfies the invariant.
LEMMA InitInv == Init => Inv
<1> SUFFICES ASSUME Init PROVE Inv
  OBVIOUS
<1> USE DEF Init
<1>1. TypeOK
  BY CapacityAssumption, GeometryFacts DEF TypeOK, Words
<1>2. Blocks = {}
  BY DEF Blocks, LiveBlocks, FreeBlocks, SmallFree, LargeFree, Elems
<1>3. NoOverlap
  BY <1>2 DEF NoOverlap, IsInjective
<1>4. IndexAgrees
  BY DEF IndexAgrees, IndexOK, Index, IsInjective
<1> QED BY <1>1, <1>3, <1>4 DEF Inv, ZeroAboveBump

\* A hit in a small bucket keeps the invariant.
LEMMA SmallFreeStep ==
    ASSUME Inv, NEW n \in Requests, AllocSmallFree(n)
    PROVE  Inv'
<1> DEFINE c == sizeClass(Rounded(n))
           ref == Head(freeHeads[c])
           old == Block("small", ref, ClassWords[c])
           new == Block("live", ref, ClassWords[c])
<1>1. /\ n \in Nat /\ n <= Threshold /\ c \in Classes /\ BlockWords(n) = ClassWords[c]
      /\ ClassWords[c] \in Nat \ {0}
  BY BlockWordsPositive, GeometryFacts, CapacityAssumption DEF AllocSmallFree
<1>2. /\ freeHeads[c] # <<>> /\ freeHeads' = [freeHeads EXCEPT ![c] = Tail(freeHeads[c])]
      /\ live' = Bind(live, ref, n) /\ unclean' = (dirty \ Span(ref, ClassWords[c])) \cap Span(ref, ClassWords[c])
      /\ freeWords' = freeWords - ClassWords[c]
      /\ UNCHANGED <<bump, cap, index, dirty>>
  BY <1>1 DEF AllocSmallFree, HandOut
<1>3. /\ freeHeads[c] \in Seq(Words) /\ IsInjective(freeHeads[c])
  BY <1>1 DEF Inv, TypeOK, NoOverlap
<1> HIDE DEF c, ref
<1>4. /\ ref \in Elems(freeHeads[c]) /\ Tail(freeHeads[c]) \in Seq(Words)
      /\ Elems(Tail(freeHeads[c])) \subseteq Elems(freeHeads[c])
      /\ ref \notin Elems(Tail(freeHeads[c])) /\ IsInjective(Tail(freeHeads[c]))
  BY <1>2, <1>3, TailElems DEF ref
<1>5. ref \in Words /\ ref \in Nat /\ old \in Blocks
  BY <1>1, <1>4, BlockTyped DEF Inv
<1>6. TypeOK'
  BY <1>1, <1>2, <1>4, <1>5 DEF Inv, TypeOK, Bind, index, Classes
<1>7. LiveBlocks' \subseteq LiveBlocks \cup {new}
  BY <1>1, <1>2 DEF LiveBlocks, Bind
<1>8. SmallFree' \subseteq SmallFree \ {old}
  <2> SUFFICES ASSUME NEW d \in Classes, NEW a \in Elems(freeHeads'[d])
               PROVE  /\ a \in Elems(freeHeads[d])
                      /\ Block("small", a, ClassWords[d]) # old
    BY DEF SmallFree
  <2>1. CASE d = c
    BY <1>2, <1>4, <1>1, <2>1 DEF Inv, TypeOK, Block
  <2>2. CASE d # c
    BY <1>2, <1>1, <2>2, GeometryFacts DEF Inv, TypeOK, Block
  <2> QED BY <2>1, <2>2
<1>9. LargeFree' = LargeFree
  BY <1>2 DEF LargeFree, index
<1>10. Blocks' \subseteq (Blocks \ {old}) \cup {new}
  BY <1>7, <1>8, <1>9 DEF Blocks, FreeBlocks, LiveBlocks, LargeFree, Block
<1>11. Tiled(Blocks', bump)
  <2>1. \A m \in {new}, b \in Blocks \ {old} : Apart(m, b)
    BY <1>5 DEF Inv, NoOverlap, Apart, Block
  <2>2. Tiled({new}, bump)
    BY <1>5 DEF Inv, NoOverlap, Tiled, Block
  <2>3. Tiled(Blocks, bump)
    BY DEF Inv, NoOverlap, Tiled
  <2>4. \A b \in Blocks \ {old} : b.start + b.words <= bump
    BY <2>3 DEF Tiled
  <2> HIDE DEF old, new
  <2> QED BY <1>10, <2>1, <2>2, <2>3, <2>4, Retile, Zenon
<1>12. NoOverlap'
  BY <1>11, <1>2, <1>4 DEF NoOverlap, Tiled, Inv, TypeOK, Apart
<1>13. IndexAgrees' /\ ZeroAboveBump' /\ unclean' = {}
  BY <1>2 DEF Inv, IndexAgrees, Index, index, ZeroAboveBump, IndexOK
<1> QED BY <1>6, <1>12, <1>13 DEF Inv

\* Carving at bump keeps the invariant, with or without growth.
LEMMA BumpStep ==
    ASSUME Inv, NEW n \in Requests, AllocBump(n)
    PROVE  Inv'
<1> DEFINE w == BlockWords(n)
           new == Block("live", bump, w)
<1>1. n \in Nat /\ w \in Nat \ {0} /\ bump \in Nat \ {0} /\ MaxCap \in Nat /\ bump \in Words
  BY BlockWordsPositive, CapacityAssumption, BlockTyped DEF Inv, TypeOK, Words
<1>2. /\ bump + w <= MaxCap /\ bump' = bump + w /\ live' = Bind(live, bump, n)
      /\ unclean' = dirty \cap Span(bump, w) /\ dirty' = dirty \cup Span(bump, w)
      /\ UNCHANGED <<freeHeads, index, freeWords>>
  BY DEF AllocBump, HandOut
<1>3. cap' \in Words /\ bump' <= cap'
  <2>1. CASE bump + w > cap
    <3>1. cap' \in GrownCaps(bump + w)
      BY <2>1 DEF AllocBump
    <3>2. cap' \in bump + w .. MaxCap
      BY <3>1 DEF GrownCaps
    <3> QED BY <1>1, <1>2, <3>2 DEF Words
  <2>2. CASE ~ (bump + w > cap)
    <3>1. cap' = cap
      BY <2>2 DEF AllocBump
    <3> QED BY <1>1, <1>2, <2>2, <3>1 DEF Inv, TypeOK, Words
  <2> QED BY <2>1, <2>2
<1>4. unclean' = {} /\ ZeroAboveBump'
  BY <1>1, <1>2 DEF Inv, TypeOK, ZeroAboveBump, Span, Words
<1> HIDE DEF w
<1>5. TypeOK'
  <2>1. dirty' \subseteq Words
    BY <1>1, <1>2 DEF Inv, TypeOK, Span, Words
  <2> QED BY <1>1, <1>2, <1>3, <1>4, <2>1 DEF Inv, TypeOK, Bind, index, Words
<1>6. Blocks' \subseteq (Blocks \ {}) \cup {new}
  <2>1. FreeBlocks' = FreeBlocks
    BY <1>2 DEF FreeBlocks, SmallFree, LargeFree, index
  <2>2. LiveBlocks' \subseteq LiveBlocks \cup {new}
    BY <1>2 DEF LiveBlocks, Bind, w
  <2> QED BY <2>1, <2>2 DEF Blocks
<1>7. Tiled(Blocks', bump + w)
  <2>1. Tiled(Blocks, bump)
    BY DEF Inv, NoOverlap, Tiled
  <2>2. \A b \in Blocks \ {} : b.start + b.words <= bump /\ b.start \in Nat /\ b.words \in Nat
    BY <2>1, BlockTyped DEF Tiled, Inv
  <2>3. \A m \in {new}, b \in Blocks \ {} : Apart(m, b)
    BY <1>1, <2>2 DEF Apart, Block
  <2>4. Tiled({new}, bump + w)
    BY <1>1 DEF Tiled, Block
  <2>5. \A b \in Blocks \ {} : b.start + b.words <= bump + w
    BY <1>1, <2>2
  <2> HIDE DEF new
  <2> QED BY <1>6, <2>1, <2>3, <2>4, <2>5, Retile, Zenon
<1>8. NoOverlap'
  BY <1>7, <1>2 DEF NoOverlap, Tiled, Inv, Apart
<1>9. IndexAgrees'
  BY <1>2 DEF Inv, IndexAgrees, Index, index, IndexOK
<1> QED BY <1>4, <1>5, <1>8, <1>9 DEF Inv

\* The slab swap keeps the invariant.
LEMMA CompactStep ==
    ASSUME Inv, NEW t \in Targets, Compact(t)
    PROVE  Inv'
<1>1. /\ cap' \in Int /\ cap' <= MaxCap /\ bump <= cap' /\ bump \in Nat /\ bump <= MaxCap
      /\ bump > 0 /\ MaxCap \in Nat
      /\ dirty' = {a \in dirty : a < bump}
      /\ UNCHANGED <<live, bump, freeHeads, index, freeWords, unclean>>
  BY CapacityAssumption DEF Compact, NewCap, Larger, Inv, TypeOK, Words
<1>2. TypeOK'
  BY <1>1 DEF Inv, TypeOK, index, Words
<1>3. Blocks' = Blocks
  BY <1>1 DEF Blocks, FreeBlocks, SmallFree, LargeFree, LiveBlocks, index
<1> QED BY <1>1, <1>2, <1>3 DEF Inv, NoOverlap, IndexAgrees, Index, index, IndexOK,
                                ZeroAboveBump, Apart

\* Giving back a small block keeps the invariant.
LEMMA FreeSmallStep ==
    ASSUME Inv, NEW ref \in DOMAIN live, FreeSmall(ref)
    PROVE  Inv'
<1> DEFINE c == sizeClass(Rounded(live[ref]))
           old == Block("live", ref, ClassWords[c])
           new == Block("small", ref, ClassWords[c])
<1>1. /\ live[ref] \in Nat /\ live[ref] <= Threshold /\ c \in Classes
      /\ BlockWords(live[ref]) = ClassWords[c] /\ ClassWords[c] \in Nat \ {0}
      /\ old \in Blocks /\ ref \in Words /\ ref \in Nat
  BY BlockWordsPositive, BlockTyped, GeometryFacts DEF FreeSmall, Inv, TypeOK
<1>2. /\ freeHeads' = [freeHeads EXCEPT ![c] = <<ref>> \o freeHeads[c]]
      /\ live' = Drop(live, ref) /\ freeWords' = freeWords + ClassWords[c]
      /\ UNCHANGED <<bump, cap, index, dirty, unclean>>
  BY DEF FreeSmall
<1> HIDE DEF c
<1>3. ref \notin Elems(freeHeads[c])
  <2> SUFFICES ASSUME ref \in Elems(freeHeads[c]) PROVE FALSE
    OBVIOUS
  <2>1. new \in Blocks
    BY <1>1, BlockTyped DEF Inv
  <2>2. new # old /\ ~ Apart(new, old)
    BY <1>1 DEF Block, Apart
  <2> QED BY <1>1, <2>1, <2>2 DEF Inv, NoOverlap
<1> DEFINE u == <<ref>> \o freeHeads[c]
<1>4. u \in Seq(Words) /\ Elems(u) = Elems(freeHeads[c]) \cup {ref} /\ IsInjective(u)
  BY <1>1, <1>3, ConsElems DEF Inv, TypeOK, NoOverlap
<1>5. freeHeads' = [freeHeads EXCEPT ![c] = u]
  BY <1>2
<1> HIDE DEF u
<1>6. TypeOK'
  BY <1>1, <1>2, <1>4, <1>5 DEF Inv, TypeOK, Drop, Restrict, index, Classes
<1>7. LiveBlocks' \subseteq LiveBlocks \ {old}
  BY <1>1, <1>2 DEF LiveBlocks, Drop, Restrict, Block
<1>8. SmallFree' \subseteq SmallFree \cup {new}
  <2> SUFFICES ASSUME NEW d \in Classes, NEW a \in Elems(freeHeads'[d])
               PROVE  a \in Elems(freeHeads[d]) \/ (a = ref /\ d = c)
    BY DEF SmallFree
  <2>1. CASE d = c
    BY <1>1, <1>4, <1>5, <2>1 DEF Inv, TypeOK
  <2>2. CASE d # c
    BY <1>1, <1>5, <2>2 DEF Inv, TypeOK
  <2> QED BY <2>1, <2>2
<1>9. LargeFree' = LargeFree
  BY <1>2 DEF LargeFree, index
<1>10. Blocks' \subseteq (Blocks \ {old}) \cup {new}
  BY <1>7, <1>8, <1>9 DEF Blocks, FreeBlocks, SmallFree, LargeFree, Block
<1>11. Tiled(Blocks', bump)
  <2>1. \A m \in {new}, b \in Blocks \ {old} : Apart(m, b)
    BY <1>1 DEF Inv, NoOverlap, Apart, Block
  <2>2. Tiled({new}, bump)
    BY <1>1 DEF Inv, NoOverlap, Tiled, Block
  <2>3. Tiled(Blocks, bump)
    BY DEF Inv, NoOverlap, Tiled
  <2>4. \A b \in Blocks \ {old} : b.start + b.words <= bump
    BY <2>3 DEF Tiled
  <2> HIDE DEF old, new
  <2> QED BY <1>10, <2>1, <2>2, <2>3, <2>4, Retile, Zenon
<1>12. \A d \in Classes : IsInjective(freeHeads'[d])
  BY <1>1, <1>4, <1>5 DEF Inv, TypeOK, NoOverlap
<1>13. NoOverlap'
  BY <1>11, <1>12, <1>2 DEF NoOverlap, Tiled, Apart
<1>14. IndexAgrees' /\ ZeroAboveBump' /\ unclean' = {}
  BY <1>2 DEF Inv, IndexAgrees, Index, index, ZeroAboveBump, IndexOK
<1> QED BY <1>6, <1>13, <1>14 DEF Inv

\* The index of a state in the invariant is well formed, and a step that sets it
\* to a well-formed one keeps the typing of its three variables.
LEMMA IndexIsTyped ==
    ASSUME TypeOK
    PROVE  /\ IndexTyped(Index) /\ Index.heads = largeFreeHeads
           /\ Index.byStart = largeByStart /\ Index.byEnd = largeByEnd
BY DEF TypeOK, Index, IndexTyped

\* Storing a well-formed index keeps the index invariant.
LEMMA SetIndexKeeps ==
    ASSUME NEW ix, IndexTyped(ix), IndexOK(ix), SetIndex(ix)
    PROVE  /\ IndexAgrees' /\ largeByStart' = ix.byStart
           /\ largeFreeHeads' \in [LargeClasses -> Seq(Words)]
           /\ DOMAIN largeByStart' \subseteq Words /\ largeByStart' \in [DOMAIN largeByStart' -> Words]
           /\ DOMAIN largeByEnd' \subseteq Words /\ largeByEnd' \in [DOMAIN largeByEnd' -> Words]
<1>1. Index'.heads = ix.heads /\ Index'.byStart = ix.byStart /\ Index'.byEnd = ix.byEnd
  BY DEF SetIndex, Index
<1>2. IndexOK(Index)'
  BY <1>1 DEF IndexOK
<1> QED BY <1>2 DEF SetIndex, IndexTyped, IndexAgrees

\* What popLarge's first fit finds, whichever block it is.
LEMMA LargeFreeStep ==
    ASSUME Inv, NEW n \in Requests, AllocLargeFree(n)
    PROVE  Inv' /\ \E b \in LargeFree : Splits(b, n)
<1>0. PICK c \in LargeClasses : \E i \in DOMAIN largeFreeHeads[c] :
        LET ref == largeFreeHeads[c][i]
            bw == largeByStart[ref]
            rem == bw - n
            popped == unlinkLarge(Index, ref)
        IN  /\ FirstFit(n, c, i)
            /\ HandOut(ref, n, Span(ref, n))
            /\ \/ /\ rem > Threshold
                  /\ SetIndex(insertLarge(popped, ref + n, rem))
                  /\ freeWords' = freeWords - bw + rem
                  /\ UNCHANGED freeHeads
               \/ /\ rem > 0 /\ rem <= Threshold
                  /\ SetIndex(popped)
                  /\ \E f \in Classes :
                       /\ IsFloorClass(f, rem)
                       /\ freeHeads' = [freeHeads EXCEPT ![f] = <<ref + n>> \o @]
                       /\ freeWords' = freeWords - bw + ClassWords[f]
               \/ /\ rem = 0
                  /\ SetIndex(popped)
                  /\ freeWords' = freeWords - bw
                  /\ UNCHANGED freeHeads
  BY DEF AllocLargeFree
<1>1. PICK i \in DOMAIN largeFreeHeads[c] : <1>0!(c)!(i)
  BY <1>0
<1> DEFINE ref == largeFreeHeads[c][i]
           bw == largeByStart[ref]
           rem == bw - n
           popped == unlinkLarge(Index, ref)
           old == Block("large", ref, bw)
           new == Block("live", ref, n)
<1>2. /\ ref \in DOMAIN largeByStart /\ ref \in Words /\ ref \in Nat \ {0}
      /\ bw \in Words /\ bw \in Nat /\ bw >= n /\ old \in Blocks /\ ref + bw <= bump
      /\ ref + bw \in Words /\ n \in Nat /\ n > Threshold /\ Threshold \in Nat /\ n \in Words
      /\ BlockWords(n) = n
  <2>1. ref \in DOMAIN largeByStart /\ bw >= n
    BY <1>1, IndexIsTyped DEF Inv, IndexAgrees, IndexOK, FirstFit, Fits
  <2>2. n \in Nat /\ n > Threshold /\ BlockWords(n) = n /\ Threshold \in Nat
    BY BlockWordsPositive, GeometryFacts, CapacityAssumption DEF AllocLargeFree
  <2>3. bw \in Words /\ ref \in Words /\ ref \in Nat \ {0} /\ bw \in Nat /\ MaxCap \in Nat
    BY <2>1, BlockTyped DEF Inv, TypeOK
  <2>4. old \in Blocks
    BY <2>1, BlockTyped DEF Inv
  <2>5. ref + bw <= bump
    BY <2>4 DEF Inv, NoOverlap, Block
  <2>6. ref + bw \in Words
    BY <2>1, IndexIsTyped DEF Inv, IndexAgrees, IndexOK, TypeOK
  <2> QED BY <2>1, <2>2, <2>3, <2>4, <2>5, <2>6 DEF Words
<1>3. /\ live' = Bind(live, ref, n) /\ unclean' = {} /\ UNCHANGED <<bump, cap, dirty>>
  BY <1>1, <1>2 DEF HandOut, AllocLargeFree
<1>4. /\ IndexTyped(popped) /\ IndexOK(popped) /\ popped.byStart = Drop(largeByStart, ref)
      /\ popped.byEnd = Drop(largeByEnd, ref + bw)
  BY <1>2, IndexIsTyped, UnlinkKeepsIndex DEF Inv, IndexAgrees
<1> HIDE DEF ref, popped
<1>5. \A b \in Blocks \ {old} : /\ b.start \in Nat /\ b.words \in Nat \ {0}
                               /\ b.start + b.words <= bump
                               /\ \/ b.start + b.words <= ref
                                  \/ ref + bw <= b.start
  BY <1>2, BlockTyped DEF Inv, NoOverlap, Apart, Block
<1>a. new.start = ref /\ new.words = n
  BY DEF Block
<1>b. DOMAIN live' \subseteq Words /\ live' \in [DOMAIN live' -> Requests]
  BY <1>2, <1>3 DEF Inv, TypeOK, Bind
<1>6. LiveBlocks' \subseteq LiveBlocks \cup {new}
  BY <1>2, <1>3 DEF LiveBlocks, Bind
<1>7. old \notin LiveBlocks /\ old \notin SmallFree
  <2>1. \A b \in LiveBlocks : b.kind = "live"
    BY DEF LiveBlocks, Block
  <2>2. \A b \in SmallFree : b.kind = "small"
    BY DEF SmallFree, Block
  <2>3. old.kind = "large"
    BY DEF Block
  <2> QED BY <2>1, <2>2, <2>3
<1>8. Tiled(Blocks, bump) /\ bump \in Nat
  BY BlockTyped DEF Inv, NoOverlap, Tiled
<1>9. \A a \in DOMAIN popped.byStart : /\ popped.byStart[a] = largeByStart[a]
                                      /\ Block("large", a, largeByStart[a]) \in LargeFree \ {old}
  BY <1>4 DEF Drop, Restrict, LargeFree, Block
<1>c. LiveBlocks' = LiveBlocks \cup {new}
  <2>1. ref \notin DOMAIN live
    <3> SUFFICES ASSUME ref \in DOMAIN live PROVE FALSE
      OBVIOUS
    <3> DEFINE x == Block("live", ref, BlockWords(live[ref]))
    <3>1. x \in Blocks /\ x.start = ref /\ x.kind = "live" /\ old.kind = "large"
      BY BlockTyped DEF Inv, Block
    <3> HIDE DEF x, old
    <3>2. x \in Blocks \ {old}
      BY <3>1
    <3> QED BY <3>1, <3>2, <1>5, <1>2
  <2>2. DOMAIN live' = DOMAIN live \cup {ref} /\ live'[ref] = n /\ \A a \in DOMAIN live : live'[a] = live[a]
    BY <2>1, <1>3 DEF Bind
  <2> QED BY <1>2, <2>2 DEF LiveBlocks
<1>d. old \in LargeFree /\ old.start = ref /\ old.words = bw
  BY <1>2 DEF LargeFree, Block
<1>e. LargeFree = LargeOf(largeByStart) /\ LargeOf(popped.byStart) = LargeFree \ {old}
  <2>1. LargeFree = LargeOf(largeByStart)
    BY DEF LargeFree, LargeOf
  <2> QED BY <2>1, <1>2, <1>4, LargeLess
<1>10. CASE rem > Threshold
  <2>1. SetIndex(insertLarge(popped, ref + n, rem)) /\ freeWords' = freeWords - bw + rem
        /\ UNCHANGED freeHeads
    BY <1>1, <1>2, <1>10 DEF ref, popped
  <2>2. rem \in Words /\ ref + n \in Words /\ (ref + n) + rem \in Words /\ (ref + n) + rem = ref + bw
    BY <1>2, <1>10, CapacityAssumption DEF Words
  <2>3. ref + n \notin DOMAIN popped.byStart
    <3> SUFFICES ASSUME ref + n \in DOMAIN popped.byStart PROVE FALSE
      OBVIOUS
    <3> DEFINE b == Block("large", ref + n, largeByStart[ref + n])
    <3>1. b \in Blocks \ {old} /\ b.start = ref + n
      BY <1>9, <1>4 DEF Blocks, FreeBlocks, Block
    <3> QED BY <3>1, <1>5, <1>2, <1>10
  <2>4. (ref + n) + rem \notin DOMAIN popped.byEnd
    BY <1>4, <2>2 DEF Drop, Restrict
  <2> DEFINE ix == insertLarge(popped, ref + n, rem)
             extra == Block("large", ref + n, rem)
  <2>5. IndexTyped(ix) /\ IndexOK(ix) /\ ix.byStart = Bind(popped.byStart, ref + n, rem)
    BY <1>4, <1>10, <2>2, <2>3, <2>4, InsertKeepsIndex
  <2>6. SetIndex(ix)
    BY <2>1
  <2> HIDE DEF ix
  <2>7. LargeFree' \subseteq (LargeFree \ {old}) \cup {extra}
    BY <1>9, <2>5, <2>6, SetIndexKeeps DEF LargeFree, Bind
  <2>8. Blocks' \subseteq (Blocks \ {old}) \cup {new, extra}
    BY <1>6, <1>7, <2>1, <2>7 DEF Blocks, FreeBlocks, SmallFree
  <2>9. Tiled(Blocks', bump)
    <3>0. extra.start = ref + n /\ extra.words = rem
      BY DEF Block
    <3> HIDE DEF old, new, extra
    <3>1. \A m \in {new, extra}, b \in Blocks \ {old} : Apart(m, b)
      BY <1>2, <1>5, <1>10, <1>a, <3>0 DEF Apart
    <3>2. Tiled({new, extra}, bump)
      BY <1>2, <1>10, <1>8, <1>a, <3>0 DEF Tiled, Apart
    <3>3. \A b \in Blocks \ {old} : b.start + b.words <= bump
      BY <1>5
    <3> QED BY <1>8, <2>8, <3>1, <3>2, <3>3, Retile, Zenon
  <2>10. NoOverlap'
    BY <2>9, <1>3, <2>1 DEF NoOverlap, Tiled, Inv, Apart
  <2>11. TypeOK'
    <3>1. freeWords' \in Int
      BY <1>2, <2>1 DEF Inv, TypeOK
    <3> QED BY <1>b, <1>3, <2>1, <3>1, <2>5, <2>6, SetIndexKeeps DEF Inv, TypeOK
  <2>12. LargeFree' = (LargeFree \ {old}) \cup {extra}
    <3>1. LargeFree' = LargeOf(ix.byStart)
      BY <2>5, <2>6, SetIndexKeeps DEF LargeFree, LargeOf
    <3> QED BY <3>1, <2>3, <2>5, <1>e, LargeMore
  <2>13. SmallFree' = SmallFree
    BY <2>1 DEF SmallFree
  <2>14. Splits(old, n)
    <3> HIDE DEF old
    <3> QED BY <1>2, <1>3, <1>10, <1>c, <1>d, <2>1, <2>2, <2>12, <2>13 DEF Splits
  <2>15. Inv'
    BY <2>5, <2>6, <2>10, <2>11, <1>3, SetIndexKeeps DEF Inv, ZeroAboveBump
  <2> QED BY <1>d, <2>14, <2>15
<1>11. CASE ~ (rem > Threshold)
  <2>1. SetIndex(popped)
    BY <1>1, <1>2, <1>11 DEF ref, popped
  <2>2. LargeFree' \subseteq LargeFree \ {old}
    BY <1>9, <2>1, <1>4, SetIndexKeeps DEF LargeFree
  <2>a. LargeFree' = LargeFree \ {old}
    <3>1. LargeFree' = LargeOf(popped.byStart)
      BY <2>1, <1>4, SetIndexKeeps DEF LargeFree, LargeOf
    <3> QED BY <3>1, <1>e
  <2>3. CASE rem = 0
    <3>1. UNCHANGED freeHeads /\ freeWords' = freeWords - bw
      BY <1>1, <1>2, <2>3, <1>11 DEF ref, popped
    <3>2. Blocks' \subseteq (Blocks \ {old}) \cup {new}
      BY <1>6, <1>7, <2>2, <3>1 DEF Blocks, FreeBlocks, SmallFree
    <3>3. Tiled(Blocks', bump)
      <4> HIDE DEF old, new
      <4>1. \A m \in {new}, b \in Blocks \ {old} : Apart(m, b)
        BY <1>2, <1>5, <1>a DEF Apart
      <4>2. Tiled({new}, bump)
        BY <1>2, <1>8, <1>a DEF Tiled, Apart
      <4>3. \A b \in Blocks \ {old} : b.start + b.words <= bump
        BY <1>5
      <4> QED BY <1>8, <3>2, <4>1, <4>2, <4>3, Retile, Zenon
    <3>4. NoOverlap'
      BY <3>3, <1>3, <3>1 DEF NoOverlap, Tiled, Inv, Apart
    <3>5. TypeOK'
      <4>1. freeWords' \in Int
        BY <1>2, <3>1 DEF Inv, TypeOK
      <4> QED BY <1>b, <1>3, <3>1, <4>1, <2>1, <1>4, SetIndexKeeps DEF Inv, TypeOK
    <3>6. Splits(old, n)
      <4>1. SmallFree' = SmallFree
        BY <3>1 DEF SmallFree
      <4> HIDE DEF old
      <4> QED BY <1>2, <1>3, <2>3, <1>c, <1>d, <2>a, <3>1, <4>1 DEF Splits
    <3>7. Inv'
      BY <2>1, <1>4, <3>4, <3>5, <1>3, SetIndexKeeps DEF Inv, ZeroAboveBump
    <3> QED BY <1>d, <3>6, <3>7
  <2>4. CASE rem # 0
    <3>1. PICK f \in Classes : /\ IsFloorClass(f, rem)
                               /\ freeHeads' = [freeHeads EXCEPT ![f] = <<ref + n>> \o freeHeads[f]]
                               /\ freeWords' = freeWords - bw + ClassWords[f]
      BY <1>1, <1>2, <2>4, <1>11 DEF ref, popped
    <3> DEFINE u == <<ref + n>> \o freeHeads[f]
               extra == Block("small", ref + n, ClassWords[f])
    <3>2. /\ ClassWords[f] \in Nat \ {0} /\ ClassWords[f] <= rem /\ ref + n \in Words
          /\ freeHeads[f] \in Seq(Words) /\ rem \in Nat \ {0}
      <4>1. rem \in Nat \ {0}
        BY <1>2, <2>4
      <4>2. ClassWords[f] \in Nat \ {0} /\ ClassWords[f] <= rem
        BY <3>1, GeometryFacts DEF IsFloorClass
      <4>3. ref + n \in Words
        BY <1>2, <4>1, CapacityAssumption DEF Words
      <4>4. freeHeads[f] \in Seq(Words)
        BY DEF Inv, TypeOK
      <4> QED BY <4>1, <4>2, <4>3, <4>4
    <3>3. ref + n \notin Elems(freeHeads[f])
      <4> SUFFICES ASSUME ref + n \in Elems(freeHeads[f]) PROVE FALSE
        OBVIOUS
      <4>1. extra \in Blocks \ {old} /\ extra.start = ref + n
        BY <1>7, BlockTyped DEF Inv, Block
      <4>2. extra.start + extra.words <= ref \/ ref + bw <= extra.start
        BY <4>1, <1>5
      <4>3. extra.words \in Nat \ {0}
        BY <4>1, <1>5
      <4> HIDE DEF extra
      <4> QED BY <4>1, <4>2, <4>3, <1>2, <3>2
    <3>4. u \in Seq(Words) /\ Elems(u) = Elems(freeHeads[f]) \cup {ref + n} /\ IsInjective(u)
      BY <3>2, <3>3, ConsElems DEF Inv, NoOverlap
    <3>5. freeHeads' = [freeHeads EXCEPT ![f] = u]
      BY <3>1
    <3> HIDE DEF u
    <3>6. SmallFree' \subseteq SmallFree \cup {extra}
      <4> SUFFICES ASSUME NEW d \in Classes, NEW a \in Elems(freeHeads'[d])
                   PROVE  a \in Elems(freeHeads[d]) \/ (a = ref + n /\ d = f)
        BY DEF SmallFree
      <4>1. CASE d = f
        BY <3>4, <3>5, <4>1 DEF Inv, TypeOK
      <4>2. CASE d # f
        BY <3>5, <4>2 DEF Inv, TypeOK
      <4> QED BY <4>1, <4>2
    <3>7. Blocks' \subseteq (Blocks \ {old}) \cup {new, extra}
      BY <1>6, <1>7, <2>2, <3>6 DEF Blocks, FreeBlocks
    <3>8. Tiled(Blocks', bump)
      <4>0. extra.start = ref + n /\ extra.words = ClassWords[f]
        BY DEF Block
      <4> HIDE DEF old, new, extra
      <4>1. \A m \in {new, extra}, b \in Blocks \ {old} : Apart(m, b)
        BY <1>2, <1>5, <3>2, <1>a, <4>0 DEF Apart
      <4>2. Tiled({new, extra}, bump)
        BY <1>2, <3>2, <1>8, <1>a, <4>0 DEF Tiled, Apart
      <4>3. \A b \in Blocks \ {old} : b.start + b.words <= bump
        BY <1>5
      <4> QED BY <1>8, <3>7, <4>1, <4>2, <4>3, Retile, Zenon
    <3>9. \A d \in Classes : IsInjective(freeHeads'[d])
      BY <3>4, <3>5 DEF Inv, TypeOK, NoOverlap
    <3>10. NoOverlap'
      BY <3>8, <3>9, <1>3 DEF NoOverlap, Tiled, Apart
    <3>11. TypeOK'
      <4>1. freeHeads' \in [Classes -> Seq(Words)]
        BY <3>4, <3>5 DEF Inv, TypeOK
      <4>2. freeWords' \in Int
        BY <1>2, <3>1, <3>2 DEF Inv, TypeOK
      <4> QED BY <1>b, <1>3, <4>1, <4>2, <2>1, <1>4, SetIndexKeeps DEF Inv, TypeOK
    <3>12. Splits(old, n)
      <4>1. SmallFree' = SmallFree \cup {extra}
        <5>1. Gains(freeHeads, freeHeads', f, ref + n)
          BY <3>4, <3>5 DEF Inv, TypeOK, Gains
        <5>2. SmallFree = SmallOf(freeHeads) /\ SmallFree' = SmallOf(freeHeads')
          BY DEF SmallFree, SmallOf
        <5>3. SmallOf(freeHeads') = SmallOf(freeHeads) \cup {Block("small", ref + n, ClassWords[f])}
          BY <5>1, SmallMore
        <5> QED BY <5>2, <5>3
      <4> HIDE DEF old
      <4> QED BY <1>2, <1>3, <1>11, <1>c, <1>d, <2>a, <3>1, <3>2, <4>1 DEF Splits
    <3>13. Inv'
      BY <2>1, <1>4, <3>10, <3>11, <1>3, SetIndexKeeps DEF Inv, ZeroAboveBump
    <3> QED BY <1>d, <3>12, <3>13
  <2> QED BY <2>3, <2>4
<1> QED BY <1>10, <1>11

\* The merged block of freeLarge covers exactly the freed block and the free
\* neighbours that were unlinked, so it keeps clear of every other block; when
\* it is the top one nothing is left above its start.
LEMMA FreeLargeStep ==
    ASSUME Inv, NEW ref \in DOMAIN live, FreeLarge(ref)
    PROVE  Inv' /\ \E b \in LiveBlocks : \E s, e, L, R : Merges(b, s, e, L, R)
<1> DEFINE w == live[ref]
           stop == ref + w
           before == ref \in DOMAIN largeByEnd
           after == stop \in DOMAIN largeByStart
           s == IF before THEN largeByEnd[ref] ELSE ref
           e == IF after THEN stop + largeByStart[stop] ELSE stop
           ix1 == IF before THEN unlinkLarge(Index, s) ELSE Index
           ix2 == IF after THEN unlinkLarge(ix1, stop) ELSE ix1
           old == Block("live", ref, w)
           oldL == Block("large", s, ref - s)
           oldR == Block("large", stop, e - stop)
           R == {old} \cup (IF before THEN {oldL} ELSE {}) \cup (IF after THEN {oldR} ELSE {})
           new == Block("large", s, e - s)
           L == IF before THEN {oldL} ELSE {}
           T == IF after THEN {oldR} ELSE {}
<1>1. /\ w \in Nat /\ w > Threshold /\ Threshold \in Nat /\ ref \in Nat \ {0} /\ ref \in Words
      /\ old \in Blocks /\ BlockWords(w) = w /\ stop \in Nat /\ stop <= bump /\ bump \in Nat
      /\ bump <= MaxCap /\ MaxCap \in Nat
  <2>1. w \in Nat /\ w > Threshold /\ Threshold \in Nat /\ ref \in Nat \ {0} /\ ref \in Words
    BY BlockTyped, GeometryFacts DEF FreeLarge, Inv, TypeOK
  <2>2. BlockWords(w) = w /\ old \in Blocks
    BY <2>1, BlockTyped, BlockWordsPositive DEF Inv
  <2>3. stop <= bump
    BY <2>1, <2>2 DEF Inv, NoOverlap, Block
  <2> QED BY <2>1, <2>2, <2>3, CapacityAssumption DEF Inv, TypeOK, Words
<1>2. before => /\ s \in DOMAIN largeByStart /\ s \in Nat \ {0} /\ s < ref
                /\ largeByStart[s] = ref - s /\ oldL \in Blocks
  <2> SUFFICES ASSUME before
               PROVE  /\ s \in DOMAIN largeByStart /\ s \in Nat \ {0} /\ s < ref
                      /\ largeByStart[s] = ref - s /\ oldL \in Blocks
    OBVIOUS
  <2>1. s \in DOMAIN largeByStart /\ s + largeByStart[s] = ref
    BY IndexIsTyped DEF Inv, IndexAgrees, IndexOK
  <2>2. s \in Nat \ {0} /\ largeByStart[s] \in Nat \ {0}
    BY <2>1, BlockTyped DEF Inv, TypeOK
  <2>3. Block("large", s, largeByStart[s]) \in Blocks
    BY <2>1, BlockTyped DEF Inv
  <2>4. largeByStart[s] = ref - s /\ s < ref
    BY <2>1, <2>2, <1>1
  <2> QED BY <2>1, <2>2, <2>3, <2>4
<1>3. after => /\ e - stop = largeByStart[stop] /\ e \in Nat /\ e > stop /\ e <= bump
               /\ oldR \in Blocks
  <2> SUFFICES ASSUME after
               PROVE  /\ e - stop = largeByStart[stop] /\ e \in Nat /\ e > stop /\ e <= bump
                      /\ oldR \in Blocks
    OBVIOUS
  <2>1. largeByStart[stop] \in Nat \ {0}
    BY BlockTyped DEF Inv, TypeOK
  <2>2. Block("large", stop, largeByStart[stop]) \in Blocks
    BY BlockTyped DEF Inv
  <2>3. stop + largeByStart[stop] <= bump
    BY <2>2 DEF Inv, NoOverlap, Block
  <2>4. e - stop = largeByStart[stop] /\ e \in Nat /\ e > stop
    BY <2>1, <1>1
  <2> QED BY <2>2, <2>3, <2>4
<1>4. /\ s \in Nat \ {0} /\ s <= ref /\ (~ before => s = ref)
      /\ e \in Nat /\ stop <= e /\ e <= bump /\ s < e /\ (~ after => e = stop)
  BY <1>1, <1>2, <1>3
<1>5. /\ old.start = ref /\ old.words = w /\ oldL.start = s /\ oldL.words = ref - s
      /\ oldR.start = stop /\ oldR.words = e - stop /\ new.start = s /\ new.words = e - s
  BY DEF Block
<1>z. old \in LiveBlocks
  BY <1>1 DEF LiveBlocks
<1>6. /\ IF e = bump
         THEN /\ SetIndex(ix2) /\ bump' = s /\ dirty' = dirty \ Span(s, e - s)
              /\ freeWords' = freeWords - ((e - s) - w)
         ELSE /\ SetIndex(insertLarge(ix2, s, e - s)) /\ UNCHANGED <<bump, dirty>>
              /\ freeWords' = (freeWords - ((e - s) - w)) + (e - s)
      /\ live' = Drop(live, ref) /\ freeWords' \in Int
      /\ UNCHANGED <<cap, freeHeads, unclean>>
  <2>1. /\ IF e = bump
           THEN /\ SetIndex(ix2) /\ bump' = s /\ dirty' = dirty \ Span(s, e - s)
                /\ freeWords' = freeWords - ((e - s) - w)
           ELSE /\ SetIndex(insertLarge(ix2, s, e - s)) /\ UNCHANGED <<bump, dirty>>
                /\ freeWords' = (freeWords - ((e - s) - w)) + (e - s)
        /\ live' = Drop(live, ref)
        /\ UNCHANGED <<cap, freeHeads, unclean>>
    BY Zenon DEF FreeLarge, FreeBefore, FreeAfter, Cleared
  <2> HIDE DEF s, e, w, ix2
  <2>2. freeWords \in Int
    BY DEF Inv, TypeOK
  <2>3. s \in Int /\ e \in Int /\ w \in Int
    BY <1>1, <1>4
  <2>4. freeWords' \in Int
    BY <2>1, <2>2, <2>3
  <2> QED BY <2>1, <2>4
\* The index after the unlinks.
<1>7. /\ IndexTyped(ix1) /\ IndexOK(ix1)
      /\ before => /\ ix1.byStart = Drop(largeByStart, s) /\ ix1.byEnd = Drop(largeByEnd, ref)
      /\ ~ before => ix1.byStart = largeByStart /\ ix1.byEnd = largeByEnd
  <2>1. CASE before
    <3>1. s + largeByStart[s] = ref
      BY <2>1, <1>2, <1>1
    <3>2. s \in DOMAIN Index.byStart /\ Index.byStart[s] = largeByStart[s]
      BY <2>1, <1>2, IndexIsTyped DEF Inv
    <3> HIDE DEF s
    <3> QED BY <2>1, <3>1, <3>2, IndexIsTyped, UnlinkKeepsIndex DEF Inv, IndexAgrees
  <2>2. CASE ~ before
    BY <2>2, IndexIsTyped DEF Inv, IndexAgrees
  <2> QED BY <2>1, <2>2
<1> HIDE DEF ix1
<1>8. after => stop \in DOMAIN ix1.byStart /\ ix1.byStart[stop] = largeByStart[stop]
  BY <1>7, <1>1, <1>2 DEF Drop, Restrict
<1>9. /\ IndexTyped(ix2) /\ IndexOK(ix2)
      /\ after => ix2.byStart = Drop(ix1.byStart, stop) /\ ix2.byEnd = Drop(ix1.byEnd, e)
      /\ ~ after => ix2.byStart = ix1.byStart /\ ix2.byEnd = ix1.byEnd
  <2>1. CASE after
    <3>1. stop + ix1.byStart[stop] = e
      BY <2>1, <1>8
    <3> HIDE DEF stop, e, s
    <3> QED BY <2>1, <3>1, <1>7, <1>8, UnlinkKeepsIndex
  <2>2. CASE ~ after
    BY <2>2, <1>7
  <2> QED BY <2>1, <2>2
<1> HIDE DEF ix2, old, oldL, oldR, new, w
<1>10. \A a \in DOMAIN ix2.byStart :
          /\ a \in DOMAIN largeByStart /\ ix2.byStart[a] = largeByStart[a]
          /\ (before => a # s) /\ (after => a # stop)
  BY <1>7, <1>9 DEF Drop, Restrict
<1>a. OnLeft(old, s, L) /\ old.start = ref /\ old.words = w /\ old \in LiveBlocks
  <2>1. CASE before
    <3>1. oldL \in LargeFree
      BY <2>1, <1>2 DEF LargeFree, oldL
    <3>2. old.start = ref /\ old.words = w /\ old \in LiveBlocks
      BY <1>5, <1>z
    <3>3. s < old.start /\ {oldL} = {Block("large", s, old.start - s)}
      BY <2>1, <3>2, <1>2 DEF oldL
    <3> HIDE DEF old, oldL, w
    <3> QED BY <2>1, <3>1, <3>2, <3>3 DEF OnLeft
  <2>2. CASE ~ before
    <3>1. \A a \in DOMAIN largeByStart : a + largeByStart[a] # ref
      BY <2>2, IndexIsTyped DEF Inv, IndexAgrees, IndexOK
    <3>2. old.start = ref /\ old.words = w /\ old \in LiveBlocks
      BY <1>5, <1>z
    <3>3. \A b \in LargeFree : b.start + b.words # s
      BY <2>2, <3>1 DEF LargeFree, Block
    <3> HIDE DEF old, w
    <3> QED BY <2>2, <3>2, <3>3 DEF OnLeft
  <2> QED BY <2>1, <2>2
<1>b. OnRight(old, e, T)
  <2>1. CASE after
    <3>1. oldR \in LargeFree
      BY <2>1, <1>3 DEF LargeFree, oldR
    <3> QED BY <2>1, <3>1, <1>1, <1>3 DEF OnRight, old, oldR, Block
  <2>2. CASE ~ after
    BY <2>2, <1>1 DEF OnRight, LargeFree, old, Block
  <2> QED BY <2>1, <2>2
<1>c. LargeOf(ix2.byStart) = LargeFree \ (L \cup T)
  <2>1. LargeFree = LargeOf(largeByStart)
    BY DEF LargeFree, LargeOf
  <2>2. LargeOf(ix1.byStart) = LargeFree \ L
    <3>1. before => LargeOf(Drop(largeByStart, s)) = LargeFree \ {oldL}
      BY <1>2, <2>1, LargeLess DEF oldL
    <3> QED BY <3>1, <1>7, <2>1
  <2>3. LargeOf(ix2.byStart) = LargeOf(ix1.byStart) \ T
    <3>1. after => LargeOf(Drop(ix1.byStart, stop)) = LargeOf(ix1.byStart) \ {oldR}
      BY <1>3, <1>8, LargeLess DEF oldR
    <3> QED BY <3>1, <1>9
  <2> QED BY <2>2, <2>3
<1>d. LiveBlocks' = LiveBlocks \ {old}
  BY <1>6, <1>1 DEF LiveBlocks, Drop, Restrict, Block, old, w
<1>e. SmallFree' = SmallFree
  BY <1>6 DEF SmallFree
<1> HIDE DEF s, e, stop, L, T
<1>11. \A b \in Blocks \ R : /\ b.start \in Nat /\ b.words \in Nat \ {0}
                             /\ b.start + b.words <= bump
                             /\ \/ b.start + b.words <= s
                                \/ e <= b.start
  <2> SUFFICES ASSUME NEW b \in Blocks \ R
               PROVE  \/ b.start + b.words <= s
                      \/ e <= b.start
    BY BlockTyped DEF Inv, NoOverlap
  <2>1. b.start \in Nat /\ b.words \in Nat \ {0}
    BY BlockTyped DEF Inv
  <2>2. Apart(b, old) /\ (before => Apart(b, oldL)) /\ (after => Apart(b, oldR))
    BY <1>1, <1>2, <1>3 DEF Inv, NoOverlap
  <2>3. \/ b.start + b.words <= ref
        \/ stop <= b.start
    BY <2>2, <1>5 DEF Apart, stop
  <2>4. before => \/ b.start + b.words <= s
                  \/ ref <= b.start
    BY <2>2, <1>5, <1>4, <1>1 DEF Apart
  <2>5. after => \/ b.start + b.words <= stop
                 \/ e <= b.start
    BY <2>2, <1>5, <1>4, <1>1 DEF Apart
  <2> QED BY <2>1, <2>3, <2>4, <2>5, <1>4, <1>1
<1>12. LiveBlocks' \subseteq Blocks \ R
  <2>1. LiveBlocks' \subseteq LiveBlocks \ {old}
    BY <1>6, <1>1 DEF LiveBlocks, Drop, Restrict, Block, old, w
  <2>2. \A b \in LiveBlocks : b.kind = "live"
    BY DEF LiveBlocks, Block
  <2>3. oldL.kind = "large" /\ oldR.kind = "large"
    BY DEF oldL, oldR, Block
  <2> QED BY <2>1, <2>2, <2>3 DEF Blocks
<1>13. SmallFree' \subseteq Blocks \ R
  <2>1. SmallFree' = SmallFree
    BY <1>6 DEF SmallFree
  <2>2. \A b \in SmallFree : b.kind = "small"
    BY DEF SmallFree, Block
  <2>3. oldL.kind = "large" /\ oldR.kind = "large" /\ old.kind = "live"
    BY DEF oldL, oldR, old, Block
  <2> QED BY <2>1, <2>2, <2>3 DEF Blocks, FreeBlocks
<1>14. \A a \in DOMAIN ix2.byStart : Block("large", a, ix2.byStart[a]) \in Blocks \ R
  <2> SUFFICES ASSUME NEW a \in DOMAIN ix2.byStart
               PROVE  Block("large", a, largeByStart[a]) \in Blocks \ R
    BY <1>10
  <2> DEFINE b == Block("large", a, largeByStart[a])
  <2>1. b \in Blocks
    BY <1>10, BlockTyped DEF Inv
  <2>2. b.kind = "large" /\ b.start = a /\ old.kind = "live"
    BY DEF Block, old
  <2>3. (before => b # oldL) /\ (after => b # oldR) /\ b # old
    BY <2>2, <1>5, <1>10
  <2> HIDE DEF R
  <2>4. b \in Blocks \ R
    <3> HIDE DEF b
    <3> QED BY <2>1, <2>3 DEF R
  <2> QED BY <2>4
<1>15. Tiled(Blocks, bump)
  BY DEF Inv, NoOverlap, Tiled
<1> HIDE DEF before, after, R
<1>16. CASE e = bump
  <2>1. SetIndex(ix2) /\ bump' = s /\ dirty' = dirty \ Span(s, e - s)
    BY <1>6, <1>16
  <2>2. LargeFree' \subseteq Blocks \ R
    BY <1>14, <1>9, <2>1, SetIndexKeeps DEF LargeFree
  <2> DEFINE N == {}
  <2>3. Blocks' \subseteq (Blocks \ R) \cup N
    BY <1>12, <1>13, <2>2 DEF Blocks, FreeBlocks
  <2>4. Tiled(Blocks', s)
    <3>1. \A b \in Blocks \ R : b.start + b.words <= s
      BY <1>11, <1>16, <1>4
    <3>2. Tiled(N, s) /\ \A m \in N, b \in Blocks \ R : Apart(m, b)
      BY DEF Tiled
    <3> HIDE DEF N
    <3> QED BY <1>15, <2>3, <3>1, <3>2, Retile, Zenon
  <2>5. NoOverlap'
    BY <2>4, <2>1, <1>6 DEF NoOverlap, Tiled, Inv, Apart
  <2>6. ZeroAboveBump' /\ unclean' = {}
    BY <2>1, <1>16, <1>4, <1>6 DEF Inv, ZeroAboveBump, Span, TypeOK, Words
  <2>7. s \in Words /\ s <= cap
    BY <1>1, <1>4 DEF Inv, TypeOK, Words
  <2>8. TypeOK'
    BY <2>1, <2>6, <2>7, <1>6, <1>9, SetIndexKeeps DEF Inv, TypeOK, Drop, Restrict
  <2>9. Merges(old, s, e, L, T)
    <3>1. LargeFree' = LargeFree \ (L \cup T)
      <4>1. LargeFree' = LargeOf(ix2.byStart)
        BY <2>1, <1>9, SetIndexKeeps DEF LargeFree, LargeOf
      <4> QED BY <4>1, <1>c
    <3>2. freeWords' = freeWords - ((e - s) - w)
      BY <1>6, <1>16
    <3> QED BY <1>1, <1>4, <1>16, <1>a, <1>b, <1>d, <1>e, <2>1, <3>1, <3>2 DEF Merges
  <2>10. Inv'
    BY <2>1, <2>5, <2>6, <2>8, <1>9, SetIndexKeeps DEF Inv
  <2> QED BY <1>a, <2>9, <2>10
<1>17. CASE e # bump
  <2> DEFINE ix3 == insertLarge(ix2, s, e - s)
  <2>1. SetIndex(ix3) /\ UNCHANGED <<bump, dirty>>
    BY <1>6, <1>17
  <2>2. /\ s \in Words /\ e - s \in Words /\ s + (e - s) = e /\ e \in Words /\ e - s > Threshold
    BY <1>1, <1>4 DEF Words, stop
  <2>3. s \notin DOMAIN ix2.byStart
    <3> SUFFICES ASSUME s \in DOMAIN ix2.byStart PROVE FALSE
      OBVIOUS
    <3> DEFINE b == Block("large", s, ix2.byStart[s])
    <3>1. b \in Blocks \ R /\ b.start = s
      BY <1>14 DEF Block
    <3> QED BY <3>1, <1>11, <1>4, <1>1, <2>2 DEF Words
  <2>4. e \notin DOMAIN ix2.byEnd
    <3> SUFFICES ASSUME e \in DOMAIN ix2.byEnd PROVE FALSE
      OBVIOUS
    <3> DEFINE a == ix2.byEnd[e]
               b == Block("large", a, ix2.byStart[a])
    <3>1. a \in DOMAIN ix2.byStart /\ a + ix2.byStart[a] = e
      BY <1>9 DEF IndexOK
    <3>2. b \in Blocks \ R /\ b.start + b.words = e
      BY <3>1, <1>14 DEF Block
    <3> QED BY <3>2, <1>11, <1>4, <1>1, <2>2 DEF Words
  <2>5. IndexTyped(ix3) /\ IndexOK(ix3) /\ ix3.byStart = Bind(ix2.byStart, s, e - s)
    BY <1>9, <2>2, <2>3, <2>4, InsertKeepsIndex
  <2> HIDE DEF ix3
  <2>6. LargeFree' \subseteq (Blocks \ R) \cup {new}
    BY <1>14, <2>5, <2>1, SetIndexKeeps DEF LargeFree, Bind, new
  <2>7. Blocks' \subseteq (Blocks \ R) \cup {new}
    BY <1>12, <1>13, <2>6 DEF Blocks, FreeBlocks
  <2>8. Tiled(Blocks', bump)
    <3>1. \A m \in {new}, b \in Blocks \ R : Apart(m, b)
      BY <1>11, <1>5, <1>4 DEF Apart
    <3>2. Tiled({new}, bump)
      BY <1>5, <1>4, <2>2 DEF Tiled
    <3>3. \A b \in Blocks \ R : b.start + b.words <= bump
      BY <1>11
    <3> QED BY <1>15, <2>7, <3>1, <3>2, <3>3, Retile, Zenon
  <2>9. NoOverlap'
    BY <2>8, <2>1, <1>6 DEF NoOverlap, Tiled, Inv, Apart
  <2>10. ZeroAboveBump' /\ unclean' = {}
    BY <2>1, <1>6 DEF Inv, ZeroAboveBump
  <2>11. TypeOK'
    BY <2>1, <2>5, <1>6, SetIndexKeeps DEF Inv, TypeOK, Drop, Restrict
  <2>12. Merges(old, s, e, L, T)
    <3>1. LargeFree' = (LargeFree \ (L \cup T)) \cup {new}
      <4>1. LargeFree' = LargeOf(ix3.byStart)
        BY <2>1, <2>5, SetIndexKeeps DEF LargeFree, LargeOf
      <4> QED BY <4>1, <2>3, <2>5, <1>c, LargeMore DEF new
    <3>2. freeWords' = (freeWords - ((e - s) - w)) + (e - s)
      BY <1>6, <1>17
    <3> QED BY <1>1, <1>4, <1>17, <1>a, <1>b, <1>d, <1>e, <2>1, <3>1, <3>2 DEF Merges, new
  <2>13. Inv'
    BY <2>1, <2>5, <2>9, <2>10, <2>11, SetIndexKeeps DEF Inv
  <2> QED BY <1>a, <2>12, <2>13
<1> QED BY <1>16, <1>17

----------------------------------------------------------------------------
(* Theorems *)

\* Every step keeps the invariant.
LEMMA NextInv == Inv /\ [Next]_vars => Inv'
<1> SUFFICES ASSUME Inv, [Next]_vars PROVE Inv'
  OBVIOUS
<1>1. ASSUME NEW n \in Requests, AllocBytes(n) PROVE Inv'
  BY <1>1, SmallFreeStep, LargeFreeStep, BumpStep DEF AllocBytes
<1>2. ASSUME NEW ref \in DOMAIN live, Free(ref) PROVE Inv'
  BY <1>2, FreeSmallStep, FreeLargeStep DEF Free
<1>3. ASSUME NEW t \in Targets, Compact(t) PROVE Inv'
  BY <1>3, CompactStep
<1>4. CASE UNCHANGED vars
  <2>1. Blocks' = Blocks /\ Index' = Index
    BY <1>4 DEF vars, index, Blocks, LiveBlocks, FreeBlocks, SmallFree, LargeFree, Index
  <2> QED BY <1>4, <2>1 DEF vars, index, Inv, TypeOK, NoOverlap, IndexAgrees, IndexOK,
                            ZeroAboveBump, Apart
<1> QED BY <1>1, <1>2, <1>3, <1>4 DEF Next

\* The invariant always holds, for every geometry and capacity.
THEOREM SpecInv == Spec => []Inv
BY InitInv, NextInv, PTL DEF Spec

\* The shapes of the variables, for every geometry: in particular bump never
\* passes the capacity and the index maps never leave the slab.
THEOREM TypeCorrect == Spec => []TypeOK
<1>1. Inv => TypeOK
  BY DEF Inv
<1> QED BY <1>1, SpecInv, PTL

\* AllocBytes, Free, freeLarge and Compact never let two blocks share a word.
THEOREM BlocksNeverOverlap == Spec => []NoOverlap
<1>1. Inv => NoOverlap
  BY DEF Inv
<1> QED BY <1>1, SpecInv, PTL

\* largeByStart, largeByEnd and the LARGE buckets always agree.
THEOREM IndexAlwaysAgrees == Spec => []IndexAgrees
<1>1. Inv => IndexAgrees
  BY DEF Inv
<1> QED BY <1>1, SpecInv, PTL

\* Words above bump are zero whenever AllocBytes can carve them.
THEOREM AlwaysZeroAboveBump == Spec => []ZeroAboveBump
<1>1. Inv => ZeroAboveBump
  BY DEF Inv
<1> QED BY <1>1, SpecInv, PTL

----------------------------------------------------------------------------
(* Refinement *)

Held == {[start |-> a, words |-> BlockWords(live[a])] : a \in DOMAIN live}

\* Binding a new address hands out one block; that it is disjoint from the held
\* ones is the invariant of the state it leads to.
LEMMA BindAcquires ==
    ASSUME Inv, Inv', NEW n \in Requests, NEW ref \in Words \ DOMAIN live,
           live' = Bind(live, ref, n)
    PROVE  \E b \in [start : Words, words : {BlockWords(m) : m \in Requests}] : Promise!Acquire(b)
<1> DEFINE b == [start |-> ref, words |-> BlockWords(n)]
<1>1. Held' = Held \cup {b}
  BY DEF Held, Bind
<1>2. ASSUME NEW a \in DOMAIN live
      PROVE  a + BlockWords(live[a]) <= ref \/ ref + BlockWords(n) <= a
  <2> DEFINE x == Block("live", a, BlockWords(live[a]))
             y == Block("live", ref, BlockWords(n))
  <2>1. x \in LiveBlocks' /\ y \in LiveBlocks'
    BY DEF LiveBlocks, Bind
  <2>2. x \in Blocks' /\ y \in Blocks'
    BY <2>1 DEF Blocks
  <2>3. x # y
    BY DEF Block
  <2>4. NoOverlap'
    BY DEF Inv
  <2> HIDE DEF x, y
  <2>5. x.start + x.words <= y.start \/ y.start + y.words <= x.start
    BY <2>2, <2>3, <2>4 DEF NoOverlap, Apart
  <2> QED BY <2>5 DEF x, y, Block
<1>3. \A h \in Held : h.start + h.words <= b.start \/ b.start + b.words <= h.start
  BY <1>2 DEF Held
<1>4. b \in [start : Words, words : {BlockWords(m) : m \in Requests}]
  OBVIOUS
<1> QED BY <1>1, <1>3, <1>4 DEF Promise!Acquire, Promise!Disjoint, Held, Inv

\* Taking a block off the live ones is a Release.
LEMMA DropReleases ==
    ASSUME Inv, Inv', NEW ref \in DOMAIN live, live' = Drop(live, ref)
    PROVE  \E b \in [start : Words, words : {BlockWords(m) : m \in Requests}] : Promise!Release(b)
<1> DEFINE b == [start |-> ref, words |-> BlockWords(live[ref])]
<1>1. Held' = Held \ {b} /\ b \in Held
  BY DEF Held, Drop, Restrict
<1>2. b \in [start : Words, words : {BlockWords(m) : m \in Requests}]
  BY DEF Inv, TypeOK
<1> QED BY <1>1, <1>2 DEF Promise!Release, Held, Inv

\* AllocBytes never hands out an address that is held.
LEMMA HandsOutFree ==
    ASSUME Inv, NEW n \in Requests, AllocBytes(n)
    PROVE  \E ref \in Words \ DOMAIN live : live' = Bind(live, ref, n)
<1>1. CASE AllocSmallFree(n)
  <2> DEFINE c == sizeClass(Rounded(n))
             ref == Head(freeHeads[c])
  <2>1. c \in Classes /\ freeHeads[c] # <<>> /\ live' = Bind(live, ref, n)
    BY <1>1, BlockWordsPositive, CapacityAssumption DEF AllocSmallFree, HandOut
  <2>2. ref \in Elems(freeHeads[c])
    BY <2>1, TailElems DEF Inv, TypeOK
  <2> HIDE DEF c, ref
  <2>3. Block("small", ref, ClassWords[c]) \in Blocks /\ ref \in Words
    BY <2>1, <2>2, BlockTyped DEF Inv
  <2>4. ref \notin DOMAIN live
    <3> SUFFICES ASSUME ref \in DOMAIN live PROVE FALSE
      OBVIOUS
    <3> DEFINE x == Block("live", ref, BlockWords(live[ref]))
               y == Block("small", ref, ClassWords[c])
    <3>1. x \in Blocks /\ y \in Blocks /\ x.start = y.start /\ x # y
      BY <2>3, BlockTyped DEF Inv, Block
    <3> HIDE DEF x, y
    <3> QED BY <3>1, BlockTyped DEF Inv, NoOverlap, Apart
  <2> QED BY <2>1, <2>3, <2>4
<1>2. CASE AllocLargeFree(n)
  <2>0. PICK c \in LargeClasses : \E i \in DOMAIN largeFreeHeads[c] :
          live' = Bind(live, largeFreeHeads[c][i], n)
    BY <1>2 DEF AllocLargeFree, HandOut
  <2>1. PICK i \in DOMAIN largeFreeHeads[c] : live' = Bind(live, largeFreeHeads[c][i], n)
    BY <2>0
  <2> DEFINE ref == largeFreeHeads[c][i]
  <2>2. ref \in DOMAIN largeByStart
    BY IndexIsTyped DEF Inv, IndexAgrees, IndexOK
  <2> HIDE DEF ref
  <2>3. Block("large", ref, largeByStart[ref]) \in Blocks /\ ref \in Words
    BY <2>2, BlockTyped DEF Inv, TypeOK
  <2>4. ref \notin DOMAIN live
    <3> SUFFICES ASSUME ref \in DOMAIN live PROVE FALSE
      OBVIOUS
    <3> DEFINE x == Block("live", ref, BlockWords(live[ref]))
               y == Block("large", ref, largeByStart[ref])
    <3>1. x \in Blocks /\ y \in Blocks /\ x.start = y.start /\ x # y
      BY <2>3, BlockTyped DEF Inv, Block
    <3> HIDE DEF x, y
    <3> QED BY <3>1, BlockTyped DEF Inv, NoOverlap, Apart
  <2> QED BY <2>1, <2>3, <2>4 DEF ref
<1>3. CASE AllocBump(n)
  <2>1. live' = Bind(live, bump, n) /\ bump \in Words
    BY <1>3 DEF AllocBump, HandOut, Inv, TypeOK
  <2>2. bump \notin DOMAIN live
    <3> SUFFICES ASSUME bump \in DOMAIN live PROVE FALSE
      OBVIOUS
    <3> DEFINE x == Block("live", bump, BlockWords(live[bump]))
    <3>1. x \in Blocks /\ x.start = bump
      BY BlockTyped DEF Inv, Block
    <3> HIDE DEF x
    <3> QED BY <3>1, BlockTyped DEF Inv, NoOverlap
  <2> QED BY <2>1, <2>2
<1> QED BY <1>1, <1>2, <1>3 DEF AllocBytes

\* Every step of the allocator is a step of BlockStore or a stutter.
LEMMA PromiseStep == Inv /\ Inv' /\ [Next]_vars => [Promise!Next]_(Promise!vars)
<1> SUFFICES ASSUME Inv, Inv', [Next]_vars PROVE [Promise!Next]_(Promise!vars)
  OBVIOUS
<1>1. ASSUME NEW n \in Requests, AllocBytes(n) PROVE Promise!Next
  BY <1>1, HandsOutFree, BindAcquires DEF Promise!Next
<1>2. ASSUME NEW ref \in DOMAIN live, Free(ref) PROVE Promise!Next
  <2>1. live' = Drop(live, ref)
    BY <1>2 DEF Free, FreeSmall, FreeLarge
  <2> QED BY <2>1, DropReleases DEF Promise!Next
<1>3. ASSUME NEW t \in Targets, Compact(t) PROVE UNCHANGED Promise!vars
  BY <1>3 DEF Compact, Promise!vars
<1>4. CASE UNCHANGED vars
  BY <1>4 DEF vars, Promise!vars
<1> QED BY <1>1, <1>2, <1>3, <1>4 DEF Next

\* The arena keeps its promise to the layers above: every block it hands out is
\* disjoint from the blocks still held and reads as zero, and a free returns
\* exactly one held block.
THEOREM ArenaImplementsBlockStore == Spec => KeepsPromise
<1>1. Init => Promise!Init
  BY DEF Init, Promise!Init
<1> QED BY <1>1, SpecInv, PromiseStep, PTL DEF Spec, KeepsPromise, Promise!Spec


----------------------------------------------------------------------------
(* Free space *)

Numbered(B) == \A b \in B : b.start \in Nat /\ b.words \in Nat
ClearOf(B, C) == \A b \in B, c \in C : Apart(b, c)

\* Blocks that keep clear of each other share no word.
LEMMA AreasDisjoint ==
    ASSUME NEW B, NEW C, Numbered(B), Numbered(C), ClearOf(B, C)
    PROVE  Area(B) \cap Area(C) = {}
<1> SUFFICES ASSUME NEW x \in Area(B), x \in Area(C) PROVE FALSE
  OBVIOUS
<1>1. PICK b \in B : x \in Span(b.start, b.words)
  BY DEF Area
<1>2. PICK c \in C : x \in Span(c.start, c.words)
  BY DEF Area
<1>3. /\ b.start \in Nat /\ b.words \in Nat /\ c.start \in Nat /\ c.words \in Nat /\ Apart(b, c)
  BY DEF Numbered, ClearOf
<1> QED BY <1>1, <1>2, <1>3 DEF Span, Apart

\* The words of one block.
LEMMA AreaOfOne ==
    ASSUME NEW b, b.start \in Nat, b.words \in Nat
    PROVE  /\ Area({b}) = Span(b.start, b.words)
           /\ IsFiniteSet(Area({b})) /\ Cardinality(Area({b})) = b.words
<1>1. Area({b}) = Span(b.start, b.words)
  BY DEF Area
<1>2. b.start \in Int /\ b.start + b.words - 1 \in Int
  OBVIOUS
<1>3. /\ IsFiniteSet(b.start .. b.start + b.words - 1)
      /\ Cardinality(b.start .. b.start + b.words - 1) =
           IF b.start > b.start + b.words - 1 THEN 0 ELSE (b.start + b.words - 1) - b.start + 1
  BY <1>2, FS_Interval
<1>4. (IF b.start > b.start + b.words - 1 THEN 0 ELSE (b.start + b.words - 1) - b.start + 1) = b.words
  OBVIOUS
<1> QED BY <1>1, <1>3, <1>4 DEF Span

\* No word at all.
LEMMA AreaOfNone == Area({}) = {} /\ IsFiniteSet(Area({})) /\ Cardinality(Area({})) = 0
<1>1. Area({}) = {}
  BY DEF Area
<1> QED BY <1>1, FS_EmptySet

\* The words of two sets of blocks that keep clear of each other add up.
LEMMA AreasAdd ==
    ASSUME NEW B, NEW C, Numbered(B), Numbered(C), ClearOf(B, C),
           IsFiniteSet(Area(B)), IsFiniteSet(Area(C))
    PROVE  /\ Area(B \cup C) = Area(B) \cup Area(C)
           /\ IsFiniteSet(Area(B \cup C))
           /\ Cardinality(Area(B \cup C)) = Cardinality(Area(B)) + Cardinality(Area(C))
           /\ Cardinality(Area(B)) \in Nat /\ Cardinality(Area(C)) \in Nat
<1>1. Area(B \cup C) = Area(B) \cup Area(C)
  BY DEF Area
<1>2. Cardinality(Area(B) \cap Area(C)) = 0
  BY AreasDisjoint, FS_EmptySet
<1>3. /\ IsFiniteSet(Area(B) \cup Area(C))
      /\ Cardinality(Area(B) \cup Area(C)) =
           Cardinality(Area(B)) + Cardinality(Area(C)) - Cardinality(Area(B) \cap Area(C))
  BY FS_Union
<1>4. Cardinality(Area(B)) \in Nat /\ Cardinality(Area(C)) \in Nat
  BY FS_CardinalityType
<1> DEFINE m == Cardinality(Area(B))
           n == Cardinality(Area(C))
           k == Cardinality(Area(B) \cap Area(C))
<1>5. m \in Nat /\ n \in Nat /\ k = 0 /\ Cardinality(Area(B) \cup Area(C)) = m + n - k
  BY <1>2, <1>3, <1>4
<1> HIDE DEF m, n, k
<1>6. Cardinality(Area(B) \cup Area(C)) = m + n
  BY <1>5
<1> QED BY <1>1, <1>3, <1>4, <1>6 DEF m, n

\* The blocks of R are replaced by those of N.
LEMMA Recount ==
    ASSUME NEW F, NEW R, R \subseteq F, NEW N, Numbered(F), Numbered(N),
           ClearOf(F \ R, R), ClearOf(F \ R, N), IsFiniteSet(Area(F)), IsFiniteSet(Area(N))
    PROVE  /\ Cardinality(Area((F \ R) \cup N)) =
                 Cardinality(Area(F)) - Cardinality(Area(R)) + Cardinality(Area(N))
<1>1. Numbered(F \ R) /\ Numbered(R) /\ (F \ R) \cup R = F
  BY DEF Numbered
<1>2. Area(F \ R) \subseteq Area(F) /\ Area(R) \subseteq Area(F)
  BY DEF Area
<1>3. IsFiniteSet(Area(F \ R)) /\ IsFiniteSet(Area(R))
  BY <1>2, FS_Subset
<1>4. /\ Cardinality(Area(F)) = Cardinality(Area(F \ R)) + Cardinality(Area(R))
      /\ Cardinality(Area(F \ R)) \in Nat /\ Cardinality(Area(R)) \in Nat
  BY <1>1, <1>3, AreasAdd
<1>5. /\ Cardinality(Area((F \ R) \cup N)) = Cardinality(Area(F \ R)) + Cardinality(Area(N))
      /\ Cardinality(Area(N)) \in Nat
  BY <1>1, <1>3, AreasAdd
<1> QED BY <1>4, <1>5

\* In a state of the invariant: blocks are numbered, and the area of the free
\* ones is finite.
LEMMA FreeFinite ==
    ASSUME Inv
    PROVE  /\ Numbered(Blocks) /\ Numbered(FreeBlocks) /\ FreeBlocks \subseteq Blocks
           /\ IsFiniteSet(Area(FreeBlocks))
           /\ \A a, b \in Blocks : a # b => Apart(a, b)
<1>1. FreeBlocks \subseteq Blocks /\ \A b \in Blocks : b.start \in Nat /\ b.words \in Nat /\ b.start + b.words <= bump
  BY BlockTyped DEF Inv, NoOverlap, Blocks
<1>2. bump \in Nat
  BY BlockTyped DEF Inv
<1>3. Area(FreeBlocks) \subseteq 0 .. bump
  <2> SUFFICES ASSUME NEW x \in Area(FreeBlocks) PROVE x \in 0 .. bump
    OBVIOUS
  <2>1. PICK b \in FreeBlocks : x \in Span(b.start, b.words)
    BY DEF Area
  <2> QED BY <1>1, <1>2, <2>1 DEF Span
<1>4. IsFiniteSet(0 .. bump)
  BY <1>2, FS_Interval
<1>5. IsFiniteSet(Area(FreeBlocks))
  BY <1>3, <1>4, FS_Subset
<1> QED BY <1>1, <1>5 DEF Numbered, Inv, NoOverlap

\* freeWords follows the blocks that leave and enter the chains.
LEMMA CountKept ==
    ASSUME Inv, Inv', FreeBytesAgrees, NEW R, R \subseteq FreeBlocks, NEW N,
           FreeBlocks' = (FreeBlocks \ R) \cup N, N \cap (FreeBlocks \ R) = {},
           Numbered(N), IsFiniteSet(Area(N)),
           freeWords' = freeWords - Cardinality(Area(R)) + Cardinality(Area(N))
    PROVE  FreeBytesAgrees'
<1>1. Numbered(FreeBlocks) /\ IsFiniteSet(Area(FreeBlocks)) /\ ClearOf(FreeBlocks \ R, R)
  BY FreeFinite DEF ClearOf
<1>2. \A a, b \in FreeBlocks' : a # b => Apart(a, b)
  <2>1. FreeBlocks' \subseteq Blocks'
    BY DEF Blocks
  <2> QED BY <2>1 DEF Inv, NoOverlap
<1>3. ClearOf(FreeBlocks \ R, N)
  <2>1. N \subseteq FreeBlocks' /\ FreeBlocks \ R \subseteq FreeBlocks'
    OBVIOUS
  <2>2. \A a \in FreeBlocks \ R, b \in N : a # b
    OBVIOUS
  <2> QED BY <1>2, <2>1, <2>2 DEF ClearOf
<1>4. Cardinality(Area((FreeBlocks \ R) \cup N)) =
        Cardinality(Area(FreeBlocks)) - Cardinality(Area(R)) + Cardinality(Area(N))
  BY <1>1, <1>3, Recount
<1>5. Area(FreeBlocks)' = Area((FreeBlocks \ R) \cup N)
  BY DEF Area
<1> QED BY <1>4, <1>5 DEF FreeBytesAgrees

\* A small block, whoever has it, has a fixed place; a word in no block lies in
\* the tail that popLarge dropped behind the small block it cut from a remainder.
SmallAt(s, c) == \E b \in Blocks : b.start = s /\ b.words = ClassWords[c]
Owned(a) ==
    \E s \in Nat, c \in Classes :
        /\ c + 1 \in Classes /\ SmallAt(s, c)
        /\ s + ClassWords[c] <= a /\ a + 1 < s + ClassWords[c + 1]
TailsOwned == \A a \in Lost : Owned(a)

\* What is needed besides Inv for the free space: the tails have owners.
SpaceInv == FreeBytesAgrees /\ Coalesced /\ TailsOwned

\* The words of some blocks.
LEMMA AreaIn ==
    ASSUME NEW B, NEW x
    PROVE  x \in Area(B) <=> \E b \in B : x \in Span(b.start, b.words)
BY DEF Area

\* The gap is at least one word, and at least that of every pair of classes.
LEMMA ClassGapIs ==
    /\ ClassGap \in Nat \ {0}
    /\ \A c \in Classes : c + 1 \in Classes => ClassWords[c + 1] - ClassWords[c] <= ClassGap
<1> DEFINE n == Len(ClassWords)
           S == {ClassWords[c + 1] - ClassWords[c] : c \in 1 .. n - 1} \cup {1}
           T == {t \in Nat : Threshold - t \in S}
<1>1. n \in Nat \ {0} /\ Classes = 1 .. n /\ Threshold \in Nat /\ Threshold >= 2
  BY GeometryFacts DEF Classes
<1>2. \A x \in S : x \in Int /\ x <= Threshold
  <2>1. ASSUME NEW c \in 1 .. n - 1
        PROVE  ClassWords[c + 1] - ClassWords[c] \in Int /\ ClassWords[c + 1] - ClassWords[c] <= Threshold
    <3>1. c \in Classes /\ c + 1 \in Classes
      BY <1>1
    <3>2. ClassWords[c] \in Nat \ {0} /\ ClassWords[c + 1] \in Nat \ {0} /\ ClassWords[c + 1] <= Threshold
      BY <3>1, GeometryFacts
    <3> QED BY <1>1, <3>2
  <2> QED BY <1>1, <2>1
<1>3. Threshold - 1 \in T
  BY <1>1
<1>4. PICK t \in T : \A u \in T : t <= u
  <2>1. T \subseteq Nat
    OBVIOUS
  <2> HIDE DEF T
  <2> QED BY <1>3, <2>1, Least
<1>5. /\ Threshold - t \in S /\ t \in Nat
      /\ \A x \in S : Threshold - t >= x
  <2>1. ASSUME NEW x \in S PROVE Threshold - t >= x
    <3>1. x \in Int /\ x <= Threshold
      BY <1>2
    <3>2. Threshold - x \in T
      <4>1. Threshold - x \in Nat /\ Threshold - (Threshold - x) = x
        BY <1>1, <3>1
      <4> HIDE DEF S
      <4> QED BY <4>1
    <3>3. t <= Threshold - x
      BY <1>4, <3>2
    <3> HIDE DEF S, T
    <3> QED BY <1>1, <1>4, <3>1, <3>3 DEF T
  <2> QED BY <1>4, <2>1
<1>6. ClassGap \in S /\ \A x \in S : ClassGap >= x
  <2>1. ClassGap = CHOOSE m \in S : \A x \in S : m >= x
    BY DEF ClassGap, Max
  <2> HIDE DEF S
  <2> QED BY <1>5, <2>1
<1>7. ClassGap \in Nat \ {0}
  <2>1. ClassGap >= 1 /\ ClassGap \in Int
    BY <1>2, <1>6
  <2> QED BY <2>1
<1>8. ASSUME NEW c \in Classes, c + 1 \in Classes
      PROVE  ClassWords[c + 1] - ClassWords[c] <= ClassGap
  <2>1. c \in 1 .. n - 1
    BY <1>1, <1>8
  <2>2. ClassWords[c + 1] - ClassWords[c] \in S
    BY <2>1
  <2> QED BY <1>2, <1>6, <2>2
<1> QED BY <1>7, <1>8

\* Tails that have owners are short: a run of lost words as long as a class gap
\* would reach back into the small block that its last word follows.
LEMMA OwnedIsShort == Inv /\ TailsOwned => TailsAreShort
<1> SUFFICES ASSUME Inv, TailsOwned, NEW a \in Lost, Span(a, ClassGap) \subseteq Lost
             PROVE  FALSE
  BY DEF TailsAreShort
<1> DEFINE z == a + ClassGap - 1
<1>1. a \in Nat /\ ClassGap \in Nat \ {0}
  BY ClassGapIs, BlockTyped DEF Lost, Inv
<1>2. z \in Lost /\ z \in Nat
  BY <1>1 DEF Span
<1>3. PICK s \in Nat, c \in Classes :
        /\ c + 1 \in Classes /\ SmallAt(s, c)
        /\ s + ClassWords[c] <= z /\ z + 1 < s + ClassWords[c + 1]
  BY <1>2 DEF TailsOwned, Owned
<1>4. PICK b \in Blocks : b.start = s /\ b.words = ClassWords[c]
  BY <1>3 DEF SmallAt
<1>5. ClassWords[c] \in Nat \ {0} /\ ClassWords[c + 1] \in Nat
      /\ ClassWords[c + 1] - ClassWords[c] <= ClassGap
  BY <1>3, ClassGapIs, GeometryFacts
<1> DEFINE y == s + ClassWords[c] - 1
<1>6. y \in Span(a, ClassGap) /\ y \in Span(b.start, b.words)
  BY <1>1, <1>3, <1>4, <1>5 DEF Span
<1>7. y \in Lost /\ y \in Area(Blocks)
  BY <1>6, AreaIn
<1> QED BY <1>7 DEF Lost

\* Taking the head off a chain takes its element, and no other.
LEMMA TailTakes ==
    ASSUME NEW S, NEW s \in Seq(S), s # <<>>, IsInjective(s)
    PROVE  Head(s) \in Elems(s) /\ Elems(Tail(s)) = Elems(s) \ {Head(s)}
<1>1. /\ Head(s) \in Elems(s) /\ Tail(s) \in Seq(S) /\ Elems(Tail(s)) \subseteq Elems(s)
      /\ Head(s) \notin Elems(Tail(s))
  BY TailElems
<1>2. /\ Tail(s) \in Seq(S) /\ Len(Tail(s)) = Len(s) - 1
      /\ \A i \in 1 .. Len(Tail(s)) : Tail(s)[i] = s[i + 1]
  BY HeadTailProperties
<1>3. Len(s) \in Nat \ {0} /\ Head(s) = s[1] /\ DOMAIN s = 1 .. Len(s)
      /\ DOMAIN Tail(s) = 1 .. Len(Tail(s))
  BY <1>1, EmptySeq
<1>4. ASSUME NEW x \in Elems(s), x # Head(s) PROVE x \in Elems(Tail(s))
  <2>1. PICK i \in 1 .. Len(s) : s[i] = x
    BY <1>3 DEF Elems
  <2>2. i # 1
    BY <1>3, <1>4, <2>1
  <2>3. i - 1 \in 1 .. Len(Tail(s)) /\ (i - 1) + 1 = i
    BY <1>2, <1>3, <2>2
  <2>4. Tail(s)[i - 1] = x
    BY <1>2, <2>1, <2>3
  <2> QED BY <1>3, <2>3, <2>4 DEF Elems
<1> QED BY <1>1, <1>4

\* Small blocks keep their places, and no word is newly lost but an owned one.
Places == \A b \in Blocks : b.words <= Threshold =>
             \E x \in Blocks' : x.start = b.start /\ x.words = b.words

\* The tails keep their owners through a step that keeps the places.
LEMMA TailsKept ==
    ASSUME Inv, TailsOwned, Places,
           \A a \in Lost' : a \in Lost \/ Owned(a)'
    PROVE  TailsOwned'
<1> SUFFICES ASSUME NEW a \in Lost', a \in Lost PROVE Owned(a)'
  BY DEF TailsOwned
<1>1. PICK s \in Nat, c \in Classes :
        /\ c + 1 \in Classes /\ SmallAt(s, c)
        /\ s + ClassWords[c] <= a /\ a + 1 < s + ClassWords[c + 1]
  BY DEF TailsOwned, Owned
<1>2. SmallAt(s, c)'
  BY <1>1, GeometryFacts DEF SmallAt, Places
<1> QED BY <1>1, <1>2 DEF Owned

\* A lost word of the next state that is not lost now is at bump or above, or in
\* a block that is not there any more.
LEMMA NewlyLost ==
    ASSUME Inv, Inv', NEW a \in Lost', a \notin Lost
    PROVE  /\ a \in Nat \ {0} /\ a < bump'
           /\ \A b \in Blocks' : a \notin Span(b.start, b.words)
           /\ \/ a >= bump
              \/ \E b \in Blocks : b \notin Blocks' /\ a \in Span(b.start, b.words)
<1>1. a \in Int /\ 1 <= a /\ a <= bump' - 1 /\ a \notin Area(Blocks)'
  BY DEF Lost
<1>2. Area(Blocks)' = Area(Blocks')
  BY DEF Area
<1>3. bump \in Nat
  BY BlockTyped DEF Inv
<1>4. \A b \in Blocks' : a \notin Span(b.start, b.words)
  BY <1>1, <1>2, AreaIn
<1>5. a < bump => \E b \in Blocks : a \in Span(b.start, b.words)
  BY <1>1, <1>3, AreaIn DEF Lost
<1>6. a < bump => \E b \in Blocks : b \notin Blocks' /\ a \in Span(b.start, b.words)
  BY <1>4, <1>5
<1>7. bump' \in Int /\ (a >= bump \/ a < bump)
  BY <1>1, <1>3 DEF Inv, TypeOK, Words
<1>8. a \in Nat \ {0} /\ a < bump'
  <2> DEFINE top == bump'
  <2>1. a \in Int /\ 1 <= a /\ a <= top - 1 /\ top \in Int
    BY <1>1, <1>7
  <2> HIDE DEF top
  <2>2. a \in Nat \ {0} /\ a < top
    BY <2>1
  <2> QED BY <2>2 DEF top
<1> QED BY <1>4, <1>6, <1>7, <1>8

\* The index is left alone: what coalescing has done stays done.
LEMMA StaysCoalesced ==
    ASSUME Coalesced, UNCHANGED <<largeByStart, bump>>
    PROVE  Coalesced'
BY DEF Coalesced

\* A hit in a small bucket hands the block over where it is.
LEMMA SmallFreeSpace ==
    ASSUME Inv, Inv', SpaceInv, NEW n \in Requests, AllocSmallFree(n)
    PROVE  SpaceInv'
<1> DEFINE c == sizeClass(Rounded(n))
           ref == Head(freeHeads[c])
           old == Block("small", ref, ClassWords[c])
           new == Block("live", ref, ClassWords[c])
<1>1. /\ n \in Nat /\ n <= Threshold /\ c \in Classes /\ BlockWords(n) = ClassWords[c]
      /\ ClassWords[c] \in Nat \ {0}
  BY BlockWordsPositive, GeometryFacts, CapacityAssumption DEF AllocSmallFree
<1>2. /\ freeHeads[c] # <<>> /\ freeHeads' = [freeHeads EXCEPT ![c] = Tail(freeHeads[c])]
      /\ live' = Bind(live, ref, n) /\ freeWords' = freeWords - ClassWords[c]
      /\ UNCHANGED <<bump, index>>
  BY <1>1 DEF AllocSmallFree, HandOut
<1>3. freeHeads[c] \in Seq(Words) /\ IsInjective(freeHeads[c]) /\ freeHeads \in [Classes -> Seq(Words)]
  BY <1>1 DEF Inv, TypeOK, NoOverlap
<1> HIDE DEF c, ref
<1>4. ref \in Elems(freeHeads[c]) /\ Elems(Tail(freeHeads[c])) = Elems(freeHeads[c]) \ {ref}
  BY <1>2, <1>3, TailTakes DEF ref
<1>5. /\ old \in Blocks /\ old \in FreeBlocks /\ old.start = ref /\ old.words = ClassWords[c]
      /\ new.start = ref /\ new.words = ClassWords[c] /\ ref \in Nat
  <2>1. old \in SmallFree
    BY <1>1, <1>4 DEF SmallFree
  <2>2. ref \in Words /\ Words \subseteq Nat
    BY <1>1, <1>4, BlockTyped DEF Inv
  <2> QED BY <2>1, <2>2 DEF Blocks, FreeBlocks, Block
<1>6. new \in Blocks'
  BY <1>1, <1>2 DEF Blocks, LiveBlocks, Bind
<1>7. FreeBlocks' = FreeBlocks \ {old}
  <2>1. Loses(freeHeads, freeHeads', c, ref)
    BY <1>1, <1>2, <1>3, <1>4 DEF Loses
  <2>2. SmallFree = SmallOf(freeHeads) /\ SmallFree' = SmallOf(freeHeads')
    BY DEF SmallFree, SmallOf
  <2>3. SmallFree' = SmallFree \ {old}
    BY <1>1, <2>1, <2>2, SmallLess
  <2>4. LargeFree' = LargeFree /\ old \notin LargeFree
    BY <1>2 DEF LargeFree, index, Block
  <2> QED BY <2>3, <2>4 DEF FreeBlocks
<1>8. \A b \in Blocks : b # old => b \in Blocks'
  <2>1. \A b \in LiveBlocks : b \in LiveBlocks'
    <3>1. ref \notin DOMAIN live
      <4> SUFFICES ASSUME ref \in DOMAIN live PROVE FALSE
        OBVIOUS
      <4> DEFINE x == Block("live", ref, BlockWords(live[ref]))
      <4>1. x \in Blocks /\ x.start = ref /\ x # old
        BY BlockTyped DEF Inv, Block
      <4> HIDE DEF x, old
      <4> QED BY <4>1, <1>5, BlockTyped DEF Inv, NoOverlap, Apart
    <3> QED BY <1>2, <3>1 DEF LiveBlocks, Bind
  <2> QED BY <1>7, <2>1 DEF Blocks
<1> HIDE DEF old, new
<1>9. FreeBytesAgrees'
  <2> DEFINE R == {old}
             N == {}
  <2>1. /\ R \subseteq FreeBlocks /\ FreeBlocks' = (FreeBlocks \ R) \cup N
        /\ N \cap (FreeBlocks \ R) = {} /\ Numbered(N)
    BY <1>5, <1>7 DEF Numbered
  <2>2. IsFiniteSet(Area(N)) /\ Cardinality(Area(N)) = 0
    BY AreaOfNone
  <2>3. Cardinality(Area(R)) = ClassWords[c]
    BY <1>1, <1>5, AreaOfOne
  <2>4. freeWords' = freeWords - Cardinality(Area(R)) + Cardinality(Area(N))
    BY <1>1, <1>2, <2>2, <2>3 DEF Inv, TypeOK
  <2> HIDE DEF R, N
  <2> QED BY <2>1, <2>2, <2>4, CountKept DEF SpaceInv
<1>10. TailsOwned'
  <2>1. Places
    BY <1>5, <1>6, <1>8 DEF Places
  <2>2. ASSUME NEW a \in Lost', a \notin Lost PROVE FALSE
    <3>1. /\ a < bump' /\ a \in Nat /\ \A b \in Blocks' : a \notin Span(b.start, b.words)
          /\ \/ a >= bump
             \/ \E b \in Blocks : b \notin Blocks' /\ a \in Span(b.start, b.words)
      BY <2>2, NewlyLost
    <3>2. ~ (a >= bump)
      BY <1>2, <3>1, BlockTyped DEF Inv
    <3>3. a \in Span(old.start, old.words)
      BY <1>8, <3>1, <3>2
    <3> QED BY <1>5, <1>6, <3>1, <3>3
  <2> QED BY <2>1, <2>2, TailsKept DEF SpaceInv
<1>11. Coalesced'
  BY <1>2, StaysCoalesced DEF SpaceInv, index
<1> QED BY <1>9, <1>10, <1>11 DEF SpaceInv

\* Carving at bump covers the words that bump passes.
LEMMA BumpSpace ==
    ASSUME Inv, Inv', SpaceInv, NEW n \in Requests, AllocBump(n)
    PROVE  SpaceInv'
<1> DEFINE w == BlockWords(n)
           new == Block("live", bump, w)
<1>1. n \in Nat /\ w \in Nat \ {0} /\ bump \in Nat \ {0}
  BY BlockWordsPositive, CapacityAssumption, BlockTyped DEF Inv, TypeOK, Words
<1>2. /\ bump' = bump + w /\ live' = Bind(live, bump, n) /\ UNCHANGED <<freeHeads, index, freeWords>>
  BY DEF AllocBump, HandOut
<1>3. FreeBlocks' = FreeBlocks
  BY <1>2 DEF FreeBlocks, SmallFree, LargeFree, index
<1>4. new \in Blocks' /\ new.start = bump /\ new.words = w
  BY <1>2 DEF Blocks, LiveBlocks, Bind, Block
<1>5. \A b \in Blocks : b \in Blocks'
  <2>1. bump \notin DOMAIN live
    <3> SUFFICES ASSUME bump \in DOMAIN live PROVE FALSE
      OBVIOUS
    <3> DEFINE x == Block("live", bump, BlockWords(live[bump]))
    <3>1. x \in Blocks /\ x.start = bump
      BY BlockTyped DEF Inv, Block
    <3> HIDE DEF x
    <3> QED BY <3>1, BlockTyped DEF Inv, NoOverlap
  <2>2. \A b \in LiveBlocks : b \in LiveBlocks'
    BY <1>2, <2>1 DEF LiveBlocks, Bind
  <2> QED BY <1>3, <2>2 DEF Blocks
<1> HIDE DEF new, w
<1>6. FreeBytesAgrees'
  <2>1. Area(FreeBlocks)' = Area(FreeBlocks)
    BY <1>3 DEF Area
  <2> QED BY <1>2, <2>1 DEF SpaceInv, FreeBytesAgrees
<1>7. TailsOwned'
  <2>1. Places
    BY <1>5 DEF Places
  <2>2. ASSUME NEW a \in Lost', a \notin Lost PROVE FALSE
    <3>1. /\ a < bump' /\ a \in Nat /\ \A b \in Blocks' : a \notin Span(b.start, b.words)
          /\ \/ a >= bump
             \/ \E b \in Blocks : b \notin Blocks' /\ a \in Span(b.start, b.words)
      BY <2>2, NewlyLost
    <3>2. a >= bump
      BY <1>5, <3>1
    <3>3. a \in Span(new.start, new.words)
      BY <1>1, <1>2, <1>4, <3>1, <3>2 DEF Span
    <3> QED BY <1>4, <3>1, <3>3
  <2> QED BY <2>1, <2>2, TailsKept DEF SpaceInv
<1>8. Coalesced'
  <2>1. \A a \in DOMAIN largeByStart : a + largeByStart[a] <= bump /\ a \in Nat /\ largeByStart[a] \in Nat
    BY BlockTyped DEF Inv, NoOverlap, Block, TypeOK
  <2> QED BY <1>1, <1>2, <2>1 DEF Coalesced, SpaceInv, index
<1> QED BY <1>6, <1>7, <1>8 DEF SpaceInv

\* The slab swap moves no block.
LEMMA CompactSpace ==
    ASSUME Inv, SpaceInv, NEW t \in Targets, Compact(t)
    PROVE  SpaceInv'
<1>1. UNCHANGED <<live, bump, freeHeads, index, freeWords>>
  BY DEF Compact
<1>2. Blocks' = Blocks /\ FreeBlocks' = FreeBlocks
  BY <1>1 DEF Blocks, FreeBlocks, SmallFree, LargeFree, LiveBlocks, index
<1> QED BY <1>1, <1>2 DEF SpaceInv, FreeBytesAgrees, Coalesced, TailsOwned, Owned, SmallAt, Lost, Area, index

\* A free small block takes the place of the held one.
LEMMA FreeSmallSpace ==
    ASSUME Inv, Inv', SpaceInv, NEW ref \in DOMAIN live, FreeSmall(ref)
    PROVE  SpaceInv'
<1> DEFINE c == sizeClass(Rounded(live[ref]))
           old == Block("live", ref, ClassWords[c])
           new == Block("small", ref, ClassWords[c])
           u == <<ref>> \o freeHeads[c]
<1>1. /\ c \in Classes /\ ClassWords[c] \in Nat \ {0} /\ old \in Blocks /\ ref \in Words /\ ref \in Nat
      /\ BlockWords(live[ref]) = ClassWords[c]
  BY BlockWordsPositive, BlockTyped, GeometryFacts DEF FreeSmall, Inv, TypeOK
<1>2. /\ freeHeads' = [freeHeads EXCEPT ![c] = u] /\ live' = Drop(live, ref)
      /\ freeWords' = freeWords + ClassWords[c] /\ UNCHANGED <<bump, index>>
  BY DEF FreeSmall
<1> HIDE DEF c
<1>3. /\ old.start = ref /\ old.words = ClassWords[c] /\ new.start = ref /\ new.words = ClassWords[c]
      /\ new # old /\ old.kind = "live"
  BY DEF Block
<1>4. new \notin Blocks
  <2>1. ~ Apart(old, new)
    BY <1>1, <1>3 DEF Apart
  <2> QED BY <1>1, <1>3, <2>1 DEF Inv, NoOverlap
<1>5. FreeBlocks' = FreeBlocks \cup {new}
  <2>1. freeHeads[c] \in Seq(Words) /\ freeHeads \in [Classes -> Seq(Words)]
    BY <1>1 DEF Inv, TypeOK
  <2>2. ref \notin Elems(freeHeads[c])
    BY <1>1, <1>4 DEF Blocks, FreeBlocks, SmallFree
  <2>3. Elems(u) = Elems(freeHeads[c]) \cup {ref}
    BY <1>1, <2>1, <2>2, ConsElems DEF Inv, NoOverlap
  <2> HIDE DEF u
  <2>4. Gains(freeHeads, freeHeads', c, ref)
    BY <1>1, <1>2, <2>1, <2>3 DEF Gains
  <2>5. SmallFree = SmallOf(freeHeads) /\ SmallFree' = SmallOf(freeHeads')
    BY DEF SmallFree, SmallOf
  <2>6. SmallFree' = SmallFree \cup {new}
    BY <1>1, <2>4, <2>5, SmallMore
  <2>7. LargeFree' = LargeFree
    BY <1>2 DEF LargeFree, index
  <2> QED BY <2>6, <2>7 DEF FreeBlocks
<1>6. \A b \in Blocks : b # old => b \in Blocks'
  <2>1. \A b \in LiveBlocks : b # old => b \in LiveBlocks'
    BY <1>1, <1>2 DEF LiveBlocks, Drop, Restrict
  <2> QED BY <1>5, <2>1 DEF Blocks
<1>7. new \in Blocks'
  BY <1>5 DEF Blocks
<1> HIDE DEF old, new
<1>8. FreeBytesAgrees'
  <2> DEFINE R == {}
             N == {new}
  <2>1. /\ R \subseteq FreeBlocks /\ FreeBlocks' = (FreeBlocks \ R) \cup N
        /\ N \cap (FreeBlocks \ R) = {} /\ Numbered(N)
    BY <1>1, <1>3, <1>4, <1>5 DEF Numbered, Blocks
  <2>2. IsFiniteSet(Area(N)) /\ Cardinality(Area(N)) = ClassWords[c]
    BY <1>1, <1>3, AreaOfOne
  <2>3. Cardinality(Area(R)) = 0
    BY AreaOfNone
  <2>4. freeWords' = freeWords - Cardinality(Area(R)) + Cardinality(Area(N))
    BY <1>1, <1>2, <2>2, <2>3 DEF Inv, TypeOK
  <2> HIDE DEF R, N
  <2> QED BY <2>1, <2>2, <2>4, CountKept DEF SpaceInv
<1>9. TailsOwned'
  <2>1. Places
    BY <1>3, <1>6, <1>7 DEF Places
  <2>2. ASSUME NEW a \in Lost', a \notin Lost PROVE FALSE
    <3>1. /\ a < bump' /\ a \in Nat /\ \A b \in Blocks' : a \notin Span(b.start, b.words)
          /\ \/ a >= bump
             \/ \E b \in Blocks : b \notin Blocks' /\ a \in Span(b.start, b.words)
      BY <2>2, NewlyLost
    <3>2. ~ (a >= bump)
      BY <1>2, <3>1, BlockTyped DEF Inv
    <3>3. a \in Span(old.start, old.words)
      BY <1>6, <3>1, <3>2
    <3> QED BY <1>3, <1>7, <3>1, <3>3
  <2> QED BY <2>1, <2>2, TailsKept DEF SpaceInv
<1>10. Coalesced'
  BY <1>2, StaysCoalesced DEF SpaceInv, index
<1> QED BY <1>8, <1>9, <1>10 DEF SpaceInv

\* Coalesced, said of blocks.
Joined(B, top) ==
    \A a \in B : a.start + a.words # top /\ \A b \in B : a.start + a.words # b.start

\* The two ways to say it agree.
LEMMA CoalescedIsJoined == Coalesced <=> Joined(LargeFree, bump)
<1>1. \A a \in DOMAIN largeByStart : LET b == Block("large", a, largeByStart[a])
                                     IN  b \in LargeFree /\ b.start = a /\ b.words = largeByStart[a]
  BY DEF LargeFree, Block
<1>2. \A b \in LargeFree : b.start \in DOMAIN largeByStart /\ b.words = largeByStart[b.start]
  BY DEF LargeFree, Block
<1>3. ASSUME Coalesced PROVE Joined(LargeFree, bump)
  BY <1>2, <1>3 DEF Coalesced, Joined
<1>4. ASSUME Joined(LargeFree, bump) PROVE Coalesced
  BY <1>1, <1>4 DEF Coalesced, Joined
<1> QED BY <1>3, <1>4

\* They agree in the next state too.
LEMMA JoinedIsCoalesced == Joined(LargeFree, bump)' => Coalesced'
BY CoalescedIsJoined, PTL

\* Free LARGE blocks are blocks; live and small ones are of other kinds.
LEMMA LargeFacts ==
    ASSUME Inv
    PROVE  /\ LargeFree \subseteq FreeBlocks /\ LargeFree \subseteq Blocks
           /\ LargeFree \cap LiveBlocks = {} /\ LargeFree \cap SmallFree = {}
           /\ \A b \in LargeFree : /\ b.start \in Nat \ {0} /\ b.words \in Nat \ {0}
                                   /\ b.start + b.words <= bump /\ b.words > Threshold
           /\ bump \in Nat /\ freeWords \in Int
<1>1. \A b \in LargeFree : b.kind = "large"
  BY DEF LargeFree, Block
<1>2. \A b \in LiveBlocks : b.kind = "live"
  BY DEF LiveBlocks, Block
<1>3. \A b \in SmallFree : b.kind = "small"
  BY DEF SmallFree, Block
<1>4. LargeFree \subseteq FreeBlocks /\ LargeFree \subseteq Blocks
  BY DEF Blocks, FreeBlocks
<1>5. LargeFree \cap LiveBlocks = {} /\ LargeFree \cap SmallFree = {}
  BY <1>1, <1>2, <1>3
<1>6. bump \in Nat /\ freeWords \in Int /\ \A b \in Blocks : b.start \in Nat \ {0} /\ b.words \in Nat \ {0}
  BY BlockTyped DEF Inv, TypeOK
<1>7. \A b \in Blocks : b.start + b.words <= bump
  BY DEF Inv, NoOverlap
<1>8. \A b \in LargeFree : b.words > Threshold
  BY IndexIsTyped DEF Inv, IndexAgrees, IndexOK, LargeFree, Block
<1> QED BY <1>4, <1>5, <1>6, <1>7, <1>8

\* A block that overlaps another one is not there.
LEMMA Overlapping ==
    ASSUME Inv, NEW x \in Blocks, NEW y, y # x, ~ Apart(x, y)
    PROVE  y \notin Blocks
BY DEF Inv, NoOverlap

\* What popLarge leaves is counted, and the tail it drops has an owner.
LEMMA SplitSpace ==
    ASSUME Inv, Inv', SpaceInv, NEW old \in LargeFree, NEW n, Splits(old, n)
    PROVE  SpaceInv'
<1> DEFINE rem == old.words - n
           held == Block("live", old.start, n)
<1>1. /\ n \in Nat /\ rem \in Nat /\ n > Threshold /\ Threshold \in Nat
      /\ LiveBlocks' = LiveBlocks \cup {held} /\ bump' = bump
      /\ \/ /\ rem > Threshold
            /\ LargeFree' = (LargeFree \ {old}) \cup {Block("large", old.start + n, rem)}
            /\ SmallFree' = SmallFree /\ freeWords' = freeWords - old.words + rem
         \/ /\ rem = 0
            /\ LargeFree' = LargeFree \ {old} /\ SmallFree' = SmallFree
            /\ freeWords' = freeWords - old.words
         \/ \E f \in Classes :
              /\ IsFloorClass(f, rem) /\ rem <= Threshold
              /\ LargeFree' = LargeFree \ {old}
              /\ SmallFree' = SmallFree \cup {Block("small", old.start + n, ClassWords[f])}
              /\ freeWords' = freeWords - old.words + ClassWords[f]
  BY GeometryFacts DEF Splits
<1>2. /\ old \in Blocks /\ old \in FreeBlocks /\ old \notin LiveBlocks /\ old \notin SmallFree
      /\ old.start \in Nat \ {0} /\ old.words \in Nat \ {0} /\ old.start + old.words <= bump
      /\ old.words > Threshold /\ bump \in Nat /\ freeWords \in Int
  BY LargeFacts
<1>3. held \in Blocks' /\ held.start = old.start /\ held.words = n
  BY <1>1 DEF Blocks, Block
<1>4. \A b \in Blocks : b # old => b \in Blocks'
  BY <1>1 DEF Blocks, FreeBlocks
<1>5. old.words = n + rem
  BY <1>1, <1>2
<1> HIDE DEF held, rem
<1>6. Places
  BY <1>1, <1>2, <1>4 DEF Places
<1>7. ASSUME NEW a \in Lost', a \notin Lost
      PROVE  /\ a \in Nat /\ old.start + n <= a /\ a < old.start + n + rem
             /\ \A b \in Blocks' : a \notin Span(b.start, b.words)
  <2>1. /\ a \in Nat /\ a < bump' /\ \A b \in Blocks' : a \notin Span(b.start, b.words)
        /\ \/ a >= bump
           \/ \E b \in Blocks : b \notin Blocks' /\ a \in Span(b.start, b.words)
    BY <1>7, NewlyLost
  <2>2. ~ (a >= bump)
    BY <1>1, <1>2, <2>1
  <2>3. a \in Span(old.start, old.words)
    BY <1>4, <2>1, <2>2
  <2>4. a \notin Span(old.start, n)
    BY <1>3, <2>1
  <2> QED BY <1>1, <1>2, <1>5, <2>1, <2>3, <2>4 DEF Span
\* A remainder of k words, and the counting of it.
<1>8. ASSUME NEW kind, NEW k \in Nat \ {0}, k <= rem,
             FreeBlocks' = (FreeBlocks \ {old}) \cup {Block(kind, old.start + n, k)},
             freeWords' = freeWords - old.words + k
      PROVE  FreeBytesAgrees'
  <2> DEFINE extra == Block(kind, old.start + n, k)
             N == {extra}
             R == {old}
  <2>1. extra.start = old.start + n /\ extra.words = k
    BY DEF Block
  <2> HIDE DEF extra
  <2>2. extra \notin Blocks
    <3>1. ~ Apart(old, extra) /\ extra # old
      BY <1>1, <1>2, <1>5, <1>8, <2>1 DEF Apart
    <3> QED BY <1>2, <3>1, Overlapping
  <2>3. /\ R \subseteq FreeBlocks /\ FreeBlocks' = (FreeBlocks \ R) \cup N
        /\ N \cap (FreeBlocks \ R) = {} /\ Numbered(N)
    BY <1>1, <1>2, <1>8, <2>1, <2>2 DEF Numbered, Blocks, extra
  <2>4. IsFiniteSet(Area(N)) /\ Cardinality(Area(N)) = k
    BY <1>1, <1>2, <2>1, AreaOfOne
  <2>5. Cardinality(Area(R)) = old.words
    BY <1>2, AreaOfOne
  <2>6. freeWords' = freeWords - Cardinality(Area(R)) + Cardinality(Area(N))
    BY <1>8, <2>4, <2>5
  <2> HIDE DEF R, N
  <2> QED BY <2>3, <2>4, <2>6, CountKept DEF SpaceInv
<1>9. Joined(LargeFree, bump)
  BY CoalescedIsJoined DEF SpaceInv
<1>10. (LargeFree' = LargeFree \ {old}) => Coalesced'
  BY <1>1, <1>9, JoinedIsCoalesced DEF Joined
<1>11. CASE rem > Threshold /\ LargeFree' = (LargeFree \ {old}) \cup {Block("large", old.start + n, rem)}
            /\ SmallFree' = SmallFree /\ freeWords' = freeWords - old.words + rem
  <2> DEFINE extra == Block("large", old.start + n, rem)
  <2>1. extra.start = old.start + n /\ extra.words = rem /\ extra \in Blocks' /\ rem \in Nat \ {0}
    BY <1>1, <1>11 DEF Block, Blocks, FreeBlocks
  <2>2. FreeBlocks' = (FreeBlocks \ {old}) \cup {Block("large", old.start + n, rem)}
    BY <1>2, <1>11 DEF FreeBlocks
  <2>3. FreeBytesAgrees'
    BY <1>8, <1>11, <2>1, <2>2
  <2> HIDE DEF extra
  <2>4. ASSUME NEW a \in Lost', a \notin Lost PROVE FALSE
    BY <1>1, <1>2, <1>7, <2>1, <2>4 DEF Span
  <2>5. TailsOwned'
    BY <1>6, <2>4, TailsKept DEF SpaceInv
  <2>6. Joined(LargeFree, bump)'
    <3>1. LargeFree' = (LargeFree \ {old}) \cup {extra}
      BY <1>11 DEF extra
    <3>2. extra.start + extra.words = old.start + old.words
      BY <1>1, <1>2, <1>5, <2>1
    <3>3. \A b \in LargeFree : b # old =>
             /\ b.start \in Nat /\ b.words \in Nat \ {0}
             /\ b.start + b.words <= old.start \/ old.start + old.words <= b.start
      BY LargeFacts DEF Inv, NoOverlap, Apart
    <3>4. \A b \in LargeFree : b # old => b.start + b.words # extra.start
      BY <1>1, <1>2, <1>5, <2>1, <3>3
    <3>5. extra.start + extra.words # extra.start
      BY <1>1, <1>2, <2>1
    <3> QED BY <1>1, <1>9, <3>1, <3>2, <3>4, <3>5 DEF Joined
  <2> QED BY <2>3, <2>5, <2>6, JoinedIsCoalesced DEF SpaceInv
<1>12. CASE rem = 0 /\ LargeFree' = LargeFree \ {old} /\ SmallFree' = SmallFree
            /\ freeWords' = freeWords - old.words
  <2>1. FreeBytesAgrees'
    <3> DEFINE N == {}
               R == {old}
    <3>1. /\ R \subseteq FreeBlocks /\ FreeBlocks' = (FreeBlocks \ R) \cup N
          /\ N \cap (FreeBlocks \ R) = {} /\ Numbered(N)
      BY <1>2, <1>12 DEF Numbered, FreeBlocks
    <3>2. IsFiniteSet(Area(N)) /\ Cardinality(Area(N)) = 0
      BY AreaOfNone
    <3>3. Cardinality(Area(R)) = old.words
      BY <1>2, AreaOfOne
    <3>4. freeWords' = freeWords - Cardinality(Area(R)) + Cardinality(Area(N))
      BY <1>2, <1>12, <3>2, <3>3
    <3> HIDE DEF R, N
    <3> QED BY <3>1, <3>2, <3>4, CountKept DEF SpaceInv
  <2>2. ASSUME NEW a \in Lost', a \notin Lost PROVE FALSE
    BY <1>1, <1>2, <1>7, <1>12, <2>2
  <2>3. TailsOwned'
    BY <1>6, <2>2, TailsKept DEF SpaceInv
  <2> QED BY <1>10, <1>12, <2>1, <2>3 DEF SpaceInv
<1>13. ASSUME NEW f \in Classes, IsFloorClass(f, rem), rem <= Threshold, LargeFree' = LargeFree \ {old},
              SmallFree' = SmallFree \cup {Block("small", old.start + n, ClassWords[f])},
              freeWords' = freeWords - old.words + ClassWords[f]
       PROVE  SpaceInv'
  <2> DEFINE extra == Block("small", old.start + n, ClassWords[f])
  <2>1. extra.start = old.start + n /\ extra.words = ClassWords[f] /\ extra \in Blocks'
    BY <1>13 DEF Block, Blocks, FreeBlocks
  <2>2. ClassWords[f] \in Nat \ {0} /\ ClassWords[f] <= rem /\ \A d \in Classes : f < d => rem < ClassWords[d]
    BY <1>13, GeometryFacts DEF IsFloorClass
  <2>3. FreeBlocks' = (FreeBlocks \ {old}) \cup {Block("small", old.start + n, ClassWords[f])}
    BY <1>2, <1>13 DEF FreeBlocks
  <2>4. FreeBytesAgrees'
    BY <1>8, <1>13, <2>2, <2>3
  <2> HIDE DEF extra
  <2>5. ASSUME NEW a \in Lost', a \notin Lost PROVE Owned(a)'
    <3> DEFINE at == old.start + n
    <3>1. a \in Nat /\ at <= a /\ a < at + rem /\ a \notin Span(at, ClassWords[f]) /\ at \in Nat
      BY <1>1, <1>2, <1>7, <2>1, <2>5
    <3>2. at + ClassWords[f] <= a
      BY <2>2, <3>1 DEF Span
    <3>3. f + 1 \in Classes
      <4>1. f # Len(ClassWords)
        BY <1>1, <1>13, <2>2, <3>1, <3>2, GeometryFacts
      <4> QED BY <4>1, GeometryFacts DEF Classes
    <3>4. rem < ClassWords[f + 1] /\ ClassWords[f + 1] \in Nat
      BY <2>2, <3>3, GeometryFacts DEF Classes
    <3>5. a + 1 < at + ClassWords[f + 1]
      BY <1>1, <3>1, <3>4
    <3>6. SmallAt(at, f)'
      BY <2>1 DEF SmallAt
    <3> HIDE DEF at
    <3> QED BY <3>1, <3>2, <3>3, <3>5, <3>6 DEF Owned
  <2>6. TailsOwned'
    BY <1>6, <2>5, TailsKept DEF SpaceInv
  <2> QED BY <1>10, <1>13, <2>4, <2>6 DEF SpaceInv
<1> QED BY <1>1, <1>11, <1>12, <1>13
\* What the neighbours of a freed block are: free LARGE blocks that fill the
\* words between s and e on either side of it, and no other one touches them.
Sides(old, s, e, L, R) ==
    /\ L \subseteq LargeFree /\ R \subseteq LargeFree
    /\ old \in Blocks /\ old.start \in Nat /\ old.words \in Nat /\ old.words > Threshold
    /\ s \in Nat \ {0} /\ e \in Nat /\ s <= old.start /\ old.start + old.words <= e /\ e <= bump
    /\ \A b \in LargeFree : b.start + b.words # s /\ b.start # e
    /\ \A b \in {old} \cup L \cup R : s <= b.start /\ b.start + b.words <= e
    /\ IsFiniteSet(Area(L \cup R)) /\ Cardinality(Area(L \cup R)) = (e - s) - old.words
\* Every step that merges finds such neighbours.
LEMMA MergeSides ==
    ASSUME Inv, Joined(LargeFree, bump),
           NEW old, NEW s, NEW e, NEW L, NEW R, Merges(old, s, e, L, R)
    PROVE  Sides(old, s, e, L, R)
<1>1. /\ old \in LiveBlocks /\ old.words > Threshold
      /\ s \in Nat \ {0} /\ e \in Nat /\ e <= bump
      /\ OnLeft(old, s, L) /\ OnRight(old, e, R)
  BY DEF Merges
<1>2. old \in Blocks /\ old.start \in Nat /\ old.words \in Nat
  BY <1>1, BlockTyped DEF Inv, Blocks
<1> DEFINE stop == old.start + old.words
<1>3. stop \in Nat
  BY <1>2
<1>4. /\ L \subseteq LargeFree /\ s <= old.start
      /\ \A b \in LargeFree : b.start + b.words # s
      /\ \A b \in L : s <= b.start /\ b.start + b.words <= old.start
      /\ IsFiniteSet(Area(L)) /\ Cardinality(Area(L)) = old.start - s
  <2>1. CASE L = {} /\ s = old.start /\ \A b \in LargeFree : b.start + b.words # s
    <3>1. IsFiniteSet(Area(L)) /\ Cardinality(Area(L)) = 0
      BY <2>1, AreaOfNone
    <3> QED BY <1>1, <1>2, <2>1, <3>1
  <2>2. CASE s < old.start /\ L = {Block("large", s, old.start - s)} /\ L \subseteq LargeFree
    <3> DEFINE l == Block("large", s, old.start - s)
    <3>1. l \in LargeFree /\ l.start = s /\ l.words = old.start - s /\ L = {l}
      BY <2>2 DEF Block
    <3> HIDE DEF l
    <3>2. l.start \in Nat /\ l.words \in Nat /\ l.start + l.words = old.start
      BY <1>1, <1>2, <2>2, <3>1
    <3>3. IsFiniteSet(Area({l})) /\ Cardinality(Area({l})) = l.words
      BY <3>2, AreaOfOne
    <3>4. \A b \in LargeFree : b.start + b.words # s
      BY <3>1 DEF Joined
    <3>5. \A b \in L : s <= b.start /\ b.start + b.words <= old.start
      BY <1>1, <1>2, <3>1, <3>2
    <3>6. IsFiniteSet(Area(L)) /\ Cardinality(Area(L)) = old.start - s
      BY <3>1, <3>3
    <3>7. L \subseteq LargeFree /\ s <= old.start
      BY <1>1, <1>2, <2>2
    <3> QED BY <3>4, <3>5, <3>6, <3>7
  <2> QED BY <1>1, <2>1, <2>2 DEF OnLeft
<1>5. /\ R \subseteq LargeFree /\ stop <= e
      /\ \A b \in LargeFree : b.start # e
      /\ \A b \in R : stop <= b.start /\ b.start + b.words <= e
      /\ IsFiniteSet(Area(R)) /\ Cardinality(Area(R)) = e - stop
  <2>1. CASE R = {} /\ e = stop /\ \A b \in LargeFree : b.start # e
    <3>1. IsFiniteSet(Area(R)) /\ Cardinality(Area(R)) = 0
      BY <2>1, AreaOfNone
    <3> QED BY <1>1, <1>3, <2>1, <3>1
  <2>2. CASE stop < e /\ R = {Block("large", stop, e - stop)} /\ R \subseteq LargeFree
    <3> DEFINE r == Block("large", stop, e - stop)
    <3>1. r \in LargeFree /\ r.start = stop /\ r.words = e - stop /\ R = {r}
      BY <2>2 DEF Block
    <3> HIDE DEF r, stop
    <3>2. r.start \in Nat /\ r.words \in Nat /\ r.start + r.words = e
      BY <1>1, <1>3, <2>2, <3>1
    <3>3. IsFiniteSet(Area({r})) /\ Cardinality(Area({r})) = r.words
      BY <3>2, AreaOfOne
    <3>4. \A b \in LargeFree : b.start # e
      BY <3>1, <3>2 DEF Joined
    <3> QED BY <1>1, <1>3, <2>2, <3>1, <3>2, <3>3, <3>4
  <2> QED BY <1>1, <2>1, <2>2 DEF OnRight
<1>6. Numbered(L) /\ Numbered(R) /\ ClearOf(L, R)
  <2>1. \A b \in LargeFree : b.start \in Nat /\ b.words \in Nat
    BY LargeFacts
  <2>2. Numbered(L) /\ Numbered(R)
    BY <1>4, <1>5, <2>1 DEF Numbered
  <2>3. ASSUME NEW b \in L, NEW c \in R PROVE Apart(b, c)
    <3>1. /\ b.start \in Nat /\ b.words \in Nat /\ b.start + b.words <= old.start
          /\ c.start \in Nat /\ stop <= c.start
      BY <1>4, <1>5, <2>1
    <3> QED BY <1>2, <3>1 DEF Apart
  <2> QED BY <2>2, <2>3 DEF ClearOf
<1>7. /\ IsFiniteSet(Area(L \cup R))
      /\ Cardinality(Area(L \cup R)) = Cardinality(Area(L)) + Cardinality(Area(R))
  BY <1>4, <1>5, <1>6, AreasAdd
<1>8. Cardinality(Area(L \cup R)) = (e - s) - old.words
  <2>1. Cardinality(Area(L \cup R)) = (old.start - s) + (e - stop)
    BY <1>4, <1>5, <1>7
  <2> QED BY <1>1, <1>2, <2>1
<1>9. ASSUME NEW b \in {old} \cup L \cup R PROVE s <= b.start /\ b.start + b.words <= e
  <2>1. b \in LargeFree \/ b = old
    BY <1>4, <1>5
  <2>2. b.start \in Nat /\ b.words \in Nat
    BY <1>2, <2>1, LargeFacts
  <2> QED BY <1>1, <1>2, <1>4, <1>5, <2>2
<1> QED BY <1>1, <1>2, <1>4, <1>5, <1>7, <1>8, <1>9 DEF Sides

\* Words of neighbours and freed block are counted once, and no two free LARGE
\* blocks are left end to end.
LEMMA MergeSpace ==
    ASSUME Inv, Inv', SpaceInv,
           NEW old, NEW s, NEW e, NEW L, NEW R, Merges(old, s, e, L, R)
    PROVE  SpaceInv'
<1> DEFINE new == Block("large", s, e - s)
           P == L \cup R
           gone == {old} \cup L \cup R
<1>1. Joined(LargeFree, bump)
  BY CoalescedIsJoined DEF SpaceInv
<1>2. /\ L \subseteq LargeFree /\ R \subseteq LargeFree
      /\ old \in Blocks /\ old.start \in Nat /\ old.words \in Nat /\ old.words > Threshold
      /\ s \in Nat \ {0} /\ e \in Nat /\ s <= old.start /\ old.start + old.words <= e /\ e <= bump
      /\ \A b \in LargeFree : b.start + b.words # s /\ b.start # e
      /\ \A b \in gone : s <= b.start /\ b.start + b.words <= e
      /\ IsFiniteSet(Area(P)) /\ Cardinality(Area(P)) = (e - s) - old.words
  <2>1. Sides(old, s, e, L, R)
    BY <1>1, MergeSides
  <2> QED BY <2>1 DEF Sides
<1>3. /\ old \in LiveBlocks /\ LiveBlocks' = LiveBlocks \ {old} /\ SmallFree' = SmallFree
      /\ IF e = bump
         THEN /\ LargeFree' = LargeFree \ P /\ bump' = s
              /\ freeWords' = freeWords - ((e - s) - old.words)
         ELSE /\ LargeFree' = (LargeFree \ P) \cup {new} /\ bump' = bump
              /\ freeWords' = (freeWords - ((e - s) - old.words)) + (e - s)
  BY DEF Merges
<1>4. Threshold \in Nat /\ bump \in Nat /\ freeWords \in Int
  BY GeometryFacts, LargeFacts
<1>5. new.start = s /\ new.words = e - s /\ new.kind = "large" /\ s + (e - s) = e
  BY <1>2 DEF Block
<1>6. e - s \in Nat \ {0} /\ e - s >= old.words
  BY <1>2, <1>4
<1>7. P \subseteq FreeBlocks /\ P \cap SmallFree = {} /\ P \subseteq LargeFree
  BY <1>2, LargeFacts
<1>8. \A b \in Blocks : b \notin gone => b \in Blocks'
  BY <1>3 DEF Blocks, FreeBlocks
<1> HIDE DEF new, P
<1>9. new \notin Blocks
  <2> SUFFICES ASSUME new \in Blocks PROVE FALSE
    OBVIOUS
  <2>1. ~ Apart(new, old)
    BY <1>2, <1>4, <1>5 DEF Apart
  <2>2. new # old
    BY <1>3, <1>5 DEF LiveBlocks, Block
  <2> QED BY <1>2, <2>1, <2>2, Overlapping
<1>10. Places
  <2>1. ASSUME NEW b \in Blocks, b.words <= Threshold PROVE b \in Blocks'
    <3>1. b.words \in Nat
      BY BlockTyped DEF Inv
    <3>2. \A x \in LargeFree : x.words > Threshold /\ x.words \in Nat
      BY LargeFacts
    <3>3. b \notin gone
      BY <1>2, <1>4, <2>1, <3>1, <3>2
    <3> QED BY <1>8, <3>3
  <2> QED BY <2>1 DEF Places
<1>11. ASSUME NEW a \in Lost', a \notin Lost
       PROVE  /\ a \in Nat /\ a < bump' /\ s <= a /\ a < e
              /\ \A b \in Blocks' : a \notin Span(b.start, b.words)
  <2>1. /\ a \in Nat /\ a < bump' /\ \A b \in Blocks' : a \notin Span(b.start, b.words)
        /\ \/ a >= bump
           \/ \E b \in Blocks : b \notin Blocks' /\ a \in Span(b.start, b.words)
    BY <1>11, NewlyLost
  <2>2. ~ (a >= bump)
    BY <1>2, <1>3, <1>4, <2>1
  <2>3. PICK b \in Blocks : b \notin Blocks' /\ a \in Span(b.start, b.words)
    BY <2>1, <2>2
  <2>4. b.start \in Nat /\ b.words \in Nat /\ s <= b.start /\ b.start + b.words <= e
    BY <1>2, <1>8, <2>3, BlockTyped DEF Inv
  <2> QED BY <1>2, <2>1, <2>3, <2>4 DEF Span
<1> HIDE DEF gone
\* The merged block was the top one: bump takes all of it back.
<1>12. CASE e = bump
  <2>1. /\ LargeFree' = LargeFree \ P /\ bump' = s
        /\ freeWords' = freeWords - ((e - s) - old.words)
    BY <1>3, <1>12
  <2>2. FreeBytesAgrees'
    <3> DEFINE N == {}
    <3>1. FreeBlocks' = (FreeBlocks \ P) \cup N /\ N \cap (FreeBlocks \ P) = {} /\ Numbered(N)
      BY <1>3, <1>7, <2>1 DEF FreeBlocks, Numbered
    <3>2. IsFiniteSet(Area(N)) /\ Cardinality(Area(N)) = 0
      BY AreaOfNone
    <3>3. freeWords' = freeWords - Cardinality(Area(P)) + Cardinality(Area(N))
      BY <1>2, <1>4, <2>1, <3>2
    <3> HIDE DEF N
    <3> QED BY <1>7, <3>1, <3>2, <3>3, CountKept DEF SpaceInv
  <2>3. TailsOwned'
    <3>1. ASSUME NEW a \in Lost', a \notin Lost PROVE FALSE
      BY <1>2, <1>11, <2>1, <3>1
    <3> QED BY <1>10, <3>1, TailsKept DEF SpaceInv
  <2>4. Joined(LargeFree, bump)'
    BY <1>1, <1>2, <2>1 DEF Joined
  <2> QED BY <2>2, <2>3, <2>4, JoinedIsCoalesced DEF SpaceInv
\* It was not: it goes on a chain.
<1>13. CASE e # bump
  <2>1. /\ LargeFree' = (LargeFree \ P) \cup {new} /\ bump' = bump
        /\ freeWords' = (freeWords - ((e - s) - old.words)) + (e - s)
    BY <1>3, <1>13
  <2>2. FreeBytesAgrees'
    <3> DEFINE N == {new}
    <3>1. FreeBlocks' = (FreeBlocks \ P) \cup N /\ N \cap (FreeBlocks \ P) = {} /\ Numbered(N)
      BY <1>2, <1>3, <1>5, <1>6, <1>7, <1>9, <2>1 DEF FreeBlocks, Blocks, Numbered
    <3>2. IsFiniteSet(Area(N)) /\ Cardinality(Area(N)) = e - s
      BY <1>2, <1>5, <1>6, AreaOfOne
    <3>3. freeWords' = freeWords - Cardinality(Area(P)) + Cardinality(Area(N))
      BY <1>2, <1>4, <2>1, <3>2
    <3> HIDE DEF N
    <3> QED BY <1>7, <3>1, <3>2, <3>3, CountKept DEF SpaceInv
  <2>3. new \in Blocks'
    BY <2>1 DEF Blocks, FreeBlocks
  <2>4. TailsOwned'
    <3>1. ASSUME NEW a \in Lost', a \notin Lost PROVE FALSE
      BY <1>2, <1>5, <1>11, <2>3, <3>1 DEF Span
    <3> QED BY <1>10, <3>1, TailsKept DEF SpaceInv
  <2>5. Joined(LargeFree, bump)'
    <3>1. new.start = s /\ new.start + new.words = e /\ s # e
      BY <1>2, <1>4, <1>5
    <3>2. \A b \in LargeFree : b.start + b.words # s /\ b.start # e
      BY <1>2
    <3> QED BY <1>1, <1>13, <2>1, <3>1, <3>2 DEF Joined
  <2> QED BY <2>2, <2>4, <2>5, JoinedIsCoalesced DEF SpaceInv
<1> QED BY <1>12, <1>13

\* The empty arena loses nothing.
LEMMA InitSpace == Init => SpaceInv
<1> SUFFICES ASSUME Init PROVE SpaceInv
  OBVIOUS
<1>1. /\ live = [a \in {} |-> 0] /\ bump = 1 /\ freeHeads = [c \in Classes |-> <<>>]
      /\ largeByStart = [a \in {} |-> 0] /\ freeWords = 0
  BY DEF Init
<1>2. Elems(<<>>) = {}
  BY EmptySeq DEF Elems
<1>3. SmallFree = {}
  <2>1. ASSUME NEW b \in SmallOf(freeHeads) PROVE FALSE
    <3>1. PICK c \in Classes : \E a \in Elems(freeHeads[c]) : b = Block("small", a, ClassWords[c])
      BY <2>1, SmallIn
    <3>2. freeHeads[c] = <<>>
      BY <1>1
    <3> QED BY <1>2, <3>1, <3>2
  <2> QED BY <2>1 DEF SmallFree, SmallOf
<1>4. FreeBlocks = {}
  BY <1>1, <1>3 DEF FreeBlocks, LargeFree
<1>5. FreeBytesAgrees
  BY <1>1, <1>4, AreaOfNone DEF FreeBytesAgrees
<1>6. Coalesced
  BY <1>1 DEF Coalesced
<1>7. TailsOwned
  <2>1. Lost = {}
    BY <1>1 DEF Lost
  <2> QED BY <2>1 DEF TailsOwned
<1> QED BY <1>5, <1>6, <1>7 DEF SpaceInv

\* Every step keeps the free space.
LEMMA NextSpace == Inv /\ Inv' /\ SpaceInv /\ [Next]_vars => SpaceInv'
<1> SUFFICES ASSUME Inv, Inv', SpaceInv, [Next]_vars PROVE SpaceInv'
  OBVIOUS
<1>1. ASSUME NEW n \in Requests, AllocLargeFree(n) PROVE SpaceInv'
  <2>1. \E b \in LargeFree : Splits(b, n)
    BY <1>1, LargeFreeStep
  <2> QED BY <2>1, SplitSpace
<1>2. ASSUME NEW n \in Requests, AllocBytes(n) PROVE SpaceInv'
  BY <1>1, <1>2, SmallFreeSpace, BumpSpace DEF AllocBytes
<1>3. ASSUME NEW ref \in DOMAIN live, FreeLarge(ref) PROVE SpaceInv'
  <2>1. \E b \in LiveBlocks : \E s, e, L, R : Merges(b, s, e, L, R)
    BY <1>3, FreeLargeStep
  <2> QED BY <2>1, MergeSpace
<1>4. ASSUME NEW ref \in DOMAIN live, Free(ref) PROVE SpaceInv'
  BY <1>3, <1>4, FreeSmallSpace DEF Free
<1>5. ASSUME NEW t \in Targets, Compact(t) PROVE SpaceInv'
  BY <1>5, CompactSpace
<1>6. ASSUME UNCHANGED vars PROVE SpaceInv'
  <2>1. UNCHANGED <<live, bump, freeHeads, index, freeWords>>
    BY <1>6 DEF vars
  <2>2. Blocks' = Blocks /\ FreeBlocks' = FreeBlocks
    BY <2>1 DEF Blocks, FreeBlocks, SmallFree, LargeFree, LiveBlocks, index
  <2> QED BY <2>1, <2>2 DEF SpaceInv, FreeBytesAgrees, Coalesced, TailsOwned, Owned, SmallAt, Lost, Area, index
<1> QED BY <1>2, <1>4, <1>5, <1>6 DEF Next

\* freeBytes counts exactly the words on the chains, no two free LARGE blocks lie
\* end to end and none ends at bump, and of the words below bump no whole class
\* gap is in no block: after every history of splits, merges and retreats of bump.
THEOREM FreeSpaceAlwaysKept == Spec => []FreeSpaceKept
<1>1. Inv /\ SpaceInv => FreeSpaceKept
  BY OwnedIsShort DEF SpaceInv, FreeSpaceKept
<1> QED BY <1>1, SpecInv, InitSpace, NextSpace, PTL DEF Spec

----------------------------------------------------------------------------
(* The formulas of the size classes *)

\* The powers of two that lengths are compared with, as a table.
Binary == [k \in 0 .. 30 |-> 2^k]

\* What they are (sizeClass).
LEMMA Powers ==
    /\ Binary[0] = 1 /\ Binary[1] = 2 /\ Binary[2] = 4 /\ Binary[3] = 8 /\ Binary[4] = 16
    /\ Binary[5] = 32 /\ Binary[6] = 64 /\ Binary[7] = 128 /\ Binary[8] = 256 /\ Binary[9] = 512
    /\ Binary[10] = 1024 /\ Binary[11] = 2048 /\ Binary[12] = 4096 /\ Binary[13] = 8192
    /\ Binary[14] = 16384 /\ Binary[15] = 32768 /\ Binary[16] = 65536 /\ Binary[17] = 131072
    /\ Binary[18] = 262144 /\ Binary[19] = 524288 /\ Binary[20] = 1048576 /\ Binary[21] = 2097152
    /\ Binary[22] = 4194304 /\ Binary[23] = 8388608 /\ Binary[24] = 16777216 /\ Binary[25] = 33554432
    /\ Binary[26] = 67108864 /\ Binary[27] = 134217728 /\ Binary[28] = 268435456
    /\ Binary[29] = 536870912 /\ Binary[30] = 1073741824
BY SMT DEF Binary

\* Each is a natural number.
LEMMA PowersTyped == \A k \in 0 .. 30 : Binary[k] \in Nat
<1> SUFFICES ASSUME NEW k \in 0 .. 30 PROVE Binary[k] \in Nat
  OBVIOUS
<1>1. k = 0 \/ k = 1 \/ k = 2 \/ k = 3 \/ k = 4 \/ k = 5 \/ k = 6 \/ k = 7 \/
      k = 8 \/ k = 9 \/ k = 10 \/ k = 11 \/ k = 12 \/ k = 13 \/ k = 14 \/ k = 15 \/
      k = 16 \/ k = 17 \/ k = 18 \/ k = 19 \/ k = 20 \/ k = 21 \/ k = 22 \/ k = 23 \/
      k = 24 \/ k = 25 \/ k = 26 \/ k = 27 \/ k = 28 \/ k = 29 \/ k = 30
  BY SMT
<1> QED BY <1>1, Powers, SMT

\* bits.Len32 answers k for a number from 2^(k-1) up to 2^k; largeSizeClass asks it of
\* w - 1, which is 64 at least.
LEMMA Digits ==
    ASSUME NEW n \in Nat, 64 <= n, n < Binary[30]
    PROVE  /\ Formulas!Len32(n) \in 7 .. 30
           /\ Binary[Formulas!Len32(n) - 1] <= n /\ n < Binary[Formulas!Len32(n)]
<1> DEFINE right(k) == n < Binary[k] /\ (k = 0 \/ Binary[k - 1] <= n)
<1>1. ASSUME NEW k \in 0 .. 6 PROVE ~ n < Binary[k]
  <2>1. k = 0 \/ k = 1 \/ k = 2 \/ k = 3 \/ k = 4 \/ k = 5 \/ k = 6
    BY SMT
  <2> QED BY <2>1, Powers, SMT
<1>2. \E k \in 0 .. 30 : right(k)
  BY Powers, SMT
<1>3. Formulas!Len32(n) \in 0 .. 30 /\ right(Formulas!Len32(n))
  <2>1. \A k \in 0 .. 30 : right(k) <=> n < 2^k /\ (k = 0 \/ 2^(k - 1) <= n)
    <3>1. \A k \in 0 .. 30 : Binary[k] = 2^k /\ (k = 0 \/ Binary[k - 1] = 2^(k - 1))
      BY SMT DEF Binary
    <3>2. ASSUME NEW k \in 0 .. 30 PROVE right(k) <=> n < 2^k /\ (k = 0 \/ 2^(k - 1) <= n)
      <4>1. CASE k = 0
        BY <3>1, <4>1, Zenon
      <4>2. CASE k # 0
        BY <3>1, <4>2, Zenon
      <4> QED BY <4>1, <4>2
    <3> QED BY <3>2
  <2>2. Formulas!Len32(n) = CHOOSE k \in 0 .. 30 : n < 2^k /\ (k = 0 \/ 2^(k - 1) <= n)
    BY Zenon DEF Formulas!Len32
  <2> HIDE DEF right
  <2>3. \E k \in 0 .. 30 : n < 2^k /\ (k = 0 \/ 2^(k - 1) <= n)
    BY <1>2, <2>1, Zenon
  <2> QED BY <2>1, <2>2, <2>3, Zenon
<1>4. Formulas!Len32(n) \in 0 .. 6 \/ Formulas!Len32(n) \in 7 .. 30
  BY <1>3, SMT
<1>5. Formulas!Len32(n) \in 7 .. 30 /\ Formulas!Len32(n) # 0
  BY <1>1, <1>3, <1>4, SMT
<1> QED BY <1>3, <1>5

\* sizeClass picks the tightest class of a small length; the walk down of floorClass
\* stops at that class or the one below it, so it drops 7 words at most.
LEMMA SmallRight ==
    ASSUME NEW w \in 1 .. Formulas!largeThresholdWords
    PROVE  Formulas!TightestClass(w) /\ Formulas!TailAtMostSeven(w)
<1> DEFINE first == Formulas!sizeClass(w)
           fits(c) == /\ c >= 0 => Formulas!classWords(c) <= w
                      /\ \A d \in c + 1 .. first : d >= 0 => Formulas!classWords(d) > w
           f == Formulas!FirstThatFits(w)
<1>1. w \in 1 .. 64
  BY DEF Formulas!largeThresholdWords
<1>2. Formulas!TightestClass(w)
  BY <1>1 DEF Formulas!TightestClass, Formulas!sizeClass, Formulas!classWords, Formulas!largeThresholdWords, Formulas!numSizeClasses
<1>3. /\ first \in 0 .. 19 /\ Formulas!classWords(first) \in Nat
      /\ \/ Formulas!classWords(first) = w
         \/ first >= 1 /\ Formulas!classWords(first - 1) <= w /\ Formulas!classWords(first) > w /\ w - Formulas!classWords(first - 1) <= 7
            /\ Formulas!classWords(first - 1) \in Nat
  <2>1. CASE w <= 8
    <3>1. first = w - 1
      BY <1>1, <2>1 DEF Formulas!sizeClass
    <3>2. Formulas!classWords(first) = w
      BY <1>1, <2>1, <3>1 DEF Formulas!classWords
    <3> QED BY <1>1, <2>1, <3>1, <3>2
  <2>2. CASE 8 < w /\ w <= 16
    <3>1. first = 8 + (w - 9) \div 2 /\ first \in 8 .. 11
      BY <1>1, <2>2 DEF Formulas!sizeClass
    <3>2. Formulas!classWords(first) = 10 + 2 * (first - 8)
      BY <3>1 DEF Formulas!classWords
    <3>3. Formulas!classWords(first - 1) = IF first = 8 THEN 8 ELSE 10 + 2 * (first - 9)
      BY <3>1 DEF Formulas!classWords
    <3> HIDE DEF first
    <3> QED BY <1>1, <2>2, <3>1, <3>2, <3>3
  <2>3. CASE 16 < w /\ w <= 32
    <3>1. first = 12 + (w - 17) \div 4 /\ first \in 12 .. 15
      BY <1>1, <2>3 DEF Formulas!sizeClass
    <3>2. Formulas!classWords(first) = 20 + 4 * (first - 12)
      BY <3>1 DEF Formulas!classWords
    <3>3. Formulas!classWords(first - 1) = IF first = 12 THEN 16 ELSE 20 + 4 * (first - 13)
      BY <3>1 DEF Formulas!classWords
    <3> HIDE DEF first
    <3> QED BY <1>1, <2>3, <3>1, <3>2, <3>3
  <2>4. CASE 32 < w
    <3>1. first = 16 + (w - 33) \div 8 /\ first \in 16 .. 19
      BY <1>1, <2>4 DEF Formulas!sizeClass
    <3> HIDE DEF first, f
    <3>2. Formulas!classWords(first) = 40 + 8 * (first - 16)
      <4>1. first \in Nat /\ ~ first < 8 /\ ~ (8 <= first /\ first < 12) /\ ~ (12 <= first /\ first < 16)
        BY <3>1
      <4> HIDE DEF fits
      <4> QED BY <4>1, Zenon DEF Formulas!classWords
    <3>3. Formulas!classWords(first - 1) = IF first = 16 THEN 32 ELSE 40 + 8 * (first - 17)
      BY <3>1 DEF Formulas!classWords
    <3> QED BY <1>1, <2>4, <3>1, <3>2, <3>3
  <2> QED BY <1>1, <2>1, <2>2, <2>3, <2>4
<1>5. Formulas!floorClass(w) = f
  <2>1. w # 0 /\ ~ w > Formulas!largeThresholdWords
    BY <1>1 DEF Formulas!largeThresholdWords
  <2> QED BY <2>1 DEF Formulas!floorClass
<1>6. f = CHOOSE c \in -1 .. first : fits(c)
  BY Zenon DEF Formulas!FirstThatFits
<1> HIDE DEF first, f
<1>7. \E c \in -1 .. first : fits(c)
  <2>1. CASE Formulas!classWords(first) = w
    <3>1. fits(first)
      BY <1>1, <1>3, <2>1
    <3> QED BY <1>3, <3>1
  <2>2. CASE first >= 1 /\ Formulas!classWords(first - 1) <= w /\ Formulas!classWords(first) > w
    <3>1. \A d \in (first - 1) + 1 .. first : d = first
      BY <1>3
    <3>2. fits(first - 1)
      BY <2>2, <3>1
    <3>3. first - 1 \in -1 .. first
      BY <1>3
    <3> QED BY <3>2, <3>3
  <2> QED BY <1>3, <2>1, <2>2
<1>8. f \in -1 .. first /\ fits(f)
  <2> HIDE DEF fits
  <2> QED BY <1>6, <1>7, Zenon
<1>9. f >= 0 /\ Formulas!classWords(f) <= w /\ w - Formulas!classWords(f) <= 7
  <2>1. CASE Formulas!classWords(first) = w
    <3>1. f = first
      <4>1. ~ (first \in f + 1 .. first)
        BY <1>1, <1>3, <1>8, <2>1
      <4> QED BY <1>3, <1>8, <4>1
    <3> QED BY <1>1, <1>3, <2>1, <3>1
  <2>2. CASE first >= 1 /\ Formulas!classWords(first - 1) <= w /\ Formulas!classWords(first) > w /\ w - Formulas!classWords(first - 1) <= 7
    <3>1. f # first
      BY <1>1, <1>3, <1>8, <2>2
    <3>2. ~ (first - 1 \in f + 1 .. first)
      <4>1. first - 1 >= 0
        BY <1>3, <2>2
      <4>2. Formulas!classWords(first - 1) \in Nat
        BY <1>3, <2>2
      <4> QED BY <1>1, <1>8, <2>2, <4>1, <4>2
    <3>3. f = first - 1
      BY <1>3, <1>8, <3>1, <3>2
    <3> QED BY <1>3, <2>2, <3>3
  <2> QED BY <1>3, <2>1, <2>2
<1> QED BY <1>1, <1>2, <1>5, <1>9 DEF Formulas!TailAtMostSeven

\* largeSizeClass puts a length above the threshold in the bucket whose range holds it.
LEMMA LargeRight ==
    ASSUME NEW w \in Nat, w > Formulas!largeThresholdWords, w <= Binary[30]
    PROVE  Formulas!LargeBucketRange(w)
<1> DEFINE n == w - 1
           k == Formulas!Len32(n)
<1>1. n \in Nat /\ 64 <= n /\ n < Binary[30]
  BY Powers, SMT DEF Formulas!largeThresholdWords
<1>2. k \in 7 .. 30 /\ Binary[k - 1] <= n /\ n < Binary[k]
  <2> HIDE DEF n
  <2> QED BY <1>1, Digits
<1> HIDE DEF k
<1>3. Binary[k] = 2^k /\ Binary[k - 1] = 2^(k - 1) /\ Binary[k] \in Nat /\ Binary[k - 1] \in Nat
  <2>1. k \in 0 .. 30 /\ k - 1 \in 0 .. 30
    BY <1>2
  <2>2. Binary[k] = 2^k /\ Binary[k - 1] = 2^(k - 1)
    BY <2>1 DEF Binary
  <2> QED BY <2>1, <2>2, PowersTyped
<1>4. Formulas!largeSizeClass(w) = k - 7
  BY <1>2 DEF Formulas!largeSizeClass, Formulas!numLargeClasses, k
<1>5. 6 + (k - 7) = k - 1 /\ 7 + (k - 7) = k /\ k - 7 >= 0
  BY <1>2
<1>6. Binary[k - 1] < w /\ w <= Binary[k]
  BY <1>2, <1>3
<1>7. 2^(6 + (k - 7)) < w /\ w <= 2^(7 + (k - 7))
  BY <1>3, <1>5, <1>6, Zenon
<1> QED BY <1>4, <1>5, <1>7 DEF Formulas!LargeBucketRange

\* sizeClass, floorClass and largeSizeClass agree with the table that Freelist takes, for
\* every length up to 2^30 words; an arena of 4 GiB has 2^29.
THEOREM FormulasAlwaysRight ==
    ASSUME NEW m \in Nat, m <= Binary[30]
    PROVE  Formulas!FormulasRight(m)
<1> SUFFICES ASSUME NEW w \in 1 .. m PROVE Formulas!TightestClass(w) /\ Formulas!TailAtMostSeven(w) /\ Formulas!LargeBucketRange(w)
  BY DEF Formulas!FormulasRight
<1>1. w \in Nat /\ w >= 1 /\ Formulas!largeThresholdWords \in Nat
  BY DEF Formulas!largeThresholdWords
<1>2. w <= Binary[30]
  <2>1. Binary[30] \in Nat
    BY Powers, SMT
  <2> QED BY <2>1
<1>3. CASE w <= Formulas!largeThresholdWords
  <2>1. w \in 1 .. Formulas!largeThresholdWords
    BY <1>1, <1>3
  <2> QED BY <1>1, <1>3, <2>1, SmallRight DEF Formulas!LargeBucketRange
<1>4. CASE w > Formulas!largeThresholdWords
  <2>1. Formulas!LargeBucketRange(w)
    BY <1>1, <1>2, <1>4, LargeRight
  <2> QED BY <1>1, <1>4, <2>1 DEF Formulas!TightestClass, Formulas!TailAtMostSeven
<1> QED BY <1>1, <1>3, <1>4

\* The bound that the runs check: the formulas agree with the table from the first state on.
THEOREM SizesAlwaysRight == Spec => []SizesRight
<1>1. 5000 \in Nat /\ 5000 <= Binary[30]
  BY Powers, SMT
<1>2. Formulas!FormulasRight(5000)
  BY <1>1, FormulasAlwaysRight
<1>3. SizesRight
  BY <1>2 DEF SizesRight
<1> QED BY <1>3, PTL

=============================================================================
