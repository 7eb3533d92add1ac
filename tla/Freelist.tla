------------------------------ MODULE Freelist ------------------------------
(***************************************************************************)
(* The allocator of internal/arena: a bump pointer over a growable slab, a *)
(* LIFO bucket of equal blocks per small size class, and power-of-two      *)
(* buckets of LARGE blocks that coalesce through an address index.         *)
(*                                                                         *)
(* Addresses and lengths are in 8-byte words.  Word 0 is the null          *)
(* reference (nullReserve), so bump starts at 1.  A bucket is the sequence *)
(* of its blocks from the head of its chain to the end: the intrusive next *)
(* and prev words are abstracted into that order.  A word of a block that  *)
(* is or was held may be non-zero: its holder stores at will.              *)
(***************************************************************************)
EXTENDS Integers, Sequences, FiniteSetsExt, Functions, Chains

CONSTANTS ClassWords,   \* representative length of each small class, increasing
          NumLarge,     \* numLargeClasses: how many LARGE buckets there are
          InitialCap,   \* Options.InitialBytes, in words
          MaxCap,       \* Options.MaxBytes, in words
          MinCap,       \* the 64 KiB floor of Compact, in words
          Requests,     \* lengths the object layer asks for
          Targets       \* targets the collector passes to Compact

Null == 0

Threshold == ClassWords[Len(ClassWords)]    \* largeThresholdWords

ASSUME GeometryAssumption ==
    /\ ClassWords \in Seq(Nat \ {0}) /\ ClassWords # <<>> /\ ClassWords[1] = 1
    /\ \A c, d \in 1 .. Len(ClassWords) : c < d => ClassWords[c] < ClassWords[d]
    /\ Threshold >= 2                   \* a LARGE block holds three link words
    /\ NumLarge \in Nat \ {0}

ASSUME CapacityAssumption ==
    /\ InitialCap \in Nat \ {0} /\ MaxCap \in Nat /\ MinCap \in Nat
    /\ InitialCap <= MaxCap             \* New panics otherwise
    /\ Requests \subseteq Nat /\ Targets \subseteq Nat

VARIABLES live,            \* blocks held by the object layer: start -> words asked for
          bump,            \* first word never handed out, or given back by freeLarge
          cap,             \* words in the current slab
          freeHeads,       \* small buckets, head first
          largeFreeHeads,  \* LARGE buckets, head first
          largeByStart,    \* free LARGE blocks: start -> words
          largeByEnd,      \* free LARGE blocks: first word after it -> start
          freeWords,       \* freeBytes / 8
          dirty,           \* words of the slab that may be non-zero
          unclean          \* those of them in the block last handed out

index == <<largeFreeHeads, largeByStart, largeByEnd>>
vars == <<live, bump, cap, freeHeads, index, freeWords, dirty, unclean>>

----------------------------------------------------------------------------
(* Size classes *)

Classes == 1 .. Len(ClassWords)
LargeClasses == 0 .. NumLarge - 1

\* The smallest class whose blocks hold w words (w <= Threshold).
IsSizeClass(c, w) ==
    /\ c \in Classes /\ w <= ClassWords[c]
    /\ \A d \in Classes : d < c => ClassWords[d] < w
sizeClass(w) == CHOOSE c \in Classes : IsSizeClass(c, w)

\* The largest class whose blocks fit in w words.
IsFloorClass(c, w) ==
    /\ c \in Classes /\ ClassWords[c] <= w
    /\ \A d \in Classes : c < d => w < ClassWords[d]

\* Bucket i holds the lengths in (Threshold * 2^i, Threshold * 2^(i+1)]; the
\* last one also holds everything longer.
largeSizeClass(w) ==
    CHOOSE c \in LargeClasses :
        /\ c = NumLarge - 1 \/ w <= Threshold * 2^(c + 1)
        /\ c = 0 \/ ~ (w <= Threshold * 2^c)

\* A zero-length request still takes one word.
Rounded(n) == IF n = 0 THEN 1 ELSE n

\* The words AllocBytes really sets aside for a request of n words.
BlockWords(n) == IF n <= Threshold THEN ClassWords[sizeClass(Rounded(n))] ELSE n

Span(start, words) == start .. start + words - 1

----------------------------------------------------------------------------
(* Buckets and the address index *)

\* The three index structures as one value, and the two operations on it.
Index == [heads |-> largeFreeHeads, byStart |-> largeByStart, byEnd |-> largeByEnd]

unlinkLargeKeepsEnd(ix, ref) ==
    [ix EXCEPT !.heads[largeSizeClass(ix.byStart[ref])] = Unlinked(@, ref),
               !.byStart = Drop(@, ref)]
unlinkLarge(ix, ref) ==
    LET words == ix.byStart[ref]
    IN  [heads   |-> [ix.heads EXCEPT ![largeSizeClass(words)] = Unlinked(@, ref)],
         byStart |-> Drop(ix.byStart, ref),
         byEnd   |-> Drop(ix.byEnd, ref + words)]

insertLarge(ix, ref, words) ==
    [heads   |-> [ix.heads EXCEPT ![largeSizeClass(words)] = <<ref>> \o @],
     byStart |-> Bind(ix.byStart, ref, words),
     byEnd   |-> Bind(ix.byEnd, ref + words, ref)]

SetIndex(ix) ==
    /\ largeFreeHeads' = ix.heads
    /\ largeByStart' = ix.byStart
    /\ largeByEnd' = ix.byEnd

----------------------------------------------------------------------------
(* AllocBytes *)

\* The block goes to its holder with the words of `filled` zeroed by the arena;
\* from then on its holder may have stored anywhere in it.
HandOutDirty(ref, n, filled) ==
    /\ live' = Bind(live, ref, n)
    /\ unclean' = dirty \cap Span(ref, BlockWords(n))
HandOut(ref, n, filled) ==
    /\ live' = Bind(live, ref, n)
    /\ unclean' = (dirty \ filled) \cap Span(ref, BlockWords(n))

\* popSizeClass hit: the head of the bucket, zero-filled.
AllocSmallFree(n) ==
    LET c == sizeClass(Rounded(n))
        ref == Head(freeHeads[c])
    IN  /\ n <= Threshold
        /\ freeHeads[c] # <<>>
        /\ freeHeads' = [freeHeads EXCEPT ![c] = Tail(@)]
        /\ freeWords' = freeWords - ClassWords[c]
        /\ HandOut(ref, n, Span(ref, ClassWords[c]))
        /\ UNCHANGED <<bump, cap, index, dirty>>

Fits(n, c) == {i \in DOMAIN largeFreeHeads[c] : largeByStart[largeFreeHeads[c][i]] >= n}

\* First fit: the lowest bucket from largeSizeClass(n) up with a block that is
\* long enough, and the first such block of its chain.
FirstFit(n, c, i) ==
    /\ c \in LargeClasses /\ largeSizeClass(n) <= c
    /\ i \in Fits(n, c)
    /\ \A j \in Fits(n, c) : i <= j
    /\ \A d \in LargeClasses : largeSizeClass(n) <= d /\ d < c => Fits(n, d) = {}

NoFit(n) == \A d \in LargeClasses : largeSizeClass(n) <= d => Fits(n, d) = {}

\* popLarge hit: unlink the block and hand back what n words leave of it, as a
\* LARGE block, as the largest small block that fits, or not at all.  The tail
\* of a remainder that no class fits exactly is dropped for good.
AllocLargeFree(n) ==
    /\ n > Threshold
    /\ \E c \in LargeClasses : \E i \in DOMAIN largeFreeHeads[c] :
        LET ref == largeFreeHeads[c][i]
            bw == largeByStart[ref]
            rem == bw - n
            popped == unlinkLarge(Index, ref)
        IN  /\ FirstFit(n, c, i)
            /\ HandOut(ref, n, Span(ref, n))
            /\ \/ /\ rem > Threshold
                  /\ SetIndex(insertLarge(popped, ref + n, rem))
                  /\ freeWords' = freeWords - bw + rem
                  /\ UNCHANGED freeHeads
               \/ /\ rem > 0 /\ rem <= Threshold
                  /\ SetIndex(popped)
                  /\ \E f \in Classes :
                       /\ IsFloorClass(f, rem)
                       /\ freeHeads' = [freeHeads EXCEPT ![f] = <<ref + n>> \o @]
                       /\ freeWords' = freeWords - bw + ClassWords[f]
               \/ /\ rem = 0
                  /\ SetIndex(popped)
                  /\ freeWords' = freeWords - bw
                  /\ UNCHANGED freeHeads
    /\ UNCHANGED <<bump, cap, dirty>>

\* grow64: double until need words fit, never beyond MaxCap.
Doublings == {cap * 2^k : k \in {i \in 0 .. 28 : 2^i <= MaxCap}}
GrownCaps(need) ==
    {c \in Doublings \cup {MaxCap} :
        /\ c \in need .. MaxCap
        /\ \A d \in Doublings : need <= d => c <= d}

\* Freelist miss: carve at bump.  Words above bump are taken as zero.  A request
\* that MaxCap cannot hold panics before anything is written: no step.
AllocBump(n) ==
    LET words == BlockWords(n)
    IN  /\ IF n <= Threshold
           THEN freeHeads[sizeClass(Rounded(n))] = <<>>
           ELSE NoFit(n)
        /\ bump + words <= MaxCap
        /\ IF bump + words > cap THEN cap' \in GrownCaps(bump + words) ELSE UNCHANGED cap
        /\ bump' = bump + words
        /\ HandOut(bump, n, {})
        /\ dirty' = dirty \cup Span(bump, words)
        /\ UNCHANGED <<freeHeads, index, freeWords>>

----------------------------------------------------------------------------
(* Free and Compact *)

\* A small block goes to the head of its bucket and is never split or merged.
FreeSmall(ref) ==
    LET c == sizeClass(Rounded(live[ref]))
    IN  /\ ref \in DOMAIN live /\ live[ref] <= Threshold
        /\ freeHeads' = [freeHeads EXCEPT ![c] = <<ref>> \o @]
        /\ freeWords' = freeWords + ClassWords[c]
        /\ live' = Drop(live, ref)
        /\ UNCHANGED <<bump, cap, index, dirty, unclean>>

\* The free LARGE block that ends where this one starts, and the one that starts
\* where it ends, if there are such blocks.
FreeBefore(start) == start \in DOMAIN largeByEnd
NeverAfter(stop) == FALSE
FreeAfter(stop) == stop \in DOMAIN largeByStart

\* The words cleared when bump retreats from e to s.
ClearedNone(s, e) == {}
Cleared(s, e) == Span(s, e - s)

\* freeLarge: merge with the free LARGE neighbours, then lower bump when the
\* merged block is the top one (its words are cleared), else insert it.
FreeLarge(ref) ==
    /\ ref \in DOMAIN live /\ live[ref] > Threshold
    /\ LET stop == ref + live[ref]
           before == FreeBefore(ref)
           after == FreeAfter(stop)
           s == IF before THEN largeByEnd[ref] ELSE ref
           e == IF after THEN stop + largeByStart[stop] ELSE stop
           ix1 == IF before THEN unlinkLarge(Index, s) ELSE Index
           ix2 == IF after THEN unlinkLarge(ix1, stop) ELSE ix1
           kept == freeWords - ((e - s) - live[ref])
       IN  IF e = bump
           THEN /\ SetIndex(ix2)
                /\ bump' = s
                /\ freeWords' = kept
                /\ dirty' = dirty \ Cleared(s, e)
           ELSE /\ SetIndex(insertLarge(ix2, s, e - s))
                /\ freeWords' = kept + (e - s)
                /\ UNCHANGED <<bump, dirty>>
    /\ live' = Drop(live, ref)
    /\ UNCHANGED <<cap, freeHeads, unclean>>

\* The sweep's slab swap: only the words below bump are copied, the rest of the
\* new slab is fresh.
Larger(a, b) == IF a >= b THEN a ELSE b
NewCapNoBump(target) == LET wanted == Larger(target, MinCap)
                        IN  IF wanted > MaxCap THEN MaxCap ELSE wanted
NewCap(target) == LET wanted == Larger(Larger(target, bump), MinCap)
                  IN  IF wanted > MaxCap THEN MaxCap ELSE wanted
Compact(target) ==
    LET newCap == NewCap(target)
    IN  /\ cap > 2 * newCap
        /\ cap' = newCap
        /\ dirty' = {a \in dirty : a < bump}
        /\ UNCHANGED <<live, bump, freeHeads, index, freeWords, unclean>>

----------------------------------------------------------------------------
Init ==
    /\ live = [a \in {} |-> 0]
    /\ bump = 1
    /\ cap = InitialCap
    /\ freeHeads = [c \in Classes |-> <<>>]
    /\ largeFreeHeads = [c \in LargeClasses |-> <<>>]
    /\ largeByStart = [a \in {} |-> 0]
    /\ largeByEnd = [a \in {} |-> 0]
    /\ freeWords = 0
    /\ dirty = {} /\ unclean = {}

AllocBytes(n) == AllocSmallFree(n) \/ AllocLargeFree(n) \/ AllocBump(n)
Free(ref) == FreeSmall(ref) \/ FreeLarge(ref)

Next == \/ \E n \in Requests : AllocBytes(n)
        \/ \E ref \in DOMAIN live : Free(ref)
        \/ \E t \in Targets : Compact(t)

Spec == Init /\ [][Next]_vars

----------------------------------------------------------------------------
(* Properties *)

Block(kind, start, words) == [kind |-> kind, start |-> start, words |-> words]
LiveBlocks == {Block("live", a, BlockWords(live[a])) : a \in DOMAIN live}
SmallFree == UNION {{Block("small", a, ClassWords[c]) : a \in Elems(freeHeads[c])} : c \in Classes}
LargeFree == {Block("large", a, largeByStart[a]) : a \in DOMAIN largeByStart}
FreeBlocks == SmallFree \cup LargeFree
Blocks == LiveBlocks \cup FreeBlocks

Apart(a, b) == a.start + a.words <= b.start \/ b.start + b.words <= a.start

\* Shapes of the variables; every address lies in the slab.
Words == 1 .. MaxCap
TypeOK ==
    /\ DOMAIN live \subseteq Words /\ live \in [DOMAIN live -> Requests]
    /\ bump \in Words /\ cap \in Words /\ bump <= cap
    /\ freeHeads \in [Classes -> Seq(Words)]
    /\ largeFreeHeads \in [LargeClasses -> Seq(Words)]
    /\ DOMAIN largeByStart \subseteq Words /\ largeByStart \in [DOMAIN largeByStart -> Words]
    /\ DOMAIN largeByEnd \subseteq Words /\ largeByEnd \in [DOMAIN largeByEnd -> Words]
    /\ freeWords \in Int
    /\ dirty \subseteq Words /\ unclean \subseteq dirty

\* No word belongs to two blocks, held or free, whatever was split, merged or
\* given back to bump; every block lies between the null word and bump.
NoOverlap ==
    /\ \A a, b \in Blocks : a = b \/ Apart(a, b)
    /\ \A a \in Blocks : 1 <= a.start /\ a.start + a.words <= bump
    /\ \A c \in Classes : IsInjective(freeHeads[c])

\* largeByStart, largeByEnd and the LARGE buckets describe the same blocks:
\* each block is in the bucket of its length, once, and both maps know it.
IndexOK(ix) ==
    /\ \A c \in LargeClasses :
         /\ IsInjective(ix.heads[c])
         /\ \A i \in DOMAIN ix.heads[c] :
              /\ ix.heads[c][i] \in DOMAIN ix.byStart
              /\ largeSizeClass(ix.byStart[ix.heads[c][i]]) = c
    /\ \A ref \in DOMAIN ix.byStart :
         /\ ix.byStart[ref] > Threshold
         /\ ref \in Elems(ix.heads[largeSizeClass(ix.byStart[ref])])
         /\ ref + ix.byStart[ref] \in DOMAIN ix.byEnd
         /\ ix.byEnd[ref + ix.byStart[ref]] = ref
    /\ \A e \in DOMAIN ix.byEnd :
         /\ ix.byEnd[e] \in DOMAIN ix.byStart
         /\ ix.byEnd[e] + ix.byStart[ix.byEnd[e]] = e
IndexAgrees == IndexOK(Index)

\* The words of a set of blocks.
Area(B) == UNION {Span(b.start, b.words) : b \in B}

\* freeBytes counts the words of the blocks on all chains.
FreeBytesAgrees == freeWords = Cardinality(Area(FreeBlocks))

\* Coalescing leaves no work undone: no free LARGE block starts where another
\* one ends, and none ends at bump.  popLarge relies on it for its remainder.
Coalesced ==
    \A a \in DOMAIN largeByStart :
        a + largeByStart[a] \notin DOMAIN largeByStart \cup {bump}

\* AllocBytes takes words above bump without zero-filling them, although a
\* freed top block, a link word or a slab swap may have left values there.
ZeroAboveBump == \A a \in dirty : a < bump

\* Of the words below bump, the ones in no block come from remainders whose tail
\* fits no class: never a whole class gap of them in a row.
Lost == (1 .. bump - 1) \ Area(Blocks)
ClassGap == Max({ClassWords[c + 1] - ClassWords[c] : c \in 1 .. Len(ClassWords) - 1} \cup {1})
TailsAreShort == \A a \in Lost : ~ (Span(a, ClassGap) \subseteq Lost)

\* Free space is neither lost nor counted wrong, after any history of splits,
\* merges and retreats of bump.
FreeSpaceKept == FreeBytesAgrees /\ Coalesced /\ TailsAreShort

\* The formulas behind the code's own table of classes.
Formulas == INSTANCE SizeClass

\* The tightest class, short tails and the right bucket, up to 5000 words
\* (sizeClass, floorClass, largeSizeClass); evaluated while the arena is empty.
SizesRight == bump = 1 => Formulas!FormulasRight(5000)

\* The promise to the layers above.
Promise == INSTANCE BlockStore
    WITH Addr <- Words,
         Sizes <- {BlockWords(n) : n \in Requests},
         held <- {[start |-> a, words |-> BlockWords(live[a])] : a \in DOMAIN live},
         nonzero <- unclean

KeepsPromise == Promise!Spec
=============================================================================
