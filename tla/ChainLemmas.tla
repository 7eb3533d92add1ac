---------------------------- MODULE ChainLemmas ----------------------------
(***************************************************************************)
(* Facts about naturals, chains and tables that the proofs share.          *)
(***************************************************************************)
EXTENDS Chains, WellFoundedInduction, SequenceTheorems, TLAPS

\* Every non-empty set of naturals has a least element.
LEMMA Least ==
    ASSUME NEW T \in SUBSET Nat, T # {}
    PROVE  \E x \in T : \A y \in T : x <= y
<1> DEFINE R == {ss \in Nat \X Nat : ss[1] < ss[2]}
<1>1. IsWellFoundedOn(R, Nat)
  BY NatLessThanWellFounded DEF OpToRel
<1>2. \E x \in T : \A y \in T : ~ (<<y, x>> \in R)
  <2> HIDE DEF R
  <2> QED BY <1>1, WFMin, Zenon
<1>3. \A x, y \in T : ~ (<<y, x>> \in R) => x <= y
  OBVIOUS
<1> QED BY <1>2, <1>3

\* The elements of a sequence are what its positions hold.
LEMMA ElemsOfSeq ==
    ASSUME NEW S, NEW s \in Seq(S)
    PROVE  /\ Elems(s) \subseteq S
           /\ \A x : x \in Elems(s) <=> \E i \in 1 .. Len(s) : s[i] = x
BY DEF Elems

\* Pushing a block on the head of a chain adds it, and keeps the chain free of repeats.
LEMMA ConsElems ==
    ASSUME NEW S, NEW s \in Seq(S), NEW x \in S
    PROVE  /\ <<x>> \o s \in Seq(S)
           /\ Elems(<<x>> \o s) = Elems(s) \cup {x}
           /\ IsInjective(s) /\ x \notin Elems(s) => IsInjective(<<x>> \o s)
<1> DEFINE t == <<x>> \o s
<1>1. t \in Seq(S) /\ Len(t) = Len(s) + 1 /\ t[1] = x
      /\ \A i \in 1 .. Len(s) : t[i + 1] = s[i]
  OBVIOUS
<1>2. \A i \in 1 .. Len(t) : i = 1 \/ (i - 1 \in 1 .. Len(s) /\ t[i] = s[i - 1])
  BY <1>1
<1>a. DOMAIN t = 1 .. Len(t) /\ DOMAIN s = 1 .. Len(s) /\ Len(s) \in Nat
  BY <1>1
<1> HIDE DEF t
<1>3. Elems(t) \subseteq Elems(s) \cup {x}
  BY <1>1, <1>2, <1>a DEF Elems
<1>4. Elems(s) \cup {x} \subseteq Elems(t)
  BY <1>1, <1>a DEF Elems
<1>5. ASSUME IsInjective(s), x \notin Elems(s) PROVE IsInjective(t)
  <2> SUFFICES ASSUME NEW i \in 1 .. Len(t), NEW j \in 1 .. Len(t), t[i] = t[j]
               PROVE  i = j
    BY <1>a DEF IsInjective
  <2>1. \A k \in 1 .. Len(s) : s[k] # x
    BY <1>5, <1>a DEF Elems
  <2>2. CASE i = 1 \/ j = 1
    BY <1>1, <1>2, <2>1, <2>2
  <2>3. CASE i # 1 /\ j # 1
    BY <1>1, <1>2, <1>5, <1>a, <2>3 DEF IsInjective
  <2> QED BY <2>2, <2>3
<1> QED BY <1>1, <1>3, <1>4, <1>5 DEF t

\* Popping the head of a chain takes it away, once and for all if nothing repeats.
LEMMA TailElems ==
    ASSUME NEW S, NEW s \in Seq(S), s # <<>>
    PROVE  /\ Head(s) \in Elems(s) /\ Tail(s) \in Seq(S)
           /\ Elems(Tail(s)) \subseteq Elems(s)
           /\ IsInjective(s) => Head(s) \notin Elems(Tail(s)) /\ IsInjective(Tail(s))
<1>1. /\ Tail(s) \in Seq(S) /\ Len(Tail(s)) = Len(s) - 1
      /\ \A i \in 1 .. Len(Tail(s)) : Tail(s)[i] = s[i + 1]
  BY HeadTailProperties
<1>2. Len(s) \in Nat \ {0} /\ Head(s) = s[1] /\ DOMAIN s = 1 .. Len(s)
      /\ DOMAIN Tail(s) = 1 .. Len(Tail(s))
  BY <1>1, EmptySeq
<1> QED BY <1>1, <1>2 DEF Elems, IsInjective

\* Taking one element out of a chain leaves the others.
LEMMA UnlinkedElems ==
    ASSUME NEW S, NEW s \in Seq(S), NEW x \in Elems(s), IsInjective(s)
    PROVE  /\ Unlinked(s, x) \in Seq(S)
           /\ IsInjective(Unlinked(s, x))
           /\ Elems(Unlinked(s, x)) = Elems(s) \ {x}
<1> DEFINE at == CHOOSE i \in DOMAIN s : s[i] = x
           n == Len(s) - 1
           u == [i \in 1 .. n |-> IF i < at THEN s[i] ELSE s[i + 1]]
<1>1. at \in 1 .. Len(s) /\ s[at] = x /\ n \in Nat /\ DOMAIN s = 1 .. Len(s)
  BY DEF Elems
<1>2. Unlinked(s, x) = u
  BY DEF Unlinked
<1> HIDE DEF at
<1>3. u \in Seq(S) /\ Len(u) = n /\ DOMAIN u = 1 .. n
  <2>1. \A i \in 1 .. n : u[i] \in S
    BY <1>1
  <2>2. u \in [1 .. n -> S]
    BY <2>1
  <2> QED BY <1>1, <2>2
<1>4. IsInjective(u)
  BY <1>1, <1>3 DEF IsInjective
<1>5. Elems(u) \subseteq Elems(s) \ {x}
  BY <1>1, <1>3 DEF IsInjective, Elems
<1>6. ASSUME NEW y \in Elems(s), y # x PROVE y \in Elems(u)
  <2>1. PICK j \in 1 .. Len(s) : s[j] = y
    BY <1>1 DEF Elems
  <2>2. CASE j < at
    <3>1. j \in 1 .. n /\ u[j] = y
      BY <1>1, <1>3, <2>1, <2>2
    <3> QED BY <3>1, <1>3 DEF Elems
  <2>3. CASE j > at
    <3>1. j - 1 \in 1 .. n /\ u[j - 1] = y
      BY <1>1, <1>3, <2>1, <2>3
    <3> QED BY <3>1, <1>3 DEF Elems
  <2> QED BY <1>1, <1>6, <2>1, <2>2, <2>3
<1> HIDE DEF u, n
<1> QED BY <1>2, <1>3, <1>4, <1>5, <1>6
=============================================================================
