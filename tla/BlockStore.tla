----------------------------- MODULE BlockStore -----------------------------
(***************************************************************************)
(* What the arena promises to the collector and to the object layer: a     *)
(* block handed out overlaps no block still held, and reads as zero.       *)
(* Nothing is said of freelists, buckets or of where a block is placed;    *)
(* module Freelist is how internal/arena keeps the promise.                *)
(***************************************************************************)
EXTENDS Integers

CONSTANTS Addr,       \* word addresses a block may start at
          Sizes       \* block lengths, in words

VARIABLES held,       \* blocks held by the object layer: [start, words]
          nonzero     \* words of the block last handed out that were not zero

vars == <<held, nonzero>>

Disjoint(a, b) == \/ a.start + a.words <= b.start
                  \/ b.start + b.words <= a.start

Init == held = {} /\ nonzero = {}

\* AllocBytes hands out a block that is disjoint from every held block and zero.
Acquire(b) ==
    /\ \A h \in held : Disjoint(b, h)
    /\ held' = held \cup {b}
    /\ nonzero' = {}

\* Free returns a held block.
Release(b) ==
    /\ b \in held
    /\ held' = held \ {b}
    /\ UNCHANGED nonzero

Next == \E b \in [start : Addr, words : Sizes] : Acquire(b) \/ Release(b)

Spec == Init /\ [][Next]_vars
=============================================================================
