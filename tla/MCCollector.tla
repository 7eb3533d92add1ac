----------------------------- MODULE MCCollector -----------------------------
(***************************************************************************)
(* Collector on heaps of two or three addresses.  No property or action   *)
(* tells addresses apart, so they are symmetric.                           *)
(***************************************************************************)
EXTENDS Collector, TLC

\* Two strings share a bucket until there are four; the third makes the table grow.
Hashes == [hello |-> 0, world |-> 1, again |-> 2]
StringHash == [c \in Contents |-> Hashes[c]]

AddrSymmetry == Permutations(Addr)
=============================================================================
