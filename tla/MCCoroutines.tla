---------------------------- MODULE MCCoroutines ----------------------------
(***************************************************************************)
(* Coroutines with small limits; thread objects are interchangeable.       *)
(***************************************************************************)
EXTENDS Coroutines, TLC

AnyRef == Permutations(Refs)
=============================================================================
