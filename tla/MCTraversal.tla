------------------------------ MODULE MCTraversal ------------------------------
(***************************************************************************)
(* Traversal over tables with an array part and colliding names.           *)
(***************************************************************************)
EXTENDS Traversal

CONSTANTS s1, s2, s3, u, o

MCName == {s1, s2, s3}
MCHash == [k \in Keys |-> CASE k = s1 -> 0 [] k = s2 -> 0 [] k = s3 -> 7 [] OTHER -> 0]
OneValueEach ==
    {<<k, v>> \in Keys \X Vals : v = IF k \in {s2, 1} THEN o ELSE u}
NewTables == {<<0, 0>>, <<0, 4>>, <<1, 0>>}
Shape == <<[table EXCEPT !.gen = 0], loop>>
=============================================================================
