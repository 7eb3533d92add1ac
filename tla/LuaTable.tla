------------------------------- MODULE LuaTable -------------------------------
(***************************************************************************)
(* What a Lua table promises, whatever its layout: a value for every key,  *)
(* Nil for the absent ones, changed one key at a time.  The collector may  *)
(* take away, from a weak table, fields whose value it can collect.        *)
(***************************************************************************)
CONSTANTS Keys, Vals, Collectable, Nil

VARIABLE fields

Absent == [k \in Keys |-> Nil]

SetField(k, v) == fields' = [fields EXCEPT ![k] = v]

Lose(S) ==
    /\ \A k \in S : fields[k] \in Collectable
    /\ fields' = [k \in Keys |-> IF k \in S THEN Nil ELSE fields[k]]

Next ==
    \/ \E k \in Keys, v \in Vals \cup {Nil} : SetField(k, v)
    \/ \E S \in SUBSET Keys : Lose(S)

Spec == fields = Absent /\ [][Next]_fields
=============================================================================
