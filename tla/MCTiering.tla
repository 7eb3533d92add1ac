----------------------------- MODULE MCTiering ------------------------------
(***************************************************************************)
(* Tiering for TLC: functions of the shapes that decisions tell apart.     *)
(***************************************************************************)
EXTENDS Tiering

Of(short, structural, gated, exempt, declined) ==
    [short |-> short, structural |-> structural, gated |-> gated, exempt |-> exempt, declined |-> declined]

MCShapes ==
    {Of(FALSE, FALSE, TRUE, FALSE, FALSE), \* accepted when its caches are warm
     Of(FALSE, FALSE, FALSE, FALSE, TRUE), \* declined by P3
     Of(FALSE, TRUE, FALSE, FALSE, FALSE), \* excluded by its structure
     Of(TRUE, FALSE, FALSE, TRUE, FALSE)}  \* short, exempt when its caches are warm
=============================================================================
