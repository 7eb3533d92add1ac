------------------------------- MODULE Traversal -------------------------------
(***************************************************************************)
(* A pairs loop over one table: the control variable is the key next()     *)
(* gave last, the body may assign to the fields that exist, or clear them, *)
(* and the collector may clear weak ones.  New fields are not added while  *)
(* a loop runs: the manual of Lua leaves that undefined.                   *)
(***************************************************************************)
EXTENDS TableNodes

CONSTANTS ClearsControl   \* may the field that is being visited be cleared?

ASSUME ClearsControlAssumption == ClearsControl \in BOOLEAN

VARIABLES control,        \* Nil before the first step
          looping,
          visited,        \* keys given so far
          repeated,       \* was one of them given twice?
          due             \* keys present since the loop began
loop == <<control, looping, visited, repeated, due>>

Present == {k \in Keys : rawGet(table, k) # Nil}

StartLoop ==
    /\ ~ looping
    /\ looping' = TRUE /\ control' = Nil /\ visited' = {} /\ due' = Present
    /\ UNCHANGED <<table, repeated>>

\* One TFORLOOP: it calls next(t, control) and stops on nil.
StepLoop ==
    /\ looping
    /\ LET k == rawNext(table, control)
       IN  /\ control' = k
           /\ looping' = (k \notin {Nil, InvalidKey})
           /\ visited' = IF looping' THEN visited \cup {k} ELSE visited
           /\ repeated' = (repeated \/ k \in visited)
    /\ UNCHANGED <<table, due>>

Break ==
    /\ looping
    /\ looping' = FALSE /\ control' = Nil /\ visited' = {} /\ due' = {}
    /\ UNCHANGED <<table, repeated>>

AssignExisting(k, v) ==
    /\ looping /\ control # Nil
    /\ rawGet(table, k) # Nil
    /\ v = Nil => ClearsControl \/ k # control
    /\ Set(k, v)
    /\ due' = IF v = Nil THEN due \ {k} ELSE due
    /\ UNCHANGED <<control, looping, visited, repeated>>

\* A collection in the middle of the loop (clearWeakTables).  The loop holds the
\* key it visits, and in `for k, v` its value, in registers: both are marked.
CollectInLoop(dead) ==
    /\ looping
    /\ ClearsControl \/ control \notin dead
    /\ ClearWeak(dead)
    /\ due' = due \ dead
    /\ UNCHANGED <<control, looping, visited, repeated>>

\* Outside the loop anything may happen to the table.
Between ==
    /\ ~ looping /\ Next
    /\ control' = Nil /\ visited' = {} /\ due' = {}
    /\ UNCHANGED <<looping, repeated>>

LoopInit == Init /\ control = Nil /\ looping = FALSE /\ visited = {} /\ repeated = FALSE /\ due = {}
LoopNext ==
    \/ StartLoop \/ StepLoop \/ Break \/ Between
    \/ \E s \in Stores \cup (Keys \X {Nil}) : AssignExisting(s[1], s[2])
    \/ \E dead \in SUBSET Keys \ {{}} : CollectInLoop(dead)
LoopSpec == LoopInit /\ [][LoopNext]_<<table, loop>>

----------------------------------------------------------------------------
(* Properties *)

\* A loop gives no key twice, although its body clears and assigns and the
\* collector clears too (so it also ends), and when it runs to its end it has
\* given every key that was there all along (rawNext).
VisitsEachKeyOnce ==
    /\ ~ repeated
    /\ ~ looping /\ control = Nil => due \subseteq visited

\* Clearing a field, "same as 5.1", does not disturb the loop that visits it.
TraversalSurvivesClearing == control # InvalidKey
=============================================================================
