--------------------------- MODULE ControlTransfer ---------------------------
(***************************************************************************)
(* What coroutines promise, however resume and yield are carried out: one  *)
(* chain of coroutines in use, each waiting for the next, the last one     *)
(* running.  Only the last one leaves the chain, and it leaves to the one  *)
(* that resumed it; a coroutine on the chain is never collected.           *)
(***************************************************************************)
EXTENDS Naturals, Sequences

CONSTANT Ids

VARIABLES chain,       \* coroutines in use, the running one last
          suspended,   \* coroutines that may be resumed
          dead

vars == <<chain, suspended, dead>>

InUse == {chain[i] : i \in DOMAIN chain}
Current == chain[Len(chain)]
Left == SubSeq(chain, 1, Len(chain) - 1)

Init == chain = <<>> /\ suspended = {} /\ dead = {}

Create(c) ==
    /\ c \notin InUse \cup suspended \cup dead
    /\ suspended' = suspended \cup {c}
    /\ UNCHANGED <<chain, dead>>

Enter(c) ==
    /\ c \in suspended
    /\ chain' = Append(chain, c)
    /\ suspended' = suspended \ {c}
    /\ UNCHANGED dead

Suspend ==
    /\ chain # <<>>
    /\ chain' = Left
    /\ suspended' = suspended \cup {Current}
    /\ UNCHANGED dead

Die ==
    /\ chain # <<>>
    /\ chain' = Left
    /\ dead' = dead \cup {Current}
    /\ UNCHANGED suspended

\* A coroutine refused its first resume never runs.
Refuse(c) ==
    /\ c \in suspended
    /\ suspended' = suspended \ {c}
    /\ dead' = dead \cup {c}
    /\ UNCHANGED chain

Collected(S) ==
    /\ suspended' = suspended \ S
    /\ dead' = dead \ S
    /\ UNCHANGED chain

Next ==
    \/ \E c \in Ids : Create(c) \/ Enter(c) \/ Refuse(c)
    \/ Suspend
    \/ Die
    \/ \E S \in SUBSET Ids : Collected(S)

Spec == Init /\ [][Next]_vars
=============================================================================
