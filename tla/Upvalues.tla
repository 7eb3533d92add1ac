------------------------------- MODULE Upvalues -------------------------------
(***************************************************************************)
(* The upvalues of a thread (internal/crescent/table.go:39-128): a         *)
(* variable that a closure captured is a slot of the stack while it is     *)
(* open, and has a value of its own once it is closed.                     *)
(*                                                                         *)
(* The operators take the thread, any record with these fields:            *)
(*   stack           from slots to values                                  *)
(*   open, maxOpen   th.openUvs, from slots to upvalues, and th.maxOpenIdx *)
(*   uvs             upvalues by address: [open, idx, val]                 *)
(*   next            an address not handed out before                      *)
(***************************************************************************)
EXTENDS Ast, Functions

UpvalGet(v, u) == IF v.uvs[u].open THEN v.stack[v.uvs[u].idx] ELSE v.uvs[u].val
UpvalSet(v, u, val) ==
  IF v.uvs[u].open THEN [v EXCEPT !.stack[v.uvs[u].idx] = val]
                   ELSE [v EXCEPT !.uvs[u].val = val]

(* The tables of a thread, with one more entry.                            *)
With(f, x, y) == [z \in DOMAIN f \cup {x} |-> IF z = x THEN y ELSE f[z]]

Capture(v, i, maxOpen) ==
  [v EXCEPT !.uvs = With(@, v.next, [open |-> TRUE, idx |-> i, val |-> Nil]),
            !.maxOpen = maxOpen,
            !.open = With(@, i, v.next),
            !.next = @ + 1]

findOrCreateUpvalFirst(v, i) ==
  IF i \in DOMAIN v.open THEN v
  ELSE Capture(v, i, IF DOMAIN v.open = {} THEN i ELSE v.maxOpen)
findOrCreateUpval(v, i) ==
  IF i \in DOMAIN v.open THEN v
  ELSE Capture(v, i, IF DOMAIN v.open = {} \/ i > v.maxOpen THEN i ELSE v.maxOpen)

closeUpvals(v, level) ==
  LET left == {i \in DOMAIN v.open : i < level}
      closing == {v.open[i] : i \in DOMAIN v.open \ left}
  IN IF DOMAIN v.open = {} \/ level > v.maxOpen THEN v
     ELSE [v EXCEPT
             !.uvs = [u \in DOMAIN @ |->
                        IF u \in closing
                        THEN [open |-> FALSE, idx |-> 0, val |-> v.stack[@[u].idx]]
                        ELSE @[u]],
             !.open = Restrict(@, left),
             !.maxOpen = IF left = {} THEN 0 ELSE CHOOSE i \in left : \A j \in left : j <= i]

(* The two ways from slots to open upvalues and back are each other's      *)
(* inverses, so that no variable is captured twice; and maxOpenIdx is no   *)
(* lower than any open slot, so that closeUpvals misses none by returning  *)
(* early.                                                                  *)
UpvalsLinked(v) ==
  /\ \A u \in DOMAIN v.uvs :
       v.uvs[u].open => v.uvs[u].idx \in DOMAIN v.open /\ v.open[v.uvs[u].idx] = u
  /\ \A i \in DOMAIN v.open :
       /\ v.open[i] \in DOMAIN v.uvs
       /\ v.uvs[v.open[i]].open /\ v.uvs[v.open[i]].idx = i
       /\ i <= v.maxOpen
===============================================================================
