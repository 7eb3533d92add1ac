------------------------------- MODULE Chains -------------------------------
(***************************************************************************)
(* Chains and tables as the modules here represent them: a linked chain is *)
(* the sequence of its nodes, head first, and a Go map is a function whose *)
(* domain is the set of its keys.                                          *)
(***************************************************************************)
EXTENDS Integers, Sequences, Functions

Elems(s) == {s[i] : i \in DOMAIN s}

\* s without its element x.
Unlinked(s, x) ==
    LET at == CHOOSE i \in DOMAIN s : s[i] = x
    IN  [i \in 1 .. Len(s) - 1 |-> IF i < at THEN s[i] ELSE s[i + 1]]

Drop(f, x) == Restrict(f, DOMAIN f \ {x})
Bind(f, x, v) == [a \in DOMAIN f \cup {x} |-> IF a = x THEN v ELSE f[a]]
=============================================================================
