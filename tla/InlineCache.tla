----------------------------- MODULE InlineCache -----------------------------
(***************************************************************************)
(* The inline cache of one table instruction, over the table it last saw   *)
(* (ic.go).  The interpreter compares table, generation and key before it  *)
(* trusts a slot.  Compiled code (the wasm and native tiers) bakes the     *)
(* slot of a constant key and compares table and generation only.  A table *)
(* is its address: the collector may free the table, and a new one may be  *)
(* allocated at the same place, at generation 0 again.                     *)
(***************************************************************************)
EXTENDS TableNodes

CONSTANTS MaxGen     \* bound: operations that pass this generation are not taken

ASSUME MaxGenAssumption == MaxGen \in Nat /\ MaxGen < GenSize

VARIABLE slot        \* the ICSlot, with the key of the access that filled it,
                     \* and whether the table it was filled from is dead

None == "ICKindNone"
ArrayHit == "ICKindArrayHit"
NodeHit == "ICKindNodeHit"
Slot(kind, key, shape, index) == 
    [kind |-> kind, key |-> key, shape |-> shape, index |-> index, orphan |-> FALSE]

Operate ==
    /\ Next
    /\ table'.gen <= MaxGen
    /\ UNCHANGED slot

\* SetTableMeta bumps: an __index may now answer for absent fields.
SetMeta ==
    /\ table' = BumpGen(table)
    /\ table'.gen <= MaxGen
    /\ UNCHANGED slot

\* A miss of icGetTable or icSetTable that found a value: rawGetWithLoc.
SlotFor(k) ==
    IF arrayIndex(table, k) THEN Slot(ArrayHit, k, table.gen, k)
    ELSE Slot(NodeHit, k, table.gen, Find(table, k))
Fill(k) ==
    /\ rawGet(table, k) # Nil
    /\ slot' = SlotFor(k)
    /\ UNCHANGED table

Recycle ==
    /\ \E s \in InitSizes : table' = AllocTable(s[1], s[2])
    /\ slot' = [slot EXCEPT !.orphan = TRUE]

CachedInit == Init /\ slot = Slot(None, Nil, 0, 0)
CachedNext == Operate \/ SetMeta \/ (\E k \in Keys : Fill(k)) \/ Recycle
CachedSpec == CachedInit /\ [][CachedNext]_<<table, slot>>

----------------------------------------------------------------------------
(* What a hit reads; reading outside the block gives whatever is there. *)

Stray == "stray"
Fresh == slot.shape = table.gen

\* Compiled code (emitTableGuard, emitSlotBase), for the constant key.
GenOnly ==
    IF ~ Fresh \/ slot.kind = None THEN Nil
    ELSE IF slot.kind = ArrayHit
         THEN IF slot.index <= asize(table) THEN table.array[slot.index] ELSE Stray
         ELSE IF slot.index \in DOMAIN table.node THEN table.node[slot.index].val ELSE Stray

\* The interpreter (icGetTable), for the key k of this access.  What lies beyond
\* the nodes of a smaller table at the same address is taken to be no key.
SameKeyNever(k) == TRUE
SameKey(k) ==
    IF slot.kind = ArrayHit THEN arrayIndex(table, k) /\ k = slot.index
    ELSE slot.index \in DOMAIN table.node /\ table.node[slot.index].key = k
Verified(k) == IF slot.kind # None /\ Fresh /\ SameKey(k) THEN GenOnly ELSE Nil

----------------------------------------------------------------------------
(* Properties *)

\* Gen alone is enough for a constant key of a table that lives: what compiled
\* code reads without looking at the key is the field of that key, or it takes
\* the slow path.  The table of globals always lives; of a table whose address
\* another took over this cannot be said, since generations start again at 0.
GenOnlyHitIsRight == ~ slot.orphan /\ GenOnly # Nil => GenOnly = rawGet(table, slot.key)

\* An interpreter hit, whatever key the instruction meets this time and whatever
\* table is now at the address, is the value a full lookup would have found.
VerifiedHitIsRight == \A k \in Keys : Verified(k) # Nil => Verified(k) = rawGet(table, k)
=============================================================================
