------------------------------- MODULE Bridge -------------------------------
(***************************************************************************)
(* When a function leaves the interpreter: the heat counters, the verdicts *)
(* and the one-way tier of internal/bridge.  One State has one Bridge and  *)
(* one goroutine runs it, so a decision is one step; Tiering calls the two *)
(* hooks, onEnter and onBackEdge, from calls and loops.                    *)
(*                                                                         *)
(* What a backend answers is fixed by the shape of the function and by     *)
(* whether the inline caches of its code are warm, which interpreted runs  *)
(* bring about and may undo.  A compilation succeeds, fails or panics; the *)
(* two last are one case here, as they are for the caller of tryCompile.   *)
(***************************************************************************)
EXTENDS Integers, FiniteSets

CONSTANTS Protos, Shapes,
          HotEntry, HotBackEdge,   \* HotEntryThreshold, HotBackEdgeThreshold
          RetryWindow,             \* 64
          MaxCount                 \* bound: a counter stops here, above every threshold

ASSUME ProtosAssumption == IsFiniteSet(Protos)
ASSUME ThresholdAssumption ==
    /\ MaxCount \in Nat /\ HotEntry \in 1 .. MaxCount /\ HotBackEdge \in 1 .. MaxCount - 1
    /\ RetryWindow \in 0 .. MaxCount

VARIABLES shape,    \* per function: short, structural, gated, exempt and declined
          native,   \* the backend is P4, not P3
          forceAll, tierOff,
          warm,     \* functions whose inline caches a gated backend accepts
          pd,       \* profileTable
          installed,\* gibbousCodes
          stuck     \* the three counters of TierStats

bridge == <<shape, native, forceAll, tierOff, warm, pd, installed, stuck>>
environment == <<shape, native, forceAll, tierOff, warm>>

Causes == {"notCompilable", "declined", "compileFailed"}
Profiles == [entries : 0 .. MaxCount, edges : 0 .. MaxCount, tier : {"interp", "gibbous", "stuck"},
             compilable : BOOLEAN, tried : BOOLEAN, recheckedAt : 0 .. MaxCount + 1,
             floorExempt : {"unasked", "yes", "no"}]

CountedFreely(n) == n + 1
Counted(n) == IF n < MaxCount THEN n + 1 ELSE n

Warm(p) == ~shape[p].gated \/ p \in warm
SupportsAllOpcodes(p) == Warm(p)
ExemptFromFloor(p) == native /\ shape[p].exempt /\ p \in warm

\* No function is compilable when it is loaded: without a backend at hand the
\* analysis burns the reason BackendUnsupp into every one of them.
NewProfile == [entries |-> 0, edges |-> 0, tier |-> "interp", compilable |-> FALSE, tried |-> FALSE,
               recheckedAt |-> 0, floorExempt |-> "unasked"]

BridgeInit ==
    /\ shape \in [Protos -> Shapes] /\ native \in BOOLEAN /\ forceAll \in BOOLEAN
    /\ tierOff = FALSE /\ warm = {}
    /\ pd = [p \in Protos |-> NewProfile]
    /\ installed = {} /\ stuck = [c \in Causes |-> 0]

SetTierEnabled(enabled) ==
    /\ tierOff = enabled /\ tierOff' = ~enabled
    /\ UNCHANGED <<shape, native, forceAll, warm, pd, installed, stuck>>

(***************************************************************************)
(* The verdicts.                                                           *)
(***************************************************************************)
\* flooredOut asks the backend once and remembers the answer.
FloorAsked(p, r) ==
    IF native /\ shape[p].short /\ r.floorExempt = "unasked"
    THEN [r EXCEPT !.floorExempt = IF ExemptFromFloor(p) THEN "yes" ELSE "no"] ELSE r
flooredOut(p, r) == shape[p].short /\ (~native \/ FloorAsked(p, r).floorExempt = "no")

recheckCompilabilityRuntime(p) == ~shape[p].structural /\ SupportsAllOpcodes(p)

needsAutoRecheck(p) == ~shape[p].structural
Rechecks(p, r) == ~r.compilable /\ (forceAll \/ needsAutoRecheck(p))
AskedOnce(p, r) == Rechecks(p, r) /\ r.recheckedAt # 0
AlreadyAsked(p, r) == Rechecks(p, r) /\ r.recheckedAt = r.entries + 1
Rechecked(p, r) ==
    IF Rechecks(p, r)
    THEN [r EXCEPT !.recheckedAt = r.entries + 1, !.compilable = recheckCompilabilityRuntime(p)] ELSE r

Declines(p) == ~forceAll /\ ~native /\ shape[p].declined

(***************************************************************************)
(* considerPromotion, with the profile r of the event that calls it.       *)
(***************************************************************************)
Keep(p, r) == pd' = [pd EXCEPT ![p] = r] /\ UNCHANGED <<installed, stuck>>

Absorb(p, r, cause) ==
    /\ pd' = [pd EXCEPT ![p] = [r EXCEPT !.tier = "stuck", !.tried = TRUE]]
    /\ stuck' = [stuck EXCEPT ![cause] = @ + 1]
    /\ UNCHANGED installed

FailHalfway(p, r) ==
    /\ pd' = [pd EXCEPT ![p] = [r EXCEPT !.tier = "stuck", !.tried = TRUE]]
    /\ stuck' = [stuck EXCEPT !["compileFailed"] = @ + 1]
    /\ installed' = installed \cup {p}
tryCompileFails(p, r) == Absorb(p, r, "compileFailed")

installGibbous(p, r) ==
    /\ pd' = [pd EXCEPT ![p] = [r EXCEPT !.tier = "gibbous", !.tried = TRUE]]
    /\ installed' = installed \cup {p}
    /\ UNCHANGED stuck

considerPromotion(p, r, onMain) ==
    LET q == Rechecked(p, r) IN
    IF ~onMain \/ AlreadyAsked(p, r) THEN Keep(p, r)
    ELSE IF ~q.compilable
         THEN IF forceAll /\ q.entries < RetryWindow THEN Keep(p, q) ELSE Absorb(p, q, "notCompilable")
    ELSE IF Declines(p) THEN Absorb(p, q, "declined")
    ELSE installGibbous(p, q) \/ tryCompileFails(p, q)

(***************************************************************************)
(* The hooks.                                                              *)
(***************************************************************************)
Counts(p) == ~tierOff /\ pd[p].tier = "interp"

Hot(n, threshold) == n >= threshold

Event(p, r, hot, onMain) ==
    /\ UNCHANGED environment
    /\ IF ~forceAll /\ ~hot THEN Keep(p, r)
       ELSE IF forceAll THEN considerPromotion(p, r, onMain)
       ELSE IF flooredOut(p, r) THEN Keep(p, FloorAsked(p, r))
       ELSE considerPromotion(p, FloorAsked(p, r), onMain)

onEnter(p, onMain) ==
    LET r == [pd[p] EXCEPT !.entries = Counted(@)] IN
    IF Counts(p) THEN Event(p, r, Hot(r.entries, HotEntry), onMain) ELSE UNCHANGED bridge

NotRearmed(r) == r
Rearmed(r) ==
    IF r.edges \in {1, HotBackEdge}
    THEN [r EXCEPT !.recheckedAt = 0, !.floorExempt = IF @ = "no" THEN "unasked" ELSE @] ELSE r

onBackEdge(p, onMain) ==
    LET r == Rearmed([pd[p] EXCEPT !.edges = Counted(@)]) IN
    IF Counts(p) THEN Event(p, r, Hot(r.edges, HotBackEdge), onMain) ELSE UNCHANGED bridge

CodeOfInstalled(p) == p \in installed
GibbousCodeOf(p) == ~tierOff /\ p \in installed

(***************************************************************************)
(* The interpreter running p warms its inline caches, or spoils them again *)
(***************************************************************************)
ObserveIC(p) ==
    /\ warm' = IF p \in warm THEN warm \ {p} ELSE warm \cup {p}
    /\ UNCHANGED <<shape, native, forceAll, tierOff, pd, installed, stuck>>
=============================================================================
