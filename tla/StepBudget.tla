----------------------------- MODULE StepBudget -----------------------------
(***************************************************************************)
(* The step budget and the cancel hook (internal/crescent/state.go) over   *)
(* the two tiers of compiled code, which count their back edges and calls  *)
(* down in windows of fuel and settle with the budget once per window      *)
(* (gibbous_host.go for wasm, gibbous_host_p4.go and jitcontext.go for     *)
(* native code).  All wasm code counts in one word of its memory; every    *)
(* native function has a JITContext with counters of its own.  Pacing is   *)
(* part of it: a wasm back edge leaves the loop for a collection too.      *)
(*                                                                         *)
(* `stack` is the Go call stack: "host" is Go code of the embedding or of  *)
(* a host function, "interp" interpreted Lua, a counter is compiled Lua    *)
(* that runs on it; "gc" and "safepoint" are a collection that runs        *)
(* finalizers, the second one started by a wasm back edge that still has   *)
(* to settle.  A native segment calls others, of any function, without     *)
(* leaving its own context: depth.                                         *)
(*                                                                         *)
(* `owed` and `bulkOwed` are history: steps, by counter, and bytes of work *)
(* done for the present owner of the budget and not yet in stepUsed.  A    *)
(* step counts where it is done, at a decrement of fuel or at a preempt.   *)
(***************************************************************************)
EXTENDS Pacing, Sequences, SequencesExt

CONSTANTS Quantum,     \* loopFuelQuantum, SegCallFuelBudgeted
          Unlimited,   \* loopFuelUnlimited, SegCallFuelUnlimited
          FuelMod,     \* 2^32, the width of a native fuel counter
          BytesPerStep,\* 64
          Pieces,      \* sizes of one bulk operation
          Budgets,     \* what SetStepBudget is given
          Tiers,       \* of {"wasm", "native"}
          Contexts,    \* the JITContexts of native functions
          Callers,     \* those whose code calls others inside the segment
          FuelWord,    \* the word that all wasm loops count down
          ReplaceUnderWasm, \* may host code a wasm loop called replace the budget?
          Paced,       \* bound: the tiers in whose runs pacing changes outside collections
          MaxDepth, MaxSegDepth, MaxGen \* bounds

ASSUME WindowAssumption ==
    Quantum \in Nat \ {0} /\ Unlimited \in Nat /\ Unlimited > Quantum /\ FuelMod \in Nat /\ FuelMod > Unlimited
ASSUME BillAssumption ==
    /\ BytesPerStep \in Nat \ {0} /\ Pieces \subseteq Nat /\ Budgets \subseteq Nat
    /\ Tiers \subseteq {"wasm", "native"}
    /\ (Contexts \cup {FuelWord}) \cap {"host", "interp", "gc", "safepoint"} = {}

VARIABLES tier, stack,
          stepBudget, stepUsed, bulkRemainder, budgetGen,
          ctx,         \* the cancel hook: "none", "live" or "cancelled"
          window,      \* counter -> back edges: fuel left, last refill, generation it was cut for
          seg,         \* counter -> native calls: fuel left, last refill, calls open in the segment
          owed, bulkOwed   \* history

budget == <<stepBudget, stepUsed, bulkRemainder, budgetGen>>
history == <<owed, bulkOwed>>
vars == <<tier, stack, budget, ctx, window, seg, history, pacing>>

Here == stack[Len(stack)]
InGo == Here \in {"host", "gc", "safepoint"}
Native == tier = "native"
Counters == IF Native THEN Contexts ELSE {FuelWord}
InLoop == Here \in Counters
Armed == stepBudget > 0 \/ ctx # "none"

\* stepUsed past the budget stays past it: it sticks one step beyond.  Without a
\* budget nothing reads it before SetStepBudget clears it.
Charge(used, n) == IF stepBudget > 0 THEN Min({used + n, stepBudget + 1}) ELSE 0
Used(n) == Charge(stepUsed, n)
Owes(c, n) == IF stepBudget > 0 THEN owed[c] + n ELSE 0
Trips(used) == (stepBudget > 0 /\ used > stepBudget) \/ ctx = "cancelled"

\* An error passes Lua frames up to Go code; finalizer errors go no further.
RaiseFrom(s) ==
    \E k \in 1 .. Len(s) :
        /\ s[k] \in {"host", "gc", "safepoint"}
        /\ \A j \in k + 1 .. Len(s) : s[j] \notin {"gc", "safepoint"}
        /\ stack' = SubSeq(s, 1, k)
Raise == RaiseFrom(stack)

Init ==
    /\ PacingInit
    /\ tier \in Tiers /\ stack = <<"host">>
    /\ stepBudget = 0 /\ stepUsed = 0 /\ bulkRemainder = 0 /\ budgetGen = 0 /\ ctx = "none"
    /\ window = [c \in Counters |-> IF Native THEN [fuel |-> Quantum, refill |-> Unlimited, gen |-> 0]
                                             ELSE [fuel |-> 0, refill |-> 0, gen |-> 0]]
    /\ seg = [c \in Counters |-> [fuel |-> 0, refill |-> 0, depth |-> 0]]
    /\ owed = [c \in Counters |-> 0] /\ bulkOwed = 0

(***************************************************************************)
(* The host's two switches.                                                *)
(***************************************************************************)
SetStepBudget(n) ==
    /\ InGo /\ budgetGen < MaxGen
    /\ ReplaceUnderWasm \/ Native \/ \A i \in 1 .. Len(stack) : stack[i] # FuelWord
    /\ stepBudget' = n /\ stepUsed' = 0 /\ bulkRemainder' = 0
    /\ budgetGen' = budgetGen + 1
    /\ owed' = [c \in Counters |-> 0] /\ bulkOwed' = 0
    /\ UNCHANGED <<tier, stack, ctx, window, seg, pacing>>

\* From any goroutine; a cancelled context stays cancelled until it is replaced.
SetCancelHook(hook) ==
    /\ hook # ctx /\ (hook = "cancelled" => ctx = "live")
    /\ ctx' = hook
    /\ UNCHANGED <<tier, stack, budget, window, seg, history, pacing>>

(***************************************************************************)
(* Points where the interpreter and the library charge.                    *)
(***************************************************************************)
InterpBackEdge ==
    /\ Here = "interp"
    /\ stepUsed' = Used(1)
    /\ IF Trips(Used(1)) THEN Raise ELSE UNCHANGED stack
    /\ UNCHANGED <<tier, stepBudget, bulkRemainder, budgetGen, ctx, window, seg, history, pacing>>

ChargedSteps(bytes) == (bulkRemainder + bytes) \div BytesPerStep

\* Some callers ignore the error, so the stack may stay as it is.
chargeBulkWork(bytes) ==
    LET steps == ChargedSteps(bytes) IN
    /\ ~InLoop /\ stepBudget > 0
    /\ bulkRemainder' = (bulkRemainder + bytes) % BytesPerStep
    /\ stepUsed' = Used(steps)
    /\ bulkOwed' = bulkOwed + bytes - BytesPerStep * steps
    /\ IF Used(steps) > stepBudget THEN Raise ELSE UNCHANGED stack
    /\ UNCHANGED <<tier, stepBudget, budgetGen, ctx, window, seg, owed, pacing>>

(***************************************************************************)
(* Cutting windows.  A generation that differs says the budget changed     *)
(* hands: what was drained belongs to nobody any more.                     *)
(***************************************************************************)
Cut(n, gen) == [fuel |-> n, refill |-> n, gen |-> gen]
Size == IF Armed THEN Quantum ELSE Unlimited

RearmedPerHook(w) ==
    IF w.gen # budgetGen \/ w.refill \in {Quantum, Unlimited} THEN Cut(Size, budgetGen) ELSE w

\* enterGibbous on the way into a wasm loop
Rearmed(w) ==
    IF w.gen # budgetGen THEN Cut(Size, budgetGen)
    ELSE IF stepBudget = 0 /\ w.refill \in {Quantum, Unlimited} \ {Size} THEN Cut(Size, w.gen)
    ELSE w

FuelSpent(w) == IF w.refill = Quantum THEN Quantum - w.fuel ELSE 0


\* RefreshJitCtxAddrs, before a native segment is entered or entered again
Refilled(w) ==
    IF w.gen # budgetGen \/ Armed # (w.refill = Quantum) \/ (Armed /\ w.fuel = 0)
    THEN Cut(Size, budgetGen) ELSE w

Refresh(c, w, used, owes) ==
    LET own == Armed /\ w.gen = budgetGen
        calls == IF own THEN FuelSpent(seg[c]) ELSE 0
        stranded == own /\ w.refill = Quantum /\ w.fuel = 0
    IN  /\ window' = [window EXCEPT ![c] = Refilled(w)]
        /\ seg' = [seg EXCEPT ![c].fuel = Size, ![c].refill = Size]
        /\ stepUsed' = Charge(used, calls)
        /\ owed' = [owed EXCEPT ![c] =
                       IF stepBudget = 0 THEN 0 ELSE owes - calls - (IF stranded THEN Quantum ELSE 0)]

(***************************************************************************)
(* Calls and returns.                                                      *)
(***************************************************************************)
InSegment == InLoop /\ Native /\ seg[Here].depth > 0

\* enterLuaFrame; then enterGibbous or the Run of native code.
Enter(kind) ==
    /\ stack' = Append(stack, kind)
    /\ IF Native /\ kind \in Counters THEN Refresh(kind, window[kind], Used(1), owed[kind])
       ELSE /\ window' = IF kind \in Counters THEN [window EXCEPT ![kind] = Rearmed(@)] ELSE window
            /\ stepUsed' = Used(1)
            /\ UNCHANGED <<seg, owed>>

Call(kind) ==
    /\ ~InSegment /\ Len(stack) < MaxDepth
    /\ IF Trips(Used(1)) THEN Raise /\ stepUsed' = Used(1) /\ UNCHANGED <<window, seg, owed>>
       ELSE Enter(kind)
    /\ UNCHANGED <<tier, stepBudget, bulkRemainder, budgetGen, ctx, bulkOwed, pacing>>

\* Host functions are called without a charge.
CallHost ==
    /\ ~InGo /\ ~InSegment /\ Len(stack) < MaxDepth
    /\ stack' = Append(stack, "host")
    /\ UNCHANGED <<tier, budget, ctx, window, seg, history, pacing>>

\* What lies below goes on; the dispatcher refreshes before a native segment does.
GoOn ==
    LET below == stack[Len(stack) - 1] IN
    /\ stack' = Front(stack)
    /\ IF Native /\ below \in Counters THEN Refresh(below, window[below], stepUsed, owed[below])
       ELSE UNCHANGED <<window, seg, stepUsed, owed>>

Return ==
    /\ Len(stack) > 1 /\ Here \in {"host", "interp"} \cup Counters /\ ~InSegment
    /\ ~(Here = "host" /\ MaybeCollects)
    /\ GoOn
    /\ UNCHANGED <<tier, stepBudget, bulkRemainder, budgetGen, ctx, bulkOwed, pacing>>

(***************************************************************************)
(* Collections outside compiled loops.                                     *)
(***************************************************************************)
Allocate(nbytes) ==
    /\ tier \in Paced
    /\ AllocCharge(nbytes)
    /\ UNCHANGED <<tier, stack, budget, ctx, window, seg, history>>
CollectorSwitch ==
    /\ InGo /\ tier \in Paced
    /\ \E on \in BOOLEAN : SetStopped(on) \/ SetStressMode(on)
    /\ UNCHANGED <<tier, stack, budget, ctx, window, seg, history>>

\* collectgarbage, an API call's HostSafepoint, an allocating instruction
Collect ==
    /\ \/ InGo /\ Len(stack) < MaxDepth
       \/ Here = "interp" /\ MaybeCollects
    /\ BeginCollect
    /\ stack' = Append(stack, "gc")
    /\ UNCHANGED <<tier, budget, ctx, window, seg, history>>

\* afterHostCall: a host function that allocated returns through a collection.
ReturnCollecting ==
    /\ Len(stack) > 1 /\ Here = "host" /\ MaybeCollects
    /\ BeginCollect
    /\ stack' = [stack EXCEPT ![Len(stack)] = "gc"]
    /\ UNCHANGED <<tier, budget, ctx, window, seg, history>>

Collected ==
    /\ Here = "gc"
    /\ EndCollect
    /\ GoOn
    /\ UNCHANGED <<tier, stepBudget, bulkRemainder, budgetGen, ctx, bulkOwed>>

(***************************************************************************)
(* A wasm back edge: the word is counted down in the loop, and Safepoint   *)
(* collects, settles and looks at budget and hook.                         *)
(***************************************************************************)
Settle(s, fuel, owes) ==
    LET w == window[FuelWord]
        spent == IF w.refill > fuel THEN w.refill - fuel ELSE 0
    IN  /\ window' = [window EXCEPT ![FuelWord] = Cut(Size, w.gen)]
        /\ stepUsed' = IF Armed THEN Used(spent) ELSE stepUsed
        /\ owed' = [owed EXCEPT ![FuelWord] = IF stepBudget = 0 THEN 0 ELSE owes - spent]
        /\ IF Trips(Used(spent)) THEN RaiseFrom(s) ELSE stack' = s
        /\ UNCHANGED <<seg>>

\* The word is down by one step, which is owed.
CountedDown(c, fuel) ==
    /\ window' = [window EXCEPT ![c].fuel = fuel]
    /\ owed' = [owed EXCEPT ![c] = Owes(c, 1)]
    /\ UNCHANGED <<stepUsed, seg>>

WasmBackEdge ==
    /\ InLoop /\ ~Native
    /\ LET fuel == window[FuelWord].fuel - 1 IN
       \/ /\ fuel >= 1 /\ ~gcPending
          /\ CountedDown(FuelWord, fuel)
          /\ UNCHANGED <<stack, pacing>>
       \/ /\ fuel < 1 \/ gcPending
          /\ ~MaybeCollects
          /\ Settle(stack, fuel, Owes(FuelWord, 1))
          /\ UNCHANGED pacing
       \/ /\ fuel < 1 \/ gcPending
          /\ MaybeCollects /\ BeginCollect
          /\ stack' = Append(stack, "safepoint")
          /\ CountedDown(FuelWord, fuel)
    /\ UNCHANGED <<tier, stepBudget, bulkRemainder, budgetGen, ctx, bulkOwed>>

\* The finalizers are done; the word is read again, they may have run loops of their own.
SafepointCollected ==
    /\ Here = "safepoint"
    /\ EndCollect
    /\ Settle(Front(stack), window[FuelWord].fuel, owed[FuelWord])
    /\ UNCHANGED <<tier, stepBudget, bulkRemainder, budgetGen, ctx, bulkOwed>>

(***************************************************************************)
(* Native segments, on the counters of the context that was entered.       *)
(***************************************************************************)
\* A segment called by a segment cannot leave to Go: it gives up, and its outermost
\* call is made again from the host.
Redo(c, w, fuel, owes) ==
    /\ seg' = [seg EXCEPT ![c].fuel = fuel, ![c].depth = 0]
    /\ window' = [window EXCEPT ![c] = w]
    /\ stepUsed' = Used(1)
    /\ owed' = [owed EXCEPT ![c] = owes]
    /\ IF Trips(Used(1)) THEN Raise ELSE stack' = Append(stack, "interp")

LoopPreempt(c, w, owes) ==
    LET spent == IF Armed THEN FuelSpent(w) ELSE 0
        rest == IF stepBudget = 0 THEN 0 ELSE owes - spent
    IN  IF Trips(Used(spent))
        THEN /\ Raise /\ stepUsed' = Used(spent)
             /\ window' = [window EXCEPT ![c] = Cut(Size, w.gen)] /\ owed' = [owed EXCEPT ![c] = rest]
             /\ UNCHANGED <<seg>>
        ELSE Refresh(c, Cut(Size, w.gen), Used(spent), rest) /\ UNCHANGED stack

\* The segment's counters wrap; the Go loops that replay a segment stop at zero.
Down(fuel) == IF fuel = 0 THEN FuelMod - 1 ELSE fuel - 1
Ticked(c) == {Down(window[c].fuel)} \cup {n \in {0} : seg[c].depth = 0 /\ window[c].fuel <= 1}

NativeBackEdge ==
    /\ InLoop /\ Native
    /\ \E fuel \in Ticked(Here) :
        LET w == [window[Here] EXCEPT !.fuel = fuel]
        IN  \/ /\ fuel > 0
               /\ CountedDown(Here, fuel)
               /\ UNCHANGED stack
            \/ fuel = 0 /\ seg[Here].depth = 0 /\ LoopPreempt(Here, w, Owes(Here, 1))
            \/ fuel = 0 /\ seg[Here].depth > 0 /\ Redo(Here, w, seg[Here].fuel, Owes(Here, 1))
    /\ UNCHANGED <<tier, stepBudget, bulkRemainder, budgetGen, ctx, bulkOwed, pacing>>

UnderCap == Here \in Callers /\ seg[Here].depth < MaxSegDepth

SegCall ==
    /\ InLoop /\ Native /\ UnderCap
    /\ LET fuel == Down(seg[Here].fuel) IN
       \/ /\ fuel > 0
          /\ seg' = [seg EXCEPT ![Here].fuel = fuel, ![Here].depth = @ + 1]
          /\ owed' = [owed EXCEPT ![Here] = Owes(Here, 1)]
          /\ UNCHANGED <<stack, stepUsed, window>>
       \/ fuel = 0 /\ Redo(Here, window[Here], fuel, Owes(Here, 1))
    /\ UNCHANGED <<tier, stepBudget, bulkRemainder, budgetGen, ctx, bulkOwed, pacing>>

SegReturn ==
    /\ InSegment
    /\ seg' = [seg EXCEPT ![Here].depth = @ - 1]
    /\ UNCHANGED <<tier, stack, budget, ctx, window, owed, bulkOwed, pacing>>

\* A guard misses, or the depth cap is reached, in a called segment.
SegDeopt ==
    /\ InSegment
    /\ Redo(Here, window[Here], seg[Here].fuel, owed[Here])
    /\ UNCHANGED <<tier, stepBudget, bulkRemainder, budgetGen, ctx, bulkOwed, pacing>>

-----------------------------------------------------------------------------
BackEdge == InterpBackEdge \/ WasmBackEdge \/ NativeBackEdge
Host ==
    \/ \E n \in Budgets : SetStepBudget(n)
    \/ \E hook \in {"none", "live", "cancelled"} : SetCancelHook(hook)
    \/ CollectorSwitch
Program ==
    \/ \E bytes \in Pieces : chargeBulkWork(bytes)
    \/ \E kind \in {"interp"} \cup Counters : Call(kind)
    \/ CallHost \/ SegCall \/ SegReturn \/ SegDeopt
    \/ \E nbytes \in Pieces : Allocate(nbytes)
    \/ Collect
Comeback == Return \/ ReturnCollecting \/ Collected \/ SafepointCollected
Next == Host \/ Program \/ Comeback \/ BackEdge

Spec == Init /\ [][Next]_vars

\* A loop that runs on comes to its back edge again, a called segment and Go code come
\* back.  The interpreter, the emitted code and terminating host functions give no less.
FairSpec == Spec /\ SF_vars(BackEdge) /\ SF_vars(Comeback) /\ SF_vars(SegReturn)

Drained(w, gen) == IF gen = budgetGen THEN FuelSpent(w) ELSE 0

\* Every step and every byte done for the present owner of the budget is in stepUsed, in
\* a window that is still draining or in the remainder of bulk work, and nothing else is:
\* no work is billed to an owner it was not done for, none billed twice and none forgotten
\* (the comments on budgetGen and chargeBulkWork in state.go).  A stranded window
\* is taken off `owed` when it is dropped: the redo is taken to run its back edges again,
\* as the comment on the repair in RefreshJitCtxAddrs has it.
BillingAddsUp ==
    stepBudget > 0 =>
        /\ bulkOwed = bulkRemainder
        /\ \A c \in Counters :
             owed[c] = Drained(window[c], window[c].gen) + Drained(seg[c], window[c].gen)

\* The word compiled loops read always says whether a safepoint would collect, whoever
\* changed the pacing last, a finalizer in the middle of a collection included
\* (updateGCPending in internal/gc/collector.go).
PendingAgrees == gcPending = gcPendingNow

=============================================================================
