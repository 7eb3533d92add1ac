-------------------------- MODULE StepBudgetProofs --------------------------
(***************************************************************************)
(* Proofs about StepBudget for every size of a window, every budget and    *)
(* every depth of calls: what is done for the owner of the budget is       *)
(* billed to that owner, once, and the word compiled loops read agrees     *)
(* with the collector's pacing.                                            *)
(***************************************************************************)
EXTENDS StepBudget, SequenceTheorems, TLAPS

Kinds == {"host", "interp", "gc", "safepoint", FuelWord} \cup Contexts
Wasm == tier = "wasm"

Windows == [fuel : Int, refill : Int, gen : Int]
Segments == [fuel : Int, refill : Int, depth : Int]

\* What a step leaves of a window and of a segment.
Left(w, n) == [w EXCEPT !.fuel = n]
LeftOpen(s, n, d) == [s EXCEPT !.fuel = n, !.depth = d]
Topped(s, n) == [s EXCEPT !.fuel = n, !.refill = n]

\* What the arithmetic of the bill needs to know of the types.
BillTyped ==
    /\ tier \in {"wasm", "native"}
    /\ stepBudget \in Nat /\ budgetGen \in Nat
    /\ bulkRemainder \in Nat /\ owed \in [Counters -> Int]
    /\ window \in [Counters -> Windows] /\ seg \in [Counters -> Segments]
    /\ \A c \in Counters :
         /\ window[c].gen <= budgetGen
         /\ Native => window[c].fuel >= 0 /\ seg[c].fuel >= 0

\* The Go stack: a host call at the bottom, and below a safepoint the wasm loop
\* that started it.
StackGood ==
    /\ stack \in Seq(Kinds) /\ Len(stack) >= 1 /\ stack[1] = "host"
    /\ \A i \in 2 .. Len(stack) : stack[i] = "safepoint" => Wasm /\ stack[i - 1] = FuelWord

HasLoop(s) == \E i \in DOMAIN s : s[i] = FuelWord

\* A window cut for the present owner of a budget is one that settles, and what
\* it drained is owed.
CounterGood(c) ==
    stepBudget > 0 =>
        /\ window[c].gen = budgetGen => window[c].refill = Quantum
        /\ owed[c] = Drained(window[c], window[c].gen) + Drained(seg[c], window[c].gen)

\* While a wasm loop is on the stack nobody replaces the budget, so that the
\* window is the owner's however deep the loop is buried; the word may pass zero
\* (a finalizer's loop finds it there) and never passes its refill.
WasmOwned ==
    Wasm => /\ seg[FuelWord].refill = 0 /\ window[FuelWord].fuel <= window[FuelWord].refill
            /\ stepBudget > 0 /\ HasLoop(stack) => window[FuelWord].gen = budgetGen

\* Native code runs on windows that RefreshJitCtxAddrs cut for the owner and that
\* are not empty, so that their counters do not wrap; those of other contexts may
\* be anybody's.
NativeOwned ==
    Native /\ InLoop /\ stepBudget > 0 =>
        /\ window[Here].gen = budgetGen /\ window[Here].fuel > 0
        /\ seg[Here].fuel > 0 /\ seg[Here].refill = Quantum

BulkAddsUp == bulkOwed = bulkRemainder
CountersGood == \A c \in Counters : CounterGood(c)

Bill == BillTyped /\ StackGood /\ CountersGood /\ WasmOwned /\ NativeOwned /\ BulkAddsUp

-----------------------------------------------------------------------------
(***************************************************************************)
(* The stack.                                                              *)
(***************************************************************************)
\* Go code and interpreted Lua run on no counter.
LEMMA NoCounter ==
    /\ \A kind \in {"host", "interp", "gc", "safepoint"} : kind \notin Counters /\ kind # FuelWord
    /\ Wasm => Counters = {FuelWord}
    /\ Native => Counters = Contexts
    /\ Counters \subseteq Kinds
BY BillAssumption DEF Counters, Wasm, Native, Kinds

LEMMA PrefixGood ==
    ASSUME StackGood, tier' = tier, NEW k \in 1 .. Len(stack), stack' = SubSeq(stack, 1, k)
    PROVE  StackGood' /\ Here' = stack[k] /\ (HasLoop(stack') => HasLoop(stack))
<1>1. Len(stack) \in Nat /\ stack \in Seq(Kinds)
  BY DEF StackGood
<1>2. /\ stack' \in Seq(Kinds) /\ Len(stack') = k /\ DOMAIN stack' = 1 .. k
      /\ \A i \in 1 .. k : stack'[i] = stack[i] /\ i \in DOMAIN stack
  BY <1>1, SubSeqProperties
<1>3. QED
  BY <1>1, <1>2 DEF StackGood, Wasm, Here, HasLoop

LEMMA FrontPrefix ==
    ASSUME StackGood, Len(stack) > 1
    PROVE  /\ Front(stack) = SubSeq(stack, 1, Len(stack) - 1) /\ Len(stack) - 1 \in 1 .. Len(stack)
           /\ Front(stack) \in Seq(Kinds) /\ Len(Front(stack)) = Len(stack) - 1
           /\ \A k \in 1 .. Len(stack) - 1 :
                Front(stack)[k] = stack[k] /\ SubSeq(Front(stack), 1, k) = SubSeq(stack, 1, k)
<1>1. Len(stack) \in Nat /\ stack \in Seq(Kinds)
  BY DEF StackGood
<1>2. Front(stack) = SubSeq(stack, 1, Len(stack) - 1)
  BY DEF Front
<1>3. /\ Front(stack) \in Seq(Kinds) /\ Len(Front(stack)) = Len(stack) - 1
      /\ \A k \in 1 .. Len(stack) - 1 : Front(stack)[k] = stack[k]
  BY <1>1, <1>2, SubSeqProperties
<1>4. ASSUME NEW k \in 1 .. Len(stack) - 1 PROVE SubSeq(Front(stack), 1, k) = SubSeq(stack, 1, k)
  <2> DEFINE a == SubSeq(Front(stack), 1, k)
             b == SubSeq(stack, 1, k)
  <2>1. /\ a \in Seq(Kinds) /\ Len(a) = k /\ \A i \in 1 .. k : a[i] = Front(stack)[i]
        /\ b \in Seq(Kinds) /\ Len(b) = k /\ \A i \in 1 .. k : b[i] = stack[i]
    BY <1>1, <1>3, SubSeqProperties
  <2>2. \A i \in 1 .. k : a[i] = b[i]
    BY <1>1, <1>3, <2>1
  <2> HIDE DEF a, b
  <2>3. QED
    BY <2>1, <2>2, SeqEqual DEF a, b
<1>5. QED
  BY <1>1, <1>2, <1>3, <1>4

\* An error ends in Go code below.
LEMMA RaiseGood ==
    ASSUME StackGood, tier' = tier, NEW s, s = stack \/ (Len(stack) > 1 /\ s = Front(stack)), RaiseFrom(s)
    PROVE  StackGood' /\ ~InLoop' /\ (HasLoop(stack') => HasLoop(stack))
<1>1. PICK k \in 1 .. Len(s) : s[k] \in {"host", "gc", "safepoint"} /\ stack' = SubSeq(s, 1, k)
  BY DEF RaiseFrom
<1>2. k \in 1 .. Len(stack) /\ s[k] = stack[k] /\ stack' = SubSeq(stack, 1, k)
  BY <1>1, FrontPrefix DEF StackGood
<1>3. QED
  BY <1>1, <1>2, PrefixGood, NoCounter DEF InLoop, Counters, Native

LEMMA AppendGood ==
    ASSUME StackGood, tier' = tier, NEW kind \in Kinds, kind = "safepoint" => Wasm /\ Here = FuelWord,
           stack' = Append(stack, kind)
    PROVE  StackGood' /\ Here' = kind /\ (HasLoop(stack') /\ kind # FuelWord => HasLoop(stack))
<1>1. Len(stack) \in Nat /\ stack \in Seq(Kinds)
  BY DEF StackGood
<1>2. /\ stack' \in Seq(Kinds) /\ Len(stack') = Len(stack) + 1 /\ DOMAIN stack' = 1 .. Len(stack) + 1
      /\ \A i \in 1 .. Len(stack) : stack'[i] = stack[i] /\ i \in DOMAIN stack
      /\ stack'[Len(stack) + 1] = kind
  BY <1>1
<1>3. \A i \in 2 .. Len(stack') : stack'[i] = "safepoint" => Wasm' /\ stack'[i - 1] = FuelWord
  BY <1>1, <1>2 DEF StackGood, Wasm, Here
<1>4. QED
  BY <1>1, <1>2, <1>3 DEF StackGood, Here, HasLoop

-----------------------------------------------------------------------------
(***************************************************************************)
(* The bill, by what a step does to the counters.                          *)
(***************************************************************************)
\* A step that leaves the counters alone, but for the depth of a segment.
LEMMA BillStays ==
    ASSUME Bill, UNCHANGED <<tier, stepBudget, budgetGen, window, owed>>, StackGood',
           seg' \in [Counters -> Segments],
           \A c \in Counters : seg'[c].fuel = seg[c].fuel /\ seg'[c].refill = seg[c].refill,
           bulkRemainder' \in Nat, BulkAddsUp',
           Wasm /\ HasLoop(stack') => HasLoop(stack),
           Native /\ InLoop' => InLoop /\ Here' = Here
    PROVE  Bill'
<1>1. Counters' = Counters /\ Native' = Native /\ Wasm' = Wasm
  BY DEF Counters, Native, Wasm
<1>2. BillTyped'
  BY <1>1 DEF Bill, BillTyped
<1>3. CountersGood'
  BY <1>1 DEF Bill, CountersGood, CounterGood, Drained, FuelSpent
<1>4. WasmOwned'
  <2>1. Wasm => FuelWord \in Counters
    BY NoCounter
  <2>2. QED
    BY <1>1, <2>1 DEF Bill, WasmOwned
<1>5. NativeOwned'
  BY <1>1 DEF Bill, NativeOwned, InLoop
<1>6. QED
  BY <1>2, <1>3, <1>4, <1>5 DEF Bill

\* Work done under a budget that nothing but the stack and the library's charges see.
LEMMA Untouched ==
    ASSUME Bill, UNCHANGED <<tier, stepBudget, budgetGen, window, seg, owed, bulkRemainder, bulkOwed>>, StackGood',
           Wasm /\ HasLoop(stack') => HasLoop(stack),
           Native /\ InLoop' => InLoop /\ Here' = Here
    PROVE  Bill'
BY BillStays DEF Bill, BillTyped, BulkAddsUp

\* A step on one counter, of which the others know nothing.
LEMMA CounterBills ==
    ASSUME Bill, NEW c \in Counters, NEW w \in Windows, NEW s \in Segments, NEW owes \in Int,
           window' = [window EXCEPT ![c] = w], seg' = [seg EXCEPT ![c] = s], owed' = [owed EXCEPT ![c] = owes],
           UNCHANGED <<tier, stepBudget, budgetGen, bulkRemainder, bulkOwed>>, StackGood',
           w.gen <= budgetGen, Native => w.fuel >= 0 /\ s.fuel >= 0,
           stepBudget > 0 =>
               /\ w.gen = budgetGen => w.refill = Quantum
               /\ owes = Drained(w, w.gen) + Drained(s, w.gen),
           Wasm => /\ s.refill = 0 /\ w.fuel <= w.refill
                   /\ stepBudget > 0 /\ HasLoop(stack') => w.gen = budgetGen,
           Native /\ InLoop' /\ stepBudget > 0 =>
               Here' = c /\ w.gen = budgetGen /\ w.fuel > 0 /\ s.fuel > 0 /\ s.refill = Quantum
    PROVE  Bill'
<1>1. Counters' = Counters /\ Native' = Native /\ Wasm' = Wasm
  BY DEF Counters, Native, Wasm
<1>2. window \in [Counters -> Windows] /\ seg \in [Counters -> Segments] /\ owed \in [Counters -> Int]
  BY DEF Bill, BillTyped
<1>3. /\ window' \in [Counters -> Windows] /\ window'[c] = w
      /\ seg' \in [Counters -> Segments] /\ seg'[c] = s
      /\ owed' \in [Counters -> Int] /\ owed'[c] = owes
      /\ \A d \in Counters : d # c => window'[d] = window[d] /\ seg'[d] = seg[d] /\ owed'[d] = owed[d]
  BY <1>2
<1>4. BillTyped'
  BY <1>1, <1>3 DEF Bill, BillTyped
<1>5. ASSUME NEW d \in Counters PROVE CounterGood(d)'
  <2>1. CASE d = c
    BY <1>3, <2>1 DEF CounterGood, Drained
  <2>2. CASE d # c
    BY <1>3, <2>2 DEF Bill, CountersGood, CounterGood, Drained
  <2>3. QED
    BY <2>1, <2>2
<1>6. WasmOwned'
  BY <1>1, <1>3, NoCounter DEF WasmOwned
<1>7. NativeOwned'
  BY <1>1, <1>3 DEF NativeOwned
<1>8. QED
  BY <1>1, <1>4, <1>5, <1>6, <1>7 DEF Bill, CountersGood, BulkAddsUp

LEMMA LeftTyped ==
    ASSUME NEW w \in Windows, NEW n \in Int
    PROVE  Left(w, n) \in Windows /\ Left(w, n).fuel = n /\ Left(w, n).refill = w.refill /\ Left(w, n).gen = w.gen
BY DEF Windows, Left

LEMMA LeftOpenTyped ==
    ASSUME NEW s \in Segments, NEW n \in Int, NEW d \in Int
    PROVE  /\ LeftOpen(s, n, d) \in Segments
           /\ LeftOpen(s, n, d).fuel = n /\ LeftOpen(s, n, d).refill = s.refill
BY DEF Segments, LeftOpen

LEMMA ToppedTyped ==
    ASSUME NEW s \in Segments, NEW n \in Int
    PROVE  Topped(s, n) \in Segments /\ Topped(s, n).fuel = n /\ Topped(s, n).refill = n
BY DEF Segments, Topped

LEMMA CutTyped ==
    ASSUME BillTyped
    PROVE  /\ Size \in {Quantum, Unlimited} /\ Quantum \in Nat \ {0} /\ Unlimited \in Nat \ {0}
           /\ stepBudget > 0 => Armed /\ Size = Quantum
           /\ \A gen \in Int : /\ Cut(Size, gen) \in Windows /\ Cut(Size, gen).gen = gen
                               /\ Cut(Size, gen).fuel = Size /\ Cut(Size, gen).refill = Size
BY WindowAssumption DEF Size, Armed, Cut, Windows, BillTyped

\* What one counter holds.
LEMMA CounterTyped ==
    ASSUME Bill, NEW c \in Counters
    PROVE  /\ window[c] \in Windows /\ window[c].fuel \in Int /\ window[c].refill \in Int
           /\ window[c].gen \in Int /\ window[c].gen <= budgetGen /\ budgetGen \in Int
           /\ seg[c] \in Segments /\ seg[c].fuel \in Int /\ seg[c].refill \in Int /\ seg[c].depth \in Int
           /\ owed[c] \in Int /\ Owes(c, 1) \in Int /\ (stepBudget > 0 => Owes(c, 1) = owed[c] + 1)
           /\ Native => window[c].fuel >= 0 /\ seg[c].fuel >= 0
<1>1. window \in [Counters -> Windows] /\ seg \in [Counters -> Segments] /\ owed \in [Counters -> Int]
  BY DEF Bill, BillTyped
<1>2. owed[c] \in Int /\ Owes(c, 1) \in Int /\ (stepBudget > 0 => Owes(c, 1) = owed[c] + 1)
  BY <1>1 DEF Owes
<1>3. QED
  BY <1>1, <1>2 DEF Bill, BillTyped, Windows, Segments

\* What a step leaves of a counter it does not count.
LEMMA CounterKept ==
    ASSUME Bill, NEW c \in Counters
    PROVE  /\ window = [window EXCEPT ![c] = window[c]] /\ seg = [seg EXCEPT ![c] = seg[c]]
           /\ owed = [owed EXCEPT ![c] = owed[c]]
BY DEF Bill, BillTyped

\* RefreshJitCtxAddrs bills the calls, gives a stranded window up and leaves the
\* windows of the context to the present owner.
LEMMA RefreshBills ==
    ASSUME Bill, Native, StackGood', NEW c \in Counters, InLoop' => Here' = c,
           NEW w \in Windows, w.gen <= budgetGen, w.fuel >= 0,
           stepBudget > 0 /\ w.gen = budgetGen => w.refill = Quantum,
           NEW owes \in Int, stepBudget > 0 => owes = Drained(w, w.gen) + Drained(seg[c], w.gen),
           NEW used, Refresh(c, w, used, owes),
           UNCHANGED <<tier, stepBudget, budgetGen, bulkRemainder, bulkOwed>>
    PROVE  Bill'
<1> DEFINE own == Armed /\ w.gen = budgetGen
           calls == IF own THEN FuelSpent(seg[c]) ELSE 0
           stranded == own /\ w.refill = Quantum /\ w.fuel = 0
           nw == Refilled(w)
           ns == Topped(seg[c], Size)
           no == IF stepBudget = 0 THEN 0 ELSE owes - calls - (IF stranded THEN Quantum ELSE 0)
<1>1. window' = [window EXCEPT ![c] = nw] /\ seg' = [seg EXCEPT ![c] = ns] /\ owed' = [owed EXCEPT ![c] = no]
  BY DEF Refresh, Topped
<1>2. nw \in {w, Cut(Size, budgetGen)} /\ budgetGen \in Int /\ ~Wasm /\ BillTyped
  BY DEF Refilled, Bill, BillTyped, Wasm, Native
<1>3. calls \in Int /\ no \in Int
  <2>1. seg[c].fuel \in Int /\ Quantum \in Int
    BY <1>2, CutTyped, CounterTyped
  <2>2. FuelSpent(seg[c]) \in Int
    BY <2>1 DEF FuelSpent
  <2>3. QED
    BY <2>1, <2>2
<1>4. ns \in Segments /\ ns.fuel = Size /\ ns.refill = Size /\ Size >= 0
  <2>1. seg[c] \in Segments /\ Size \in Int /\ Size >= 0
    BY <1>2, CutTyped, CounterTyped
  <2>2. QED
    BY <2>1, ToppedTyped
<1>5. nw \in Windows /\ nw.gen <= budgetGen /\ nw.fuel >= 0
  BY <1>2, CutTyped
<1>6. ASSUME stepBudget > 0
      PROVE  /\ nw.gen = budgetGen /\ nw.refill = Quantum /\ nw.fuel > 0 /\ Size = Quantum
             /\ no = Drained(nw, nw.gen) + Drained(ns, nw.gen)
  <2>1. Armed /\ Size = Quantum /\ Quantum \in Nat \ {0} /\ stepBudget # 0
    BY <1>2, <1>6, CutTyped DEF BillTyped
  <2>2. /\ Cut(Size, budgetGen).gen = budgetGen /\ Cut(Size, budgetGen).fuel = Quantum
        /\ Cut(Size, budgetGen).refill = Quantum
    BY <1>2, <2>1, CutTyped
  <2>3. nw.gen = budgetGen /\ nw.refill = Quantum /\ nw.fuel > 0 /\ no = Quantum - nw.fuel
    <3>1. CASE w.gen # budgetGen
      <4>1. nw = Cut(Size, budgetGen)
        BY <3>1 DEF Refilled
      <4>2. owes = 0
        BY <1>6, <3>1 DEF Drained
      <4>3. no = 0
        BY <2>1, <3>1, <4>2
      <4> HIDE DEF nw, no
      <4>4. QED
        BY <2>1, <2>2, <4>1, <4>3
    <3>2. CASE w.gen = budgetGen
      <4>1. w.refill = Quantum /\ owes = (Quantum - w.fuel) + calls /\ w.fuel \in Int
        BY <1>6, <2>1, <3>2 DEF Drained, FuelSpent, Windows
      <4>2. CASE w.fuel = 0
        <5>1. nw = Cut(Size, budgetGen)
          BY <2>1, <3>2, <4>2 DEF Refilled
        <5>2. no = 0
          BY <1>3, <2>1, <3>2, <4>1, <4>2
        <5> HIDE DEF nw, no
        <5>3. QED
          BY <2>1, <2>2, <5>1, <5>2
      <4>3. CASE w.fuel # 0
        <5>1. nw = w
          BY <2>1, <3>2, <4>1, <4>3 DEF Refilled
        <5>2. no = Quantum - w.fuel
          BY <1>3, <2>1, <3>2, <4>1, <4>3
        <5> HIDE DEF nw, no
        <5>3. QED
          BY <3>2, <4>1, <4>3, <5>1, <5>2
      <4>4. QED
        BY <4>2, <4>3
    <3>3. QED
      BY <3>1, <3>2
  <2> HIDE DEF nw, ns, no
  <2>4. Drained(nw, nw.gen) = Quantum - nw.fuel /\ Drained(ns, nw.gen) = 0
    BY <1>4, <2>1, <2>3 DEF Drained, FuelSpent
  <2>5. QED
    BY <1>5, <2>1, <2>3, <2>4 DEF Windows
<1> HIDE DEF nw, ns, no
<1>7. stepBudget > 0 => ns.fuel > 0 /\ ns.refill = Quantum
  BY <1>2, <1>4, <1>6, CutTyped
<1>8. QED
  BY <1>1, <1>2, <1>3, <1>4, <1>5, <1>6, <1>7, CounterBills

\* A called segment gives up: the windows keep their owner and what they drained.
LEMMA RedoBills ==
    ASSUME Bill, Native, NEW c \in Counters,
           NEW w \in Windows, w.gen = window[c].gen, w.refill = window[c].refill, w.fuel >= 0,
           NEW fuel \in Int, fuel >= 0, NEW owes \in Int,
           stepBudget > 0 =>
               owes = Drained(w, w.gen)
                      + (IF w.gen = budgetGen /\ seg[c].refill = Quantum THEN Quantum - fuel ELSE 0),
           Redo(c, w, fuel, owes), UNCHANGED <<tier, stepBudget, budgetGen, bulkRemainder, bulkOwed>>
    PROVE  Bill'
<1> DEFINE ns == LeftOpen(seg[c], fuel, 0)
<1>1. /\ seg' = [seg EXCEPT ![c] = ns] /\ window' = [window EXCEPT ![c] = w] /\ owed' = [owed EXCEPT ![c] = owes]
      /\ Raise \/ stack' = Append(stack, "interp")
  BY DEF Redo, LeftOpen
<1>2. StackGood' /\ ~InLoop'
  <2>1. CASE Raise
    BY <2>1, RaiseGood DEF Raise, Bill
  <2>2. CASE stack' = Append(stack, "interp")
    <3>1. StackGood' /\ Here' = "interp"
      BY <2>2, AppendGood DEF Bill, Kinds
    <3>2. QED
      BY <3>1, NoCounter DEF InLoop, Counters, Native
  <2>3. QED
    BY <1>1, <2>1, <2>2
<1>3. ns \in Segments /\ ns.fuel = fuel /\ ns.refill = seg[c].refill
  BY CounterTyped, LeftOpenTyped
<1> HIDE DEF ns
<1>4. stepBudget > 0 =>
        /\ w.gen = budgetGen => w.refill = Quantum
        /\ owes = Drained(w, w.gen) + Drained(ns, w.gen)
  BY <1>3 DEF Bill, CountersGood, CounterGood, Drained, FuelSpent
<1>5. ~Wasm /\ w.gen <= budgetGen
  BY CounterTyped DEF Wasm, Native
<1>6. QED
  BY <1>1, <1>2, <1>3, <1>4, <1>5, CounterBills

\* Safepoint settles the whole window of a wasm loop, below zero too.
LEMMA SettleBills ==
    ASSUME Bill, Wasm, HasLoop(stack), NEW s, s = stack \/ (Len(stack) > 1 /\ s = Front(stack)),
           NEW fuel \in Int, fuel <= window[FuelWord].refill, NEW owes \in Int,
           stepBudget > 0 => owes = window[FuelWord].refill - fuel,
           Settle(s, fuel, owes), UNCHANGED <<tier, stepBudget, budgetGen, bulkRemainder, bulkOwed>>
    PROVE  Bill'
<1> DEFINE w == window[FuelWord]
           spent == IF w.refill > fuel THEN w.refill - fuel ELSE 0
           nw == Cut(Size, w.gen)
           no == IF stepBudget = 0 THEN 0 ELSE owes - spent
           ns == seg[FuelWord]
<1>1. /\ window' = [window EXCEPT ![FuelWord] = nw] /\ seg' = seg /\ owed' = [owed EXCEPT ![FuelWord] = no]
      /\ RaiseFrom(s) \/ stack' = s
  BY DEF Settle
<1>2. StackGood' /\ (HasLoop(stack') => HasLoop(stack))
  <2>1. CASE RaiseFrom(s)
    BY <2>1, RaiseGood DEF Bill
  <2>2. CASE stack' = s /\ s = stack
    BY <2>2 DEF Bill, StackGood, Wasm, HasLoop
  <2>3. CASE stack' = s /\ Len(stack) > 1 /\ s = Front(stack)
    BY <2>3, FrontPrefix, PrefixGood DEF Bill
  <2>4. QED
    BY <1>1, <2>1, <2>2, <2>3
<1>3. FuelWord \in Counters /\ ~Native
  BY NoCounter DEF Native, Wasm
<1>4. /\ w.gen \in Int /\ w.refill \in Int /\ w.gen <= budgetGen
      /\ stepBudget > 0 => w.gen = budgetGen
      /\ ns \in Segments /\ ns.refill = 0 /\ seg = [seg EXCEPT ![FuelWord] = ns]
  BY <1>3, CounterTyped, CounterKept DEF Bill, WasmOwned
<1>5. /\ nw \in Windows /\ nw.gen = w.gen /\ nw.fuel = Size /\ nw.refill = Size
      /\ Size \in Int /\ (stepBudget > 0 => Size = Quantum /\ stepBudget # 0) /\ Quantum \in Nat \ {0}
  BY <1>4, CutTyped DEF Bill, BillTyped
<1>6. no \in Int /\ (stepBudget > 0 => no = 0)
  BY <1>4, <1>5
<1>7. stepBudget > 0 => Drained(nw, nw.gen) = 0 /\ Drained(ns, nw.gen) = 0
  BY <1>4, <1>5 DEF Drained, FuelSpent
<1>8. seg' = [seg EXCEPT ![FuelWord] = ns]
  BY <1>1, <1>4
<1> HIDE DEF nw, no, w, ns
<1>9. /\ nw.gen <= budgetGen /\ nw.fuel <= nw.refill
      /\ stepBudget > 0 => nw.refill = Quantum /\ nw.gen = budgetGen /\ no = Drained(nw, nw.gen) + Drained(ns, nw.gen)
  BY <1>4, <1>5, <1>6, <1>7
<1>10. QED
  BY <1>1, <1>2, <1>3, <1>4, <1>5, <1>6, <1>7, <1>8, <1>9, CounterBills

\* What lies below goes on.
LEMMA GoOnBills ==
    ASSUME Bill, Len(stack) > 1, GoOn, UNCHANGED <<tier, stepBudget, budgetGen, bulkRemainder, bulkOwed>>
    PROVE  Bill'
<1> DEFINE below == stack[Len(stack) - 1]
<1>1. stack' = Front(stack)
  BY DEF GoOn
<1>2. StackGood' /\ Here' = below /\ (HasLoop(stack') => HasLoop(stack))
  BY <1>1, FrontPrefix, PrefixGood DEF Bill
<1>3. CASE Native /\ below \in Counters
  <2>1. Refresh(below, window[below], stepUsed, owed[below])
    BY <1>3 DEF GoOn
  <2> HIDE DEF below
  <2>2. stepBudget > 0 =>
          /\ window[below].gen = budgetGen => window[below].refill = Quantum
          /\ owed[below] = Drained(window[below], window[below].gen) + Drained(seg[below], window[below].gen)
    BY <1>3 DEF Bill, CountersGood, CounterGood
  <2>3. QED
    BY <1>2, <1>3, <2>1, <2>2, RefreshBills, CounterTyped
<1>4. CASE ~(Native /\ below \in Counters)
  <2>1. UNCHANGED <<window, seg, owed>>
    BY <1>4 DEF GoOn
  <2>2. Native => ~InLoop'
    BY <1>2, <1>4 DEF InLoop, Counters, Native
  <2>3. QED
    BY <1>2, <2>1, <2>2, Untouched
<1>5. QED
  BY <1>3, <1>4

\* What a counter of the present owner has drained.
LEMMA Owned ==
    ASSUME Bill, NEW c \in Counters, stepBudget > 0, window[c].gen = budgetGen
    PROVE  /\ window[c].refill = Quantum /\ Quantum \in Nat \ {0} /\ Drained(seg[c], budgetGen) \in Int
           /\ owed[c] = (Quantum - window[c].fuel) + Drained(seg[c], budgetGen)
           /\ Owes(c, 1) = (Quantum - (window[c].fuel - 1)) + Drained(seg[c], budgetGen)
<1>1. CounterGood(c) /\ BillTyped
  BY DEF Bill, CountersGood
<1>2. window[c].refill = Quantum /\ Quantum \in Nat \ {0} /\ window[c].fuel \in Int /\ seg[c].fuel \in Int
  BY <1>1, CutTyped, CounterTyped DEF CounterGood
<1>3. owed[c] = (Quantum - window[c].fuel) + Drained(seg[c], budgetGen)
  BY <1>1, <1>2 DEF CounterGood, Drained, FuelSpent
<1>4. Drained(seg[c], budgetGen) \in Int
  BY <1>2 DEF Drained, FuelSpent
<1>5. Owes(c, 1) = owed[c] + 1
  BY CounterTyped
<1>6. QED
  BY <1>2, <1>3, <1>4, <1>5

\* A step is counted down in a window that does not settle yet.
LEMMA CountedBills ==
    ASSUME Bill, NEW c \in Counters, NEW fuel \in Int, CountedDown(c, fuel),
           UNCHANGED <<tier, stepBudget, budgetGen, bulkRemainder, bulkOwed>>, StackGood',
           stepBudget > 0 => window[c].gen = budgetGen /\ fuel = window[c].fuel - 1,
           Wasm => fuel <= window[c].refill,
           Native => fuel > 0 /\ InLoop /\ Here = c /\ stack' = stack
    PROVE  Bill'
<1> DEFINE w == Left(window[c], fuel)
           s == seg[c]
           owes == Owes(c, 1)
<1>1. window' = [window EXCEPT ![c] = w] /\ owed' = [owed EXCEPT ![c] = owes] /\ seg' = [seg EXCEPT ![c] = s]
  BY CounterKept DEF CountedDown, Left
<1>2. /\ w \in Windows /\ w.fuel = fuel /\ w.refill = window[c].refill /\ w.gen = window[c].gen
      /\ s \in Segments /\ owes \in Int /\ w.gen <= budgetGen /\ (Native => w.fuel >= 0 /\ s.fuel >= 0)
  <2>1. /\ window[c] \in Windows /\ window[c].gen <= budgetGen /\ s \in Segments /\ owes \in Int
        /\ Native => s.fuel >= 0
    BY CounterTyped
  <2>2. w \in Windows /\ w.fuel = fuel /\ w.refill = window[c].refill /\ w.gen = window[c].gen
    BY <2>1, LeftTyped
  <2>3. Native => w.fuel >= 0
    BY <2>2
  <2> HIDE DEF w, s, owes
  <2>4. QED
    BY <2>1, <2>2, <2>3
<1>3. stepBudget > 0 =>
        /\ w.refill = Quantum /\ w.gen = budgetGen
        /\ owes = Drained(w, w.gen) + Drained(s, w.gen)
  <2>1. SUFFICES ASSUME stepBudget > 0
                 PROVE w.refill = Quantum /\ w.gen = budgetGen /\ owes = Drained(w, w.gen) + Drained(s, w.gen)
    OBVIOUS
  <2>2. w.refill = Quantum /\ w.gen = budgetGen /\ owes = (Quantum - fuel) + Drained(s, w.gen)
    BY <1>2, <2>1, Owned
  <2> HIDE DEF w, s, owes
  <2>3. Drained(w, w.gen) = Quantum - fuel
    BY <1>2, <2>2 DEF Drained, FuelSpent
  <2>4. QED
    BY <2>2, <2>3
<1>4. Wasm => s.refill = 0
  BY NoCounter DEF Bill, WasmOwned
<1>5. Native /\ InLoop' /\ stepBudget > 0 => Here' = c /\ w.fuel > 0 /\ s.fuel > 0 /\ s.refill = Quantum
  BY <1>2 DEF Bill, NativeOwned, Here
<1>6. Wasm => w.fuel <= w.refill
  BY <1>2
<1> HIDE DEF w, s, owes
<1>7. QED
  BY <1>1, <1>2, <1>3, <1>4, <1>5, <1>6, CounterBills

-----------------------------------------------------------------------------
(***************************************************************************)
(* The bill, action by action.                                             *)
(***************************************************************************)
LEMMA SetStepBudgetBills ==
    ASSUME Bill, ~ReplaceUnderWasm, NEW n \in Budgets, SetStepBudget(n)
    PROVE  Bill'
<1>1. /\ InGo /\ (Native \/ \A i \in 1 .. Len(stack) : stack[i] # FuelWord)
      /\ stepBudget' = n /\ bulkRemainder' = 0 /\ bulkOwed' = 0 /\ budgetGen' = budgetGen + 1
      /\ owed' = [c \in Counters |-> 0]
      /\ UNCHANGED <<tier, stack, window, seg>>
  BY DEF SetStepBudget
<1>2. Counters' = Counters /\ Native' = Native /\ Wasm' = Wasm
  BY <1>1 DEF Counters, Native, Wasm
<1>3. /\ n \in Nat /\ budgetGen \in Nat
      /\ \A c \in Counters : window[c].gen \in Int /\ window[c].gen < budgetGen' /\ owed'[c] = 0
  BY <1>1, BillAssumption, CounterTyped DEF Bill, BillTyped
<1>4. BillTyped' /\ StackGood'
  BY <1>1, <1>2, <1>3 DEF Bill, BillTyped, StackGood
<1>5. Wasm => ~HasLoop(stack)'
  BY <1>1 DEF Bill, StackGood, HasLoop, Native, Wasm
<1>6. ~InLoop'
  BY <1>1, <1>2, NoCounter DEF InGo, InLoop, Here
<1>7. ASSUME NEW c \in Counters PROVE CounterGood(c)'
  BY <1>1, <1>3 DEF CounterGood, Drained
<1>8. WasmOwned' /\ NativeOwned' /\ BulkAddsUp' /\ CountersGood'
  BY <1>1, <1>2, <1>5, <1>6, <1>7 DEF Bill, WasmOwned, NativeOwned, BulkAddsUp, CountersGood
<1>9. QED
  BY <1>4, <1>8 DEF Bill

LEMMA Remainder ==
    ASSUME NEW n \in Nat, NEW d \in Nat \ {0}
    PROVE  n % d \in Nat /\ n % d = n - d * (n \div d)
OBVIOUS

LEMMA ChargeBills ==
    ASSUME Bill, NEW bytes \in Pieces, chargeBulkWork(bytes)
    PROVE  Bill'
<1>1. /\ bulkRemainder' = (bulkRemainder + bytes) % BytesPerStep
      /\ bulkOwed' = bulkOwed + bytes - BytesPerStep * ((bulkRemainder + bytes) \div BytesPerStep)
      /\ Raise \/ stack' = stack
      /\ UNCHANGED <<tier, stepBudget, budgetGen, window, seg, owed>>
  BY DEF chargeBulkWork, ChargedSteps
<1>2. bulkRemainder \in Nat /\ bytes \in Nat /\ BytesPerStep \in Nat \ {0} /\ bulkOwed = bulkRemainder
  BY BillAssumption DEF Bill, BillTyped, BulkAddsUp
<1>3. bulkRemainder' \in Nat /\ BulkAddsUp'
  <2> DEFINE n == bulkRemainder + bytes
  <2>1. bulkRemainder' = n % BytesPerStep /\ bulkOwed' = n - BytesPerStep * (n \div BytesPerStep)
    BY <1>1, <1>2
  <2>2. n \in Nat
    BY <1>2
  <2> HIDE DEF n
  <2>3. QED
    BY <1>2, <2>1, <2>2, Remainder DEF BulkAddsUp
<1>4. /\ StackGood' /\ (HasLoop(stack') => HasLoop(stack))
      /\ InLoop' => InLoop /\ Here' = Here
  <2>1. CASE Raise
    BY <1>1, <2>1, RaiseGood DEF Raise, Bill
  <2>2. CASE stack' = stack
    BY <1>1, <2>2 DEF Bill, StackGood, Wasm, InLoop, Here, Counters, Native
  <2>3. QED
    BY <1>1, <2>1, <2>2
<1>5. QED
  BY <1>1, <1>3, <1>4, BillStays DEF Bill, BillTyped

\* enterGibbous cuts a window that is another owner's.
LEMMA EnterWasmBills ==
    ASSUME Bill, Wasm, StackGood', window' = [window EXCEPT ![FuelWord] = Rearmed(window[FuelWord])],
           UNCHANGED <<tier, seg, owed, stepBudget, budgetGen, bulkRemainder, bulkOwed>>
    PROVE  Bill'
<1> DEFINE old == window[FuelWord]
           w == Rearmed(old)
           s == seg[FuelWord]
           owes == owed[FuelWord]
<1>1. FuelWord \in Counters /\ ~Native /\ BillTyped /\ CounterGood(FuelWord)
  BY NoCounter DEF Bill, CountersGood, Native, Wasm
<1>2. window' = [window EXCEPT ![FuelWord] = w] /\ seg' = [seg EXCEPT ![FuelWord] = s] /\ owed' = [owed EXCEPT ![FuelWord] = owes]
  BY <1>1, CounterKept
<1>3. /\ old \in Windows /\ old.gen \in Int /\ old.gen <= budgetGen /\ old.fuel <= old.refill /\ budgetGen \in Int
      /\ s \in Segments /\ s.refill = 0 /\ owes \in Int
  BY <1>1, CounterTyped DEF Bill, WasmOwned
<1>4. /\ Size \in Int /\ (stepBudget > 0 => Size = Quantum /\ stepBudget # 0) /\ Quantum \in Nat \ {0}
      /\ \A gen \in Int : /\ Cut(Size, gen) \in Windows /\ Cut(Size, gen).gen = gen
                          /\ Cut(Size, gen).fuel = Size /\ Cut(Size, gen).refill = Size
  BY <1>1, CutTyped DEF BillTyped
<1>5. w \in {old, Cut(Size, budgetGen)} \/ (stepBudget = 0 /\ w = Cut(Size, old.gen))
  BY DEF Rearmed
<1>6. w \in Windows /\ w.gen <= budgetGen /\ w.fuel <= w.refill
  <2> HIDE DEF old, w, s, owes
  <2>1. QED
    BY <1>3, <1>4, <1>5
<1>7. ASSUME stepBudget > 0
      PROVE  w.gen = budgetGen /\ w.refill = Quantum /\ owes = Drained(w, w.gen) + Drained(s, w.gen)
  <2>1. CASE old.gen = budgetGen
    <3>1. w = old
      BY <1>4, <1>7, <2>1 DEF Rearmed
    <3>2. QED
      BY <1>1, <1>7, <2>1, <3>1 DEF CounterGood
  <2>2. CASE old.gen # budgetGen
    <3>1. w = Cut(Size, budgetGen)
      BY <2>2 DEF Rearmed
    <3>2. owes = 0
      BY <1>1, <1>7, <2>2 DEF CounterGood, Drained
    <3> HIDE DEF old, w, s, owes
    <3>3. w.gen = budgetGen /\ w.refill = Quantum /\ w.fuel = Quantum
      BY <1>3, <1>4, <1>7, <3>1
    <3>4. Drained(w, w.gen) = 0 /\ Drained(s, w.gen) = 0
      BY <1>3, <1>4, <3>3 DEF Drained, FuelSpent
    <3>5. QED
      BY <3>2, <3>3, <3>4
  <2>3. QED
    BY <2>1, <2>2
<1> HIDE DEF old, w, s, owes
<1>8. QED
  BY <1>1, <1>2, <1>3, <1>6, <1>7, CounterBills

LEMMA EnterBills ==
    ASSUME Bill, NEW kind \in {"interp"} \cup Counters, Enter(kind),
           UNCHANGED <<tier, stepBudget, budgetGen, bulkRemainder, bulkOwed>>
    PROVE  Bill'
<1>1. stack' = Append(stack, kind) /\ kind \in Kinds /\ kind # "safepoint"
  BY NoCounter DEF Enter, Kinds
<1>2. StackGood' /\ Here' = kind /\ (HasLoop(stack') /\ kind # FuelWord => HasLoop(stack))
  BY <1>1, AppendGood DEF Bill
<1>3. CASE Native /\ kind \in Counters
  <2>1. Refresh(kind, window[kind], Used(1), owed[kind])
    BY <1>3 DEF Enter
  <2>2. stepBudget > 0 =>
          /\ window[kind].gen = budgetGen => window[kind].refill = Quantum
          /\ owed[kind] = Drained(window[kind], window[kind].gen) + Drained(seg[kind], window[kind].gen)
    BY <1>3 DEF Bill, CountersGood, CounterGood
  <2>3. QED
    BY <1>2, <1>3, <2>1, <2>2, RefreshBills, CounterTyped
<1>4. CASE kind \notin Counters
  <2>1. UNCHANGED <<window, seg, owed>> /\ kind # FuelWord
    BY <1>4, NoCounter DEF Enter
  <2>2. ~InLoop'
    BY <1>2, <1>4 DEF InLoop, Counters, Native
  <2>3. QED
    BY <1>2, <2>1, <2>2, Untouched
<1>5. CASE kind \in Counters /\ ~Native
  <2>1. Wasm /\ kind = FuelWord
    BY <1>5, NoCounter DEF Bill, BillTyped, Native, Wasm
  <2>2. window' = [window EXCEPT ![FuelWord] = Rearmed(window[FuelWord])] /\ UNCHANGED <<seg, owed>>
    BY <1>5, <2>1 DEF Enter
  <2>3. QED
    BY <1>2, <2>1, <2>2, EnterWasmBills
<1>6. QED
  BY <1>3, <1>4, <1>5

LEMMA CallBills ==
    ASSUME Bill, NEW kind \in {"interp"} \cup Counters, Call(kind)
    PROVE  Bill'
<1>1. UNCHANGED <<tier, stepBudget, budgetGen, bulkRemainder, bulkOwed>>
  BY DEF Call
<1>2. CASE Raise /\ UNCHANGED <<window, seg, owed>>
  BY <1>1, <1>2, RaiseGood, Untouched DEF Raise, Bill
<1>3. CASE Enter(kind)
  BY <1>1, <1>3, EnterBills
<1>4. QED
  BY <1>2, <1>3 DEF Call

\* What a wasm loop that is anywhere on the stack has drained.
LEMMA WasmOwes ==
    ASSUME Bill, Wasm, HasLoop(stack)
    PROVE  /\ FuelWord \in Counters /\ ~Native
           /\ window[FuelWord].fuel \in Int /\ window[FuelWord].refill \in Int
           /\ window[FuelWord].fuel <= window[FuelWord].refill
           /\ owed[FuelWord] \in Int /\ Owes(FuelWord, 1) \in Int
           /\ stepBudget > 0 =>
                /\ window[FuelWord].gen = budgetGen
                /\ owed[FuelWord] = window[FuelWord].refill - window[FuelWord].fuel
                /\ Owes(FuelWord, 1) = window[FuelWord].refill - (window[FuelWord].fuel - 1)
<1>1. FuelWord \in Counters /\ ~Native
  BY NoCounter DEF Native, Wasm
<1>2. /\ window[FuelWord].fuel \in Int /\ window[FuelWord].refill \in Int
      /\ window[FuelWord].fuel <= window[FuelWord].refill
      /\ owed[FuelWord] \in Int /\ Owes(FuelWord, 1) \in Int
  BY <1>1, CounterTyped DEF Bill, WasmOwned
<1>3. ASSUME stepBudget > 0
      PROVE  /\ window[FuelWord].gen = budgetGen
             /\ owed[FuelWord] = window[FuelWord].refill - window[FuelWord].fuel
             /\ Owes(FuelWord, 1) = window[FuelWord].refill - (window[FuelWord].fuel - 1)
  <2>1. window[FuelWord].gen = budgetGen /\ seg[FuelWord].refill = 0
    BY <1>3 DEF Bill, WasmOwned
  <2>2. /\ window[FuelWord].refill = Quantum /\ Quantum \in Nat \ {0}
        /\ owed[FuelWord] = (Quantum - window[FuelWord].fuel) + Drained(seg[FuelWord], budgetGen)
        /\ Owes(FuelWord, 1) = (Quantum - (window[FuelWord].fuel - 1)) + Drained(seg[FuelWord], budgetGen)
    BY <1>1, <1>3, <2>1, Owned
  <2>3. Drained(seg[FuelWord], budgetGen) = 0
    BY <2>1, <2>2 DEF Drained, FuelSpent
  <2>4. QED
    BY <1>2, <2>1, <2>2, <2>3
<1>4. QED
  BY <1>1, <1>2, <1>3

LEMMA WasmBackEdgeBills ==
    ASSUME Bill, WasmBackEdge
    PROVE  Bill'
<1> DEFINE fuel == window[FuelWord].fuel - 1
<1>1. /\ Wasm /\ ~Native /\ HasLoop(stack) /\ Here = FuelWord
      /\ UNCHANGED <<tier, stepBudget, budgetGen, bulkRemainder, bulkOwed>>
  BY NoCounter DEF WasmBackEdge, InLoop, Native, Wasm, Bill, BillTyped, StackGood, Here, HasLoop
<1>2. FuelWord \in Counters /\ fuel \in Int /\ fuel <= window[FuelWord].refill /\ Owes(FuelWord, 1) \in Int
  BY <1>1, WasmOwes
<1>3. stepBudget > 0 => window[FuelWord].gen = budgetGen /\ Owes(FuelWord, 1) = window[FuelWord].refill - fuel
  BY <1>1, WasmOwes
<1>4. CASE CountedDown(FuelWord, fuel) /\ (stack' = stack \/ stack' = Append(stack, "safepoint"))
  <2>1. StackGood'
    <3>1. CASE stack' = stack
      BY <1>1, <3>1 DEF Bill, StackGood, Wasm
    <3>2. CASE stack' = Append(stack, "safepoint")
      BY <1>1, <3>2, AppendGood DEF Bill, Kinds
    <3>3. QED
      BY <1>4, <3>1, <3>2
  <2>2. QED
    BY <1>1, <1>2, <1>3, <1>4, <2>1, CountedBills
<1>5. CASE Settle(stack, fuel, Owes(FuelWord, 1))
  <2> HIDE DEF fuel
  <2>1. QED
    BY <1>1, <1>2, <1>3, <1>5, SettleBills
<1>6. QED
  BY <1>4, <1>5 DEF WasmBackEdge

LEMMA SafepointCollectedBills ==
    ASSUME Bill, SafepointCollected
    PROVE  Bill'
<1>1. /\ Here = "safepoint" /\ Settle(Front(stack), window[FuelWord].fuel, owed[FuelWord])
      /\ UNCHANGED <<tier, stepBudget, budgetGen, bulkRemainder, bulkOwed>>
  BY DEF SafepointCollected
<1>2. Len(stack) \in Nat /\ Len(stack) > 1 /\ Wasm /\ HasLoop(stack)
  <2>1. Len(stack) \in Nat /\ Len(stack) > 1 /\ stack \in Seq(Kinds)
    BY <1>1 DEF Bill, StackGood, Here
  <2>2. Wasm /\ stack[Len(stack) - 1] = FuelWord /\ Len(stack) - 1 \in DOMAIN stack
    BY <1>1, <2>1 DEF Bill, StackGood, Here
  <2>3. QED
    BY <2>1, <2>2 DEF HasLoop
<1>3. QED
  BY <1>1, <1>2, WasmOwes, SettleBills

\* The counters of native code that runs do not wrap.
LEMMA DownTyped ==
    ASSUME NEW n \in Int, n >= 0
    PROVE  Down(n) \in Int /\ Down(n) >= 0 /\ (n > 0 => Down(n) = n - 1)
BY WindowAssumption DEF Down

\* What a native segment that runs has drained.
LEMMA NativeOwes ==
    ASSUME Bill, Native, InLoop, NEW c, c = Here
    PROVE  /\ c \in Counters /\ ~Wasm
           /\ stepBudget > 0 =>
                /\ window[c].gen = budgetGen /\ window[c].refill = Quantum /\ Quantum \in Nat \ {0}
                /\ window[c].fuel > 0 /\ seg[c].fuel > 0 /\ seg[c].refill = Quantum
                /\ Drained(seg[c], budgetGen) = Quantum - seg[c].fuel
                /\ owed[c] = (Quantum - window[c].fuel) + (Quantum - seg[c].fuel)
                /\ Owes(c, 1) = (Quantum - window[c].fuel) + (Quantum - seg[c].fuel) + 1
<1>1. c \in Counters /\ ~Wasm
  BY DEF InLoop, Native, Wasm
<1>2. ASSUME stepBudget > 0
      PROVE  /\ window[c].gen = budgetGen /\ window[c].refill = Quantum /\ Quantum \in Nat \ {0}
             /\ window[c].fuel > 0 /\ seg[c].fuel > 0 /\ seg[c].refill = Quantum
             /\ Drained(seg[c], budgetGen) = Quantum - seg[c].fuel
             /\ owed[c] = (Quantum - window[c].fuel) + (Quantum - seg[c].fuel)
             /\ Owes(c, 1) = (Quantum - window[c].fuel) + (Quantum - seg[c].fuel) + 1
  <2>1. window[c].gen = budgetGen /\ window[c].fuel > 0 /\ seg[c].fuel > 0 /\ seg[c].refill = Quantum
    BY <1>2 DEF Bill, NativeOwned
  <2>2. /\ window[c].refill = Quantum /\ Quantum \in Nat \ {0}
        /\ owed[c] = (Quantum - window[c].fuel) + Drained(seg[c], budgetGen)
    BY <1>1, <1>2, <2>1, Owned
  <2>3. Drained(seg[c], budgetGen) = Quantum - seg[c].fuel
    BY <2>1 DEF Drained, FuelSpent
  <2>4. Owes(c, 1) = owed[c] + 1 /\ window[c].fuel \in Int /\ seg[c].fuel \in Int
    BY <1>1, <1>2, CounterTyped
  <2>5. QED
    BY <2>1, <2>2, <2>3, <2>4
<1>3. QED
  BY <1>1, <1>2

\* A window is spent: the steps are charged and the loop ends or is entered again.
LEMMA LoopPreemptBills ==
    ASSUME Bill, Native, InLoop, NEW c, c = Here, LoopPreempt(c, Left(window[c], 0), Owes(c, 1)),
           stepBudget > 0 => window[c].fuel = 1,
           UNCHANGED <<tier, stepBudget, budgetGen, bulkRemainder, bulkOwed>>
    PROVE  Bill'
<1> DEFINE w == Left(window[c], 0)
           spent == IF Armed THEN FuelSpent(w) ELSE 0
           rest == IF stepBudget = 0 THEN 0 ELSE Owes(c, 1) - spent
           new == Cut(Size, w.gen)
           s == seg[c]
<1>1. /\ c \in Counters /\ ~Wasm /\ BillTyped /\ window[c] \in Windows /\ window[c].gen \in Int
      /\ window[c].gen <= budgetGen /\ Owes(c, 1) \in Int /\ s \in Segments /\ s.fuel \in Int /\ s.fuel >= 0
  BY NativeOwes, CounterTyped DEF Bill
<1>2. /\ Size \in Nat \ {0} /\ Quantum \in Nat \ {0} /\ (stepBudget > 0 => Armed /\ Size = Quantum /\ stepBudget # 0)
      /\ new \in Windows /\ new.gen = window[c].gen /\ new.fuel = Size /\ new.refill = Size
      /\ w.fuel = 0 /\ w.refill = window[c].refill
  <2>1. w.gen = window[c].gen /\ w.fuel = 0 /\ w.refill = window[c].refill
    <3>1. window[c] \in Windows /\ 0 \in Int
      BY <1>1
    <3>2. QED
      BY <3>1, LeftTyped
  <2>2. QED
    BY <1>1, <2>1, CutTyped DEF BillTyped
<1>3. spent \in Int /\ rest \in Int
  <2> HIDE DEF w
  <2>1. FuelSpent(w) \in Int
    BY <1>2 DEF FuelSpent
  <2>2. spent \in Int
    BY <2>1
  <2> HIDE DEF spent
  <2>3. QED
    BY <1>1, <2>2
<1>4. ASSUME stepBudget > 0
      PROVE  rest = Drained(new, new.gen) + Drained(s, new.gen)
  <2>1. /\ window[c].gen = budgetGen /\ window[c].refill = Quantum
        /\ Owes(c, 1) = Quantum + (Quantum - s.fuel) /\ Drained(s, budgetGen) = Quantum - s.fuel
    BY <1>1, <1>2, <1>4, NativeOwes
  <2>2. spent = Quantum
    BY <1>2, <1>4, <2>1 DEF FuelSpent
  <2>3. Drained(new, new.gen) = 0
    BY <1>2, <1>4, <2>1 DEF Drained, FuelSpent
  <2> HIDE DEF spent, new, s
  <2>4. QED
    BY <1>1, <1>2, <1>4, <2>1, <2>2, <2>3
<1>5. stepBudget > 0 /\ new.gen = budgetGen => new.refill = Quantum
  BY <1>2
<1>6. \/ Raise /\ window' = [window EXCEPT ![c] = new] /\ owed' = [owed EXCEPT ![c] = rest] /\ seg' = seg
      \/ Refresh(c, new, Used(spent), rest) /\ UNCHANGED stack
  BY DEF LoopPreempt
<1> HIDE DEF w, spent, rest, new
<1>7. CASE Raise /\ window' = [window EXCEPT ![c] = new] /\ owed' = [owed EXCEPT ![c] = rest] /\ seg' = seg
  <2>1. StackGood' /\ ~InLoop'
    BY <1>7, RaiseGood DEF Raise, Bill
  <2>2. seg' = [seg EXCEPT ![c] = s]
    BY <1>1, <1>7, CounterKept
  <2> HIDE DEF s
  <2>3. new.gen <= budgetGen /\ new.fuel >= 0
    BY <1>1, <1>2
  <2>4. QED
    BY <1>1, <1>3, <1>2, <1>4, <1>5, <1>7, <2>1, <2>2, <2>3, CounterBills
<1>8. CASE Refresh(c, new, Used(spent), rest) /\ UNCHANGED stack
  <2>1. StackGood' /\ Here' = c
    BY <1>8 DEF Bill, StackGood, Wasm, Here
  <2>2. new.gen <= budgetGen /\ new.fuel >= 0
    BY <1>1, <1>2
  <2>3. QED
    BY <1>1, <1>2, <1>3, <1>4, <1>5, <1>8, <2>1, <2>2, RefreshBills
<1>9. QED
  BY <1>6, <1>7, <1>8

LEMMA NativeBackEdgeBills ==
    ASSUME Bill, NativeBackEdge
    PROVE  Bill'
<1>1. /\ InLoop /\ Native
      /\ UNCHANGED <<tier, stepBudget, budgetGen, bulkRemainder, bulkOwed>>
  BY DEF NativeBackEdge
<1> DEFINE c == Here
<1>2. PICK fuel \in Ticked(c) :
        \/ fuel > 0 /\ CountedDown(c, fuel) /\ UNCHANGED stack
        \/ fuel = 0 /\ LoopPreempt(c, Left(window[c], fuel), Owes(c, 1))
        \/ fuel = 0 /\ Redo(c, Left(window[c], fuel), seg[c].fuel, Owes(c, 1))
  BY DEF NativeBackEdge, Left
<1>3. /\ c \in Counters /\ ~Wasm /\ window[c] \in Windows /\ window[c].fuel \in Int /\ window[c].fuel >= 0
      /\ seg[c].fuel \in Int /\ seg[c].fuel >= 0 /\ Owes(c, 1) \in Int
  BY <1>1, NativeOwes, CounterTyped
<1>4. fuel \in Int /\ fuel >= 0 /\ (window[c].fuel > 0 => fuel = window[c].fuel - 1)
  <2>1. Down(window[c].fuel) \in Int /\ Down(window[c].fuel) >= 0
        /\ (window[c].fuel > 0 => Down(window[c].fuel) = window[c].fuel - 1)
    BY <1>3, DownTyped
  <2>2. fuel = Down(window[c].fuel) \/ (fuel = 0 /\ window[c].fuel <= 1)
    BY DEF Ticked
  <2> HIDE DEF c
  <2>3. QED
    BY <1>3, <2>1, <2>2
<1>5. stepBudget > 0 => window[c].gen = budgetGen /\ fuel = window[c].fuel - 1
  BY <1>1, <1>4, NativeOwes
<1>6. CASE fuel > 0 /\ CountedDown(c, fuel) /\ UNCHANGED stack
  <2>1. StackGood'
    BY <1>1, <1>6 DEF Bill, StackGood, Wasm
  <2>2. QED
    BY <1>1, <1>3, <1>4, <1>5, <1>6, <2>1, CountedBills
<1>7. CASE fuel = 0 /\ LoopPreempt(c, Left(window[c], fuel), Owes(c, 1))
  <2>1. stepBudget > 0 => window[c].fuel = 1
    BY <1>3, <1>5, <1>7
  <2>2. LoopPreempt(c, Left(window[c], 0), Owes(c, 1))
    BY <1>7
  <2>3. QED
    BY <1>1, <2>1, <2>2, LoopPreemptBills
<1>8. CASE fuel = 0 /\ Redo(c, Left(window[c], fuel), seg[c].fuel, Owes(c, 1))
  <2> DEFINE w == Left(window[c], fuel)
  <2>1. w \in Windows /\ w.fuel = 0 /\ w.refill = window[c].refill /\ w.gen = window[c].gen
    BY <1>3, <1>4, <1>8, LeftTyped
  <2>2. stepBudget > 0 =>
          Owes(c, 1) = Drained(w, w.gen)
                       + (IF w.gen = budgetGen /\ seg[c].refill = Quantum THEN Quantum - seg[c].fuel ELSE 0)
    <3>1. SUFFICES ASSUME stepBudget > 0
                   PROVE  Owes(c, 1) = Drained(w, w.gen)
                            + (IF w.gen = budgetGen /\ seg[c].refill = Quantum THEN Quantum - seg[c].fuel ELSE 0)
      OBVIOUS
    <3>2. /\ w.gen = budgetGen /\ w.refill = Quantum /\ Quantum \in Nat \ {0} /\ seg[c].refill = Quantum
          /\ Owes(c, 1) = Quantum + (Quantum - seg[c].fuel)
      BY <1>1, <1>3, <1>5, <1>8, <2>1, <3>1, NativeOwes
    <3> HIDE DEF w
    <3>3. Drained(w, w.gen) = Quantum
      BY <2>1, <3>2 DEF Drained, FuelSpent
    <3>4. QED
      BY <1>3, <3>2, <3>3
  <2> HIDE DEF w
  <2>3. Redo(c, w, seg[c].fuel, Owes(c, 1)) /\ w.fuel >= 0
    BY <1>8, <2>1 DEF w
  <2>4. QED
    BY <1>1, <1>3, <2>1, <2>2, <2>3, RedoBills
<1>9. QED
  BY <1>2, <1>6, <1>7, <1>8

LEMMA SegCallBills ==
    ASSUME Bill, SegCall
    PROVE  Bill'
<1> DEFINE c == Here
           fuel == Down(seg[c].fuel)
           w == window[c]
           s == LeftOpen(seg[c], fuel, seg[c].depth + 1)
<1>1. /\ InLoop /\ Native /\ UNCHANGED <<tier, stepBudget, budgetGen, bulkRemainder, bulkOwed>>
      /\ \/ /\ fuel > 0
            /\ seg' = [seg EXCEPT ![c].fuel = fuel, ![c].depth = @ + 1]
            /\ owed' = [owed EXCEPT ![c] = Owes(c, 1)] /\ UNCHANGED <<stack, window>>
         \/ Redo(c, w, fuel, Owes(c, 1))
  BY DEF SegCall
<1>2. /\ c \in Counters /\ ~Wasm /\ w \in Windows /\ w.fuel \in Int /\ w.fuel >= 0 /\ w.gen <= budgetGen
      /\ seg[c] \in Segments /\ seg[c].fuel \in Int /\ seg[c].fuel >= 0 /\ seg[c].depth \in Int /\ Owes(c, 1) \in Int
  BY <1>1, NativeOwes, CounterTyped
<1>3. fuel \in Int /\ fuel >= 0 /\ (seg[c].fuel > 0 => fuel = seg[c].fuel - 1)
  BY <1>2, DownTyped
<1>4. ASSUME stepBudget > 0
      PROVE  /\ w.gen = budgetGen /\ w.refill = Quantum /\ seg[c].refill = Quantum /\ w.fuel > 0
             /\ Owes(c, 1) = Drained(w, w.gen) + (Quantum - fuel)
  <2>1. /\ w.gen = budgetGen /\ w.refill = Quantum /\ Quantum \in Nat \ {0} /\ seg[c].refill = Quantum
        /\ seg[c].fuel > 0 /\ w.fuel > 0
        /\ Owes(c, 1) = (Quantum - w.fuel) + (Quantum - seg[c].fuel) + 1
    BY <1>1, <1>4, NativeOwes
  <2>2. Drained(w, w.gen) = Quantum - w.fuel
    BY <2>1 DEF Drained, FuelSpent
  <2>3. fuel = seg[c].fuel - 1
    BY <1>3, <2>1
  <2> HIDE DEF c, fuel, w
  <2>4. QED
    BY <1>2, <2>1, <2>2, <2>3
<1>5. s \in Segments /\ s.fuel = fuel /\ s.refill = seg[c].refill
  <2>1. seg[c].depth + 1 \in Int
    BY <1>2
  <2> HIDE DEF fuel
  <2>2. QED
    BY <1>2, <1>3, <2>1, LeftOpenTyped
<1>6. CASE /\ fuel > 0
           /\ seg' = [seg EXCEPT ![c].fuel = fuel, ![c].depth = @ + 1]
           /\ owed' = [owed EXCEPT ![c] = Owes(c, 1)] /\ UNCHANGED <<stack, window>>
  <2>1. StackGood' /\ Here' = c
    BY <1>1, <1>6 DEF Bill, StackGood, Wasm, Here
  <2>2. seg' = [seg EXCEPT ![c] = s] /\ window' = [window EXCEPT ![c] = w]
    <3>1. seg \in [Counters -> Segments]
      BY DEF Bill, BillTyped
    <3>2. window' = [window EXCEPT ![c] = w]
      BY <1>2, <1>6, CounterKept
    <3> HIDE DEF c, fuel
    <3>3. QED
      BY <1>2, <1>6, <3>1, <3>2 DEF LeftOpen, Segments
  <2> HIDE DEF c, fuel, w, s
  <2>3. ASSUME stepBudget > 0
        PROVE  Owes(c, 1) = Drained(w, w.gen) + Drained(s, w.gen) /\ s.refill = Quantum /\ s.fuel > 0
    <3>1. Drained(s, w.gen) = Quantum - fuel
      BY <1>4, <1>5, <2>3 DEF Drained, FuelSpent
    <3>2. QED
      BY <1>4, <1>5, <1>6, <2>3, <3>1
  <2>4. s.fuel >= 0
    BY <1>3, <1>5
  <2>5. QED
    BY <1>1, <1>2, <1>4, <1>5, <1>6, <2>1, <2>2, <2>3, <2>4, CounterBills
<1>7. CASE Redo(c, w, fuel, Owes(c, 1))
  <2>1. stepBudget > 0 =>
          Owes(c, 1) = Drained(w, w.gen)
                       + (IF w.gen = budgetGen /\ seg[c].refill = Quantum THEN Quantum - fuel ELSE 0)
    BY <1>4
  <2> HIDE DEF fuel
  <2>2. QED
    BY <1>1, <1>2, <1>3, <1>7, <2>1, RedoBills
<1>8. QED
  BY <1>1, <1>6, <1>7

LEMMA SegDeoptBills ==
    ASSUME Bill, SegDeopt
    PROVE  Bill'
<1> DEFINE c == Here
           w == window[c]
<1>1. /\ c \in Counters /\ Native /\ Redo(c, w, seg[c].fuel, owed[c])
      /\ UNCHANGED <<tier, stepBudget, budgetGen, bulkRemainder, bulkOwed>>
  BY DEF SegDeopt, InSegment, InLoop
<1>2. /\ w \in Windows /\ w.fuel >= 0 /\ seg[c].fuel \in Int /\ seg[c].fuel >= 0 /\ owed[c] \in Int
  BY <1>1, CounterTyped
<1>3. stepBudget > 0 =>
        owed[c] = Drained(w, w.gen)
                  + (IF w.gen = budgetGen /\ seg[c].refill = Quantum THEN Quantum - seg[c].fuel ELSE 0)
  BY <1>1 DEF Bill, CountersGood, CounterGood, Drained, FuelSpent
<1>4. QED
  BY <1>1, <1>2, <1>3, RedoBills

\* Calls, returns and collections that leave the windows alone.
LEMMA PlainBills ==
    ASSUME Bill,
           InterpBackEdge \/ CallHost \/ Collect \/ ReturnCollecting \/ SegReturn \/ CollectorSwitch
           \/ (\E hook \in {"none", "live", "cancelled"} : SetCancelHook(hook))
           \/ (\E nbytes \in Pieces : Allocate(nbytes))
    PROVE  Bill'
<1>1. CASE InterpBackEdge
  <2>1. (Raise \/ stack' = stack) /\ tier' = tier
    BY <1>1 DEF InterpBackEdge
  <2>2. StackGood' /\ (HasLoop(stack') => HasLoop(stack)) /\ (InLoop' => InLoop /\ Here' = Here)
    <3>1. CASE Raise
      BY <2>1, <3>1, RaiseGood DEF Raise, Bill
    <3>2. CASE stack' = stack
      BY <2>1, <3>2 DEF Bill, StackGood, Wasm, InLoop, Here, Counters, Native
    <3>3. QED
      BY <2>1, <3>1, <3>2
  <2>3. QED
    BY <1>1, <2>2, Untouched DEF InterpBackEdge, history
<1>2. CASE CallHost \/ Collect
  <2>1. PICK kind \in {"host", "gc"} : stack' = Append(stack, kind)
    BY <1>2 DEF CallHost, Collect
  <2>2. tier' = tier /\ kind \in Kinds /\ kind # "safepoint" /\ kind # FuelWord
    BY <1>2, NoCounter DEF CallHost, Collect, Kinds
  <2>3. StackGood' /\ Here' = kind /\ (HasLoop(stack') => HasLoop(stack))
    BY <2>1, <2>2, AppendGood DEF Bill
  <2>4. ~InLoop'
    BY <2>2, <2>3, NoCounter DEF InLoop, Counters, Native
  <2>5. QED
    BY <1>2, <2>3, <2>4, Untouched DEF CallHost, Collect, budget, history
<1>3. CASE ReturnCollecting
  <2>1. /\ Len(stack) > 1 /\ stack' = [stack EXCEPT ![Len(stack)] = "gc"] /\ Here = "host"
        /\ UNCHANGED <<tier, budget, window, seg, history>>
    BY <1>3 DEF ReturnCollecting
  <2>2. /\ stack' \in Seq(Kinds) /\ Len(stack') = Len(stack) /\ DOMAIN stack' = DOMAIN stack
        /\ Len(stack) \in Nat /\ DOMAIN stack = 1 .. Len(stack)
        /\ \A i \in DOMAIN stack : stack'[i] = IF i = Len(stack) THEN "gc" ELSE stack[i]
    BY <2>1 DEF Bill, StackGood, Kinds
  <2>3. StackGood'
    <3>1. stack'[1] = "host" /\ Len(stack') >= 1
      BY <2>1, <2>2 DEF Bill, StackGood
    <3>2. ASSUME NEW i \in 2 .. Len(stack'), stack'[i] = "safepoint" PROVE Wasm' /\ stack'[i - 1] = FuelWord
      <4>1. i \in DOMAIN stack /\ i - 1 \in DOMAIN stack /\ i - 1 # Len(stack) /\ i # Len(stack)
        <5>1. i \in 2 .. Len(stack) /\ i - 1 \in 1 .. Len(stack) /\ i - 1 # Len(stack)
          BY <2>2
        <5>2. i \in DOMAIN stack /\ i - 1 \in DOMAIN stack
          BY <2>2, <5>1
        <5>3. stack'[i] # "gc"
          BY <3>2
        <5>4. QED
          BY <2>2, <5>1, <5>2, <5>3
      <4>2. stack[i] = "safepoint" /\ i \in 2 .. Len(stack)
        BY <2>2, <3>2, <4>1
      <4>3. QED
        BY <2>1, <2>2, <4>1, <4>2 DEF Bill, StackGood, Wasm
    <3>3. QED
      BY <2>2, <3>1, <3>2 DEF StackGood
  <2>4. Here' = "gc" /\ (HasLoop(stack') => HasLoop(stack))
    BY <2>1, <2>2, NoCounter DEF Here, HasLoop
  <2>5. ~InLoop'
    BY <2>1, <2>4, NoCounter DEF InLoop, Counters, Native
  <2>6. QED
    BY <2>1, <2>3, <2>4, <2>5, Untouched DEF budget, history
<1>4. CASE SegReturn
  <2> DEFINE c == Here
             s == [seg[c] EXCEPT !.depth = seg[c].depth - 1]
  <2>1. /\ seg' = [seg EXCEPT ![c] = s] /\ c \in Counters /\ seg \in [Counters -> Segments]
        /\ UNCHANGED <<tier, stack, budget, window, owed, bulkOwed>>
    BY <1>4 DEF SegReturn, InSegment, InLoop, Bill, BillTyped
  <2>2. s \in Segments /\ s.fuel = seg[c].fuel /\ s.refill = seg[c].refill
    <3>1. seg[c] \in Segments /\ seg[c].depth \in Int
      BY <2>1, CounterTyped
    <3> HIDE DEF c
    <3>2. QED
      BY <2>1, <3>1 DEF Segments
  <2>3. StackGood' /\ InLoop' = InLoop /\ Here' = Here
    BY <2>1 DEF Bill, StackGood, Wasm, Here, InLoop, Counters, Native
  <2> HIDE DEF c, s
  <2>4. seg' \in [Counters -> Segments]
    BY <2>1, <2>2
  <2>5. \A d \in Counters : seg'[d].fuel = seg[d].fuel /\ seg'[d].refill = seg[d].refill
    BY <2>1, <2>2
  <2>6. QED
    BY <2>1, <2>3, <2>4, <2>5, BillStays DEF Bill, BillTyped, BulkAddsUp, budget
<1>5. CASE CollectorSwitch \/ (\E hook \in {"none", "live", "cancelled"} : SetCancelHook(hook))
           \/ (\E nbytes \in Pieces : Allocate(nbytes))
  <2>1. UNCHANGED <<tier, stack, budget, window, seg, history>>
    BY <1>5 DEF CollectorSwitch, SetCancelHook, Allocate
  <2>2. StackGood' /\ InLoop' = InLoop /\ Here' = Here
    BY <2>1 DEF Bill, StackGood, Wasm, Here, InLoop, Counters, Native
  <2>3. QED
    BY <2>1, <2>2, Untouched DEF budget, history
<1>6. QED
  BY <1>1, <1>2, <1>3, <1>4, <1>5

LEMMA ReturnBills ==
    ASSUME Bill, Return \/ Collected
    PROVE  Bill'
<1>1. GoOn /\ UNCHANGED <<tier, stepBudget, budgetGen, bulkRemainder, bulkOwed>>
  BY DEF Return, Collected
<1>2. Len(stack) > 1
  BY DEF Return, Collected, Bill, StackGood, Here
<1>3. QED
  BY <1>1, <1>2, GoOnBills

LEMMA InitBill == Init => Bill
<1> SUFFICES ASSUME Init PROVE Bill
  OBVIOUS
<1> DEFINE w == IF Native THEN [fuel |-> Quantum, refill |-> Unlimited, gen |-> 0]
                          ELSE [fuel |-> 0, refill |-> 0, gen |-> 0]
           s == [fuel |-> 0, refill |-> 0, depth |-> 0]
<1>1. /\ tier \in {"wasm", "native"} /\ stack = <<"host">> /\ stepBudget = 0 /\ bulkRemainder = 0 /\ budgetGen = 0
      /\ window = [c \in Counters |-> w] /\ seg = [c \in Counters |-> s] /\ owed = [c \in Counters |-> 0]
      /\ bulkOwed = 0
  BY BillAssumption DEF Init
<1>2. w \in Windows /\ w.gen = 0 /\ (Wasm => w.fuel <= w.refill) /\ w.fuel >= 0
  BY <1>1, WindowAssumption DEF Windows, Wasm, Native
<1>3. s \in Segments /\ s.refill = 0 /\ s.fuel = 0
  BY DEF Segments
<1> HIDE DEF w, s
<1>4. BillTyped
  BY <1>1, <1>2, <1>3 DEF BillTyped
<1>5. StackGood
  BY <1>1 DEF StackGood, Kinds
<1>6. WasmOwned
  BY <1>1, <1>2, <1>3, NoCounter DEF WasmOwned
<1>7. CountersGood /\ NativeOwned /\ BulkAddsUp
  BY <1>1 DEF CountersGood, CounterGood, NativeOwned, BulkAddsUp
<1>8. QED
  BY <1>4, <1>5, <1>6, <1>7 DEF Bill

LEMMA NextBill ==
    ASSUME ~ReplaceUnderWasm
    PROVE  Bill /\ [Next]_vars => Bill'
<1> SUFFICES ASSUME Bill, [Next]_vars PROVE Bill'
  OBVIOUS
<1>1. CASE UNCHANGED vars
  <2>1. StackGood' /\ InLoop' = InLoop /\ Here' = Here
    BY <1>1 DEF vars, Bill, StackGood, Wasm, Here, InLoop, Counters, Native
  <2>2. QED
    BY <1>1, <2>1, Untouched DEF vars, budget, history
<1>2. CASE Host
  BY <1>2, SetStepBudgetBills, PlainBills DEF Host
<1>3. CASE Program
  BY <1>3, ChargeBills, CallBills, SegCallBills, SegDeoptBills, PlainBills DEF Program
<1>4. CASE Comeback
  BY <1>4, ReturnBills, SafepointCollectedBills, PlainBills DEF Comeback
<1>5. CASE BackEdge
  BY <1>5, WasmBackEdgeBills, NativeBackEdgeBills, PlainBills DEF BackEdge
<1>6. QED
  BY <1>1, <1>2, <1>3, <1>4, <1>5 DEF Next

-----------------------------------------------------------------------------
(***************************************************************************)
(* The pending word.                                                       *)
(***************************************************************************)
\* What the collector believes the word says is what it says, and what pacing says.
PendingInv == gcPendingLast = gcPendingNow /\ gcPending = gcPendingNow

LEMMA Updated ==
    ASSUME PendingInv, updateGCPending
    PROVE  PendingInv'
BY DEF PendingInv, updateGCPending, pending

\* Nothing that decides about a collection changes.
LEMMA Undisturbed ==
    ASSUME PendingInv, UNCHANGED <<bytesAllocSince, threshold, stopped, stressMode, gcPendingLast, gcPending>>
    PROVE  PendingInv'
BY DEF PendingInv, gcPendingNow

LEMMA PacingKeeps ==
    ASSUME PendingInv,
           UNCHANGED pacing \/ BeginCollect \/ EndCollect \/ (\E nbytes \in Pieces : AllocCharge(nbytes))
           \/ (\E on \in BOOLEAN : SetStopped(on) \/ SetStressMode(on))
    PROVE  PendingInv'
<1>1. CASE UNCHANGED pacing \/ BeginCollect
  BY <1>1, Undisturbed DEF BeginCollect, pacing, settings, pending
<1>2. CASE EndCollect \/ (\E nbytes \in Pieces : AllocCharge(nbytes))
           \/ (\E on \in BOOLEAN : SetStopped(on) \/ SetStressMode(on))
  BY <1>2, Updated DEF EndCollect, AllocCharge, SetStopped, SetStressMode
<1>3. QED
  BY <1>1, <1>2

LEMMA NextPending == PendingInv /\ [Next]_vars => PendingInv'
<1> SUFFICES ASSUME PendingInv, [Next]_vars PROVE PendingInv'
  OBVIOUS
<1>1. CASE UNCHANGED vars
  BY <1>1, PacingKeeps DEF vars
<1>2. CASE Host
  BY <1>2, PacingKeeps DEF Host, SetStepBudget, SetCancelHook, CollectorSwitch
<1>3. CASE Program
  BY <1>3, PacingKeeps DEF Program, chargeBulkWork, Call, CallHost, SegCall, SegReturn, SegDeopt, Allocate, Collect
<1>4. CASE Comeback
  BY <1>4, PacingKeeps DEF Comeback, Return, ReturnCollecting, Collected, SafepointCollected
<1>5. CASE BackEdge
  BY <1>5, PacingKeeps DEF BackEdge, InterpBackEdge, WasmBackEdge, NativeBackEdge
<1>6. QED
  BY <1>1, <1>2, <1>3, <1>4, <1>5 DEF Next

-----------------------------------------------------------------------------
(***************************************************************************)
(* The theorems.                                                           *)
(***************************************************************************)
\* The bill is right, and with it everything it rests on, as long as host code
\* that a wasm loop called leaves the budget alone (Safepoint does not ask whose
\* window it settles).
THEOREM BillAlways ==
    ASSUME ~ReplaceUnderWasm
    PROVE  Spec => []Bill
BY InitBill, NextBill, PTL DEF Spec

\* For every size of window and of step, any nesting of interpreter, compiled code,
\* host functions and finalizers, and any replacement of the budget: every step and
\* byte is billed to the owner it was done for, once.
THEOREM BillingAddsUpAlways ==
    ASSUME ~ReplaceUnderWasm
    PROVE  Spec => []BillingAddsUp
<1>1. Bill => BillingAddsUp
  BY DEF Bill, BulkAddsUp, CountersGood, CounterGood, BillingAddsUp
<1>2. QED
  BY <1>1, BillAlways, PTL

\* Whatever changes the pacing and whenever, the word compiled loops read says
\* whether a safepoint would collect.
THEOREM PendingAgreesAlways == Spec => []PendingAgrees
<1>1. Init => PendingInv
  <2> SUFFICES ASSUME Init PROVE PendingInv
    OBVIOUS
  <2>1. /\ bytesAllocSince = 0 /\ threshold \in 1 .. MaxSince /\ MaxSince \in Nat
        /\ stressMode = FALSE /\ gcPendingLast = FALSE /\ gcPending = FALSE
    BY PacingAssumption DEF Init, PacingInit
  <2>2. ~(bytesAllocSince >= threshold)
    BY <2>1
  <2>3. QED
    BY <2>1, <2>2 DEF PendingInv, gcPendingNow
<1>2. PendingInv => PendingAgrees
  BY DEF PendingInv, PendingAgrees
<1>3. QED
  BY <1>1, <1>2, NextPending, PTL DEF Spec
=============================================================================
