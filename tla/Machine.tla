------------------------------- MODULE Machine -------------------------------
(***************************************************************************)
(* What the interpreter and compiled code share (internal/crescent:        *)
(* execute.go, call.go, frame.go, table.go, and the host-call parts of     *)
(* host.go and meta.go): the thread, its frames, the heap, host functions, *)
(* and what each instruction does to them.  Modules Interpreter and        *)
(* Gibbous say when it is done.                                            *)
(*                                                                         *)
(* vm is the running thread with the part of the heap it works on:         *)
(*   stack, top      the value stack and the first slot above it           *)
(*   room, origin    the slots of its segment and where the segment lies   *)
(*   frames          the call frames, the current one last                 *)
(*   open, maxOpen   th.openUvs, from slots to upvalues, and th.maxOpenIdx *)
(*   uvs, clos, tabs upvalues, Lua closures and tables by address; an      *)
(*                   address is never used again, so a reference to freed  *)
(*                   memory shows (next is the first address not used)     *)
(*   xfer            the transfer word: a base on its way between compiled *)
(*                   callee and compiled caller                            *)
(*   out, raised     what was printed; the error being raised, if any      *)
(*   done            the chunk returned or died                            *)
(* A fresh frame is one a Go function entered: "then" says which one and   *)
(* what it does with the results.  The Go stack is the fresh frames.       *)
(*   ics             the call sites of native code that were executed:     *)
(*                   the prototype found there, 0 if not always the same   *)
(* The frame of compiled code has its locals in "gib"; an interpreted one  *)
(* has none there.                                                         *)
(*                                                                         *)
(* Left out: metatables, inline caches (module InlineCache), coroutines    *)
(* (Coroutines), the step budget (StepBudget), depth limits, numbers made  *)
(* of strings, the order of strings.  Every runtime error is one value.    *)
(* pcall is not itself called by pcall or by a for loop.                   *)
(***************************************************************************)
EXTENDS Codegen, Reference, Upvalues

CONSTANTS Programs,   \* a sequence of syntax trees
          Build(_),   \* what is made of one of them: [ok, protos, wasm, native,
                      \* meaning], the main prototype last, with the code the wasm
                      \* tier has for each, what the native compiler made of it and
                      \* what is to be expected
          Promotions(_),  \* the ways to promote its functions, a set of
                          \* [tier, all, slotted, mono]
          StackSize,  \* slots modelled, enough for every program
          InitialStack, \* slots of the first segment of the stack (source: 64)
          StackSlack, \* a segment has this many more than needed (source: 8)
          MaxReturnFast, \* results compiled code copies itself (source: 8)
          StepLimit   \* instructions, enough for every program

VARIABLES program,  \* the loaded program
          promoted, \* .all: functions whose calls enter code of the .tier built in,
                    \* .slotted: those the wasm tier's shared table has,
                    \* .mono: each access had found one table before
          stress,   \* collect at every safepoint, or only when asked to
          steps,    \* instructions executed
          vm

vars == <<program, promoted, stress, steps, vm>>

Protos == program.protos
Slots == 0..(StackSize - 1)

ProtoOf(f) == Protos[f.proto]
Frame(v) == v.frames[Len(v.frames)]
ProtoNow(v) == ProtoOf(Frame(v))

------------------------------------------------------------------------------
(* Registers and the heap.                                                 *)

RegOf(v, r) == v.stack[Frame(v).base + r]
RKOf(v, x) == IF IsK(x) THEN ProtoNow(v).consts[-x] ELSE RegOf(v, x)

PutAt(v, at, vals) ==
  [v EXCEPT !.stack = [i \in Slots |->
     IF i - at + 1 \in DOMAIN vals THEN vals[i - at + 1] ELSE @[i]]]
SetReg(v, r, val) == [v EXCEPT !.stack[Frame(v).base + r] = val]
SliceOf(v, from, n) == [i \in 1..n |-> v.stack[from + i - 1]]
SetTop(v, top) == [v EXCEPT !.top = top]
FrameTop(v) == SetTop(v, Frame(v).base + ProtoNow(v).maxstack)
Pad(vals, n) == [i \in 1..n |-> Nth(vals, i)]

(* A larger segment lies elsewhere, has what was below top and, above it,  *)
(* whatever was there before.  Segments are far apart.                     *)
Junk == <<"junk">>
SegmentStride == 1000
growStack(v, need) ==
  [v EXCEPT !.stack = [i \in Slots |-> IF i < v.top THEN @[i] ELSE Junk],
            !.room = IF 2 * @ > need + StackSlack THEN 2 * @ ELSE need + StackSlack,
            !.origin = @ + SegmentStride]
ensureStack(v, n) == IF n > v.room THEN growStack(v, n) ELSE v

JumpTo(v, pc) == [v EXCEPT !.frames[Len(v.frames)].pc = pc]
Skip(v) == JumpTo(v, Frame(v).pc + 1)
SkipIf(v, cond) == IF cond THEN Skip(v) ELSE v

Raise(v, err) == [v EXCEPT !.raised = <<err>>]

Running == ~vm.done /\ vm.raised = <<>>

IsFunction(val) == val[1] \in {"fun", "host"}
IsTable(val) == val[1] = "tab"

------------------------------------------------------------------------------
(* Collection: the roots are the stack below top, the closures of the      *)
(* frames, the open upvalues, the globals (table 1) and the loaded chunk   *)
(* (closure 1); the slots above top are cleared.                           *)

IsObject(x) == x[1] \in {"tab", "fun", "uv"}

OpenValue(v, i) == IF i >= v.top THEN Nil ELSE v.stack[i]
RefsOf(v, x) ==
  CASE x[1] = "tab" -> DOMAIN v.tabs[x[2]] \cup Range(v.tabs[x[2]])
    [] x[1] = "fun" -> {<<"uv", u>> : u \in Range(v.clos[x[2]].ups)}
    [] x[1] = "uv" -> {IF v.uvs[x[2]].open THEN OpenValue(v, v.uvs[x[2]].idx)
                                           ELSE v.uvs[x[2]].val}

RECURSIVE Mark(_, _, _)
Mark(v, grey, black) ==
  IF grey = {} THEN black
  ELSE LET seen == black \cup grey
       IN Mark(v, {x \in UNION {RefsOf(v, g) : g \in grey} : IsObject(x)} \ seen, seen)

Roots(v) ==
  {x \in {v.stack[i] : i \in {j \in Slots : j < v.top}} : IsObject(x)}
    \cup {Fun(v.frames[i].cl) : i \in DOMAIN v.frames}
    \cup {<<"uv", u>> : u \in Range(v.open)}
    \cup {Tab(1), Fun(1)}

CollectBelowTop(v) ==
  LET live == Mark(v, Roots(v), {})
      kept(sort, objs) == Restrict(objs, {a \in DOMAIN objs : <<sort, a>> \in live})
  IN [v EXCEPT !.tabs = kept("tab", @), !.clos = kept("fun", @), !.uvs = kept("uv", @)]

Collect(v) ==
  LET live == Mark(v, Roots(v), {})
      kept(sort, objs) == Restrict(objs, {a \in DOMAIN objs : <<sort, a>> \in live})
  IN [v EXCEPT !.tabs = kept("tab", @), !.clos = kept("fun", @),
               !.uvs = kept("uv", @),
               !.stack = [i \in Slots |-> IF i < v.top THEN @[i] ELSE Nil]]

Safepoint(v) == IF stress THEN Collect(v) ELSE v

------------------------------------------------------------------------------
(* Frames.                                                                 *)

Interpreted == [k |-> "none"]

(* A vararg function's extra arguments go below its base, its fixed        *)
(* parameters move up behind them, and the registers above are cleared.    *)
enterLuaFrame(v, funcIdx, nargs, nresults, fresh, then) ==
  LET cl == v.stack[funcIdx][2]
      pid == v.clos[cl].proto
      P == Protos[pid]
      nva == IF P.vararg /\ nargs > P.numparams THEN nargs - P.numparams ELSE 0
      base == funcIdx + 1 + nva
      given == IF nargs < P.numparams THEN nargs ELSE P.numparams
      fixed == SliceOf(v, funcIdx + 1, given)
      extra == SliceOf(v, funcIdx + 1 + P.numparams, nva)
      G == ensureStack(v, base + P.maxstack)
      A == IF P.needsArg
           THEN [G EXCEPT !.tabs = (v.next :> ArgTable(extra)) @@ @, !.next = @ + 1]
           ELSE G
      regs == Pad(fixed, P.numparams)
                \o (IF P.needsArg THEN <<Tab(v.next)>> ELSE <<>>)
      S == PutAt(A, funcIdx + 1, extra \o Pad(regs, P.maxstack))
      f == [base |-> base, func |-> funcIdx, proto |-> pid, cl |-> cl,
            nresults |-> nresults, fresh |-> fresh, pc |-> 1, nva |-> nva,
            then |-> then, gib |-> <<>>]
  IN SetTop([S EXCEPT !.frames = Append(@, f)], base + P.maxstack)

popCallInfo(v) == [v EXCEPT !.frames = SubSeq(@, 1, Len(@) - 1)]

(* The locals of compiled code: the next item of the body, $base, the top  *)
(* saved by the prologue, and what the frame is waiting for, if it called. *)
Compiled(v) == Frame(v).gib # <<>>
Here(v) == Frame(v).gib.at
CodeOf(v) == program.wasm[Frame(v).proto]
NextItem(v) == CodeOf(v).next[Here(v)]
OtherArm(v) == CodeOf(v).other[Here(v)]
Continue(v, at) == [v EXCEPT !.frames[Len(v.frames)].gib.at = at]
Address(v) == v.origin + Frame(v).base
Rebased(v, base) == [v EXCEPT !.frames[Len(v.frames)].gib.base = base]

emitPrologue(v) ==
  [v EXCEPT !.frames[Len(v.frames)].gib =
     [at |-> CodeOf(v).start, base |-> Address(v), top |-> v.top, waits |-> "no"]]

(* Native code: the next instruction, the address of its registers, the    *)
(* prototype and closure at work, the callers among native code that are   *)
(* not in a frame of their own, and what a helper was given to note.       *)
enterNative(v) ==
  [v EXCEPT !.frames[Len(v.frames)].gib =
     [at |-> 1, base |-> Address(v), pid |-> Frame(v).proto, cl |-> Frame(v).cl,
      calls |-> <<>>, waits |-> "no", seen |-> 0]]
Resumed(v, at) == Rebased(Continue(v, at), Address(v))

NativeTier == promoted.tier = "native"
enterGibbous(v, funcIdx, nargs, nresults) ==
  LET E == enterLuaFrame(v, funcIdx, nargs, nresults, FALSE, Interpreted)
  IN IF NativeTier THEN enterNative(E) ELSE emitPrologue(E)

------------------------------------------------------------------------------
(* Host functions (host.go:348-410, meta.go:309-425).                      *)

(* What callHost does with the results of the host function.               *)
HostResults(v, dst, results, nresults) ==
  LET G == ensureStack(v, dst + IF nresults < 0 THEN Len(results) ELSE nresults)
      F == FrameTop(PutAt(G, dst, Pad(results, nresults)))
  IN Safepoint(IF nresults < 0
               THEN SetTop(PutAt(G, dst, results), dst + Len(results))
               ELSE F)

(* What TFORLOOP does next.  Compiled code reads its base again before it  *)
(* enters the body, native code always.                                    *)
LoopGoesOn(v) ==
  CASE ~Compiled(v) -> v
    [] Compiled(v) /\ ~NativeTier -> Resumed(v, OtherArm(v))
    [] Compiled(v) /\ NativeTier -> Resumed(v, Here(v) + 1)
LoopEnds(v) ==
  CASE ~Compiled(v) -> Skip(v)
    [] Compiled(v) /\ ~NativeTier -> Continue(v, NextItem(v))
    [] Compiled(v) /\ NativeTier -> Resumed(v, Here(v) + 2)

(* The Go function a fresh frame was entered from goes on.                 *)
HostReturns(v, then, results) ==
  LET a == then.dst
      T == PutAt(v, a + 3, Pad(results, then.n))
  IN CASE then.k = "pcall" ->
            HostResults(v, a, <<Bool(TRUE)>> \o results, then.n)
       [] then.k = "tforloop" ->
            IF First(results) # Nil
            THEN LoopGoesOn([T EXCEPT !.stack[a + 2] = results[1]])
            ELSE LoopEnds(T)
       [] then.k = "main" -> [v EXCEPT !.done = TRUE]

HostFails(v, then, err) ==
  CASE then.k = "pcall" -> HostResults(v, then.dst, <<Bool(FALSE), err>>, then.n)
    [] then.k = "tforloop" -> Raise(v, err)
    [] then.k = "main" -> [closeUpvals(v, 0) EXCEPT !.raised = <<err>>, !.done = TRUE]

(* A host function that calls no function back: [v, results, ok].          *)
HostCall(v, name, args) ==
  LET ret(w, r) == [v |-> w, results |-> r, ok |-> TRUE]
      content == v.tabs[args[1][2]]
      i == Num(args[2][2] + 1)
  IN CASE name = "print" -> ret([v EXCEPT !.out = Append(@, Line(args))], <<>>)
       [] name = "collect" -> ret(Collect(v), <<>>)
       [] name = "iter" ->
            ret(v, IF RawGet(content, i) = Nil THEN <<Nil>>
                   ELSE <<i, RawGet(content, i)>>)
       [] name = "error" -> [v |-> v, results |-> <<First(args)>>, ok |-> FALSE]

callLuaFromHostNamed(v, fn, args, then) ==
  LET at == v.top
      need == at + 1 + Len(args)
      S == SetTop(PutAt(ensureStack(v, need), at, <<fn>> \o args), need)
      r == HostCall(S, fn[2], args)
      R == HostResults(r.v, at, r.results, -1)
  IN CASE fn[1] = "fun" -> enterLuaFrame(S, at, Len(args), -1, TRUE, then)
       [] fn[1] = "host" /\ r.ok ->
            HostReturns(SetTop(R, at), then, SliceOf(R, at, R.top - at))
       [] fn[1] = "host" /\ ~r.ok -> HostFails(r.v, then, r.results[1])
       [] ~IsFunction(fn) -> HostFails(v, then, Fault)

callHost(v, funcIdx, nargs, nresults) ==
  LET name == v.stack[funcIdx][2]
      args == SliceOf(v, funcIdx + 1, nargs)
      S == SetTop(v, funcIdx + 1 + nargs)
      r == HostCall(S, name, args)
  IN IF name = "pcall"
     THEN callLuaFromHostNamed(S, First(args), Tail(args),
            [k |-> "pcall", dst |-> funcIdx, n |-> nresults])
     ELSE IF r.ok THEN HostResults(r.v, funcIdx, r.results, nresults)
     ELSE Raise(r.v, r.results[1])

------------------------------------------------------------------------------
(* What an instruction does, i being the instruction and v the state after *)
(* it was fetched.                                                         *)

Upvalue(v, i) == v.clos[Frame(v).cl].ups[i]

getGlobal(v, i) == SetReg(v, i.a, RawGet(v.tabs[1], ProtoNow(v).consts[i.b]))
setGlobal(v, i) ==
  Safepoint([v EXCEPT !.tabs[1] = RawSet(@, ProtoNow(v).consts[i.b], RegOf(v, i.a))])

getTable(v, i) ==
  LET tbl == RegOf(v, i.b)
  IN IF IsTable(tbl) THEN SetReg(v, i.a, RawGet(v.tabs[tbl[2]], RKOf(v, i.c)))
                     ELSE Raise(v, Fault)

(* The receiver is copied before the key is read.                          *)
self(v, i) ==
  LET tbl == RegOf(v, i.b)
      S == SetReg(v, i.a + 1, tbl)
  IN IF IsTable(tbl) THEN SetReg(S, i.a, RawGet(v.tabs[tbl[2]], RKOf(S, i.c)))
                     ELSE Raise(S, Fault)

setTable(v, i) ==
  LET tbl == RegOf(v, i.a)
      key == RKOf(v, i.b)
  IN IF ~IsTable(tbl) \/ key = Nil THEN Raise(v, Fault)
     ELSE Safepoint([v EXCEPT !.tabs[tbl[2]] = RawSet(@, key, RKOf(v, i.c))])

newTable(v, i) ==
  Safepoint(SetReg([v EXCEPT !.tabs = (v.next :> <<>>) @@ @, !.next = @ + 1], i.a, Tab(v.next)))

OperatorOf == [o \in Range(ArithOpcode) |-> CHOOSE s \in ArithOps : ArithOpcode[s] = o]
Computed(op, b, c) == Num(Arith(OperatorOf[op], b[2], c[2]))
doArith(v, i) ==
  LET b == RKOf(v, i.b)
      c == RKOf(v, i.c)
  IN IF IsNumber(b) /\ IsNumber(c) THEN SetReg(v, i.a, Computed(i.op, b, c))
                                   ELSE Raise(v, Fault)

unm(v, i) ==
  LET b == RegOf(v, i.b)
  IN IF IsNumber(b) THEN SetReg(v, i.a, Num(-b[2])) ELSE Raise(v, Fault)

length(v, i) ==
  LET b == RegOf(v, i.b)
  IN IF IsTable(b) THEN SetReg(v, i.a, Num(Border(v.tabs[b[2]]))) ELSE Raise(v, Fault)

(* The parts are joined at once when all are plain, else from the right up *)
(* to the first that cannot be: without metatables that is an error.       *)
doConcat(v, i) ==
  LET parts == SliceOf(v, Frame(v).base + i.b, i.c - i.b + 1)
      joined[k \in 1..Len(parts)] ==
        IF k = 1 THEN ToStr(parts[1]) ELSE joined[k - 1] \o ToStr(parts[k])
  IN IF \A k \in DOMAIN parts : Plain(parts[k])
     THEN Safepoint(SetReg(v, i.a, Str(joined[Len(parts)])))
     ELSE Raise(v, Fault)

(* What a comparison of two values says, if they can be compared.          *)
Comparable(op, b, c) == op = "EQ" \/ (IsNumber(b) /\ IsNumber(c))
Holds(op, b, c) ==
  CASE op = "EQ" -> b = c
    [] op = "LT" -> b[2] < c[2]
    [] op = "LE" -> b[2] <= c[2]

forPrep(v, i) ==
  LET init == RegOf(v, i.a)
      step == RegOf(v, i.a + 2)
  IN IF IsNumber(init) /\ IsNumber(RegOf(v, i.a + 1)) /\ IsNumber(step)
     THEN SetReg(v, i.a, Num(init[2] - step[2]))
     ELSE Raise(v, Fault)

Within(idx, limit, step) == IF step > 0 THEN idx <= limit ELSE idx >= limit

tForLoop(v, i) ==
  callLuaFromHostNamed(v, RegOf(v, i.a), <<RegOf(v, i.a + 1), RegOf(v, i.a + 2)>>,
    [k |-> "tforloop", dst |-> Frame(v).base + i.a, n |-> i.c])

doSetList(v, i) ==
  LET at == Frame(v).base + i.a
      word == i.c = 0
      batch == IF word THEN ProtoNow(v).code[Frame(v).pc].a ELSE i.c
      n == IF i.b = 0 THEN v.top - at - 1 ELSE i.b
      from == (batch - 1) * FieldsPerFlush
      given == {k \in 1..n : v.stack[at + k] # Nil}
      Store(content) ==
        [k \in {Num(from + j) : j \in given} |-> v.stack[at + k[2] - from]]
          @@ Restrict(content, DOMAIN content \ {Num(from + j) : j \in 1..n})
      W == SkipIf([v EXCEPT !.tabs[v.stack[at][2]] = Store(@)], word)
  IN Safepoint(IF i.b = 0 THEN FrameTop(W) ELSE W)

(* The words after CLOSURE say where each upvalue comes from.              *)
RECURSIVE captureUpvals(_, _, _)
captureUpvals(v, words, ups) ==
  IF words = <<>> THEN [v |-> v, ups |-> ups]
  ELSE LET slot == Frame(v).base + words[1].b
           C == findOrCreateUpval(v, slot)
       IN IF words[1].op = "MOVE"
          THEN captureUpvals(C, Tail(words), Append(ups, C.open[slot]))
          ELSE captureUpvals(v, Tail(words), Append(ups, Upvalue(v, words[1].b)))

makeClosure(v, i) ==
  LET pid == ProtoNow(v).kids[i.b]
      pc == Frame(v).pc
      n == Len(Protos[pid].upvals)
      M == captureUpvals([v EXCEPT !.next = @ + 1],
                         SubSeq(ProtoNow(v).code, pc, pc + n - 1), <<>>)
      C == [M.v EXCEPT !.clos = (v.next :> [proto |-> pid, ups |-> M.ups]) @@ @]
  IN Safepoint(SetReg(JumpTo(C, pc + n), i.a, Fun(v.next)))

------------------------------------------------------------------------------
(* Calls and returns.                                                      *)

(* With B = 0 the arguments (or results) reach up to top.                  *)
CountFrom(v, at, b) == IF b = 0 THEN v.top - at ELSE b - 1
At(v, i) == Frame(v).base + i.a

(* Whether a call of the value enters compiled code.                       *)
Promoted(v, fn, set) == fn[1] = "fun" /\ v.clos[fn[2]].proto \in set

doCall(v, i) ==
  LET at == At(v, i)
      fn == v.stack[at]
      nargs == CountFrom(v, at + 1, i.b)
  IN CASE Promoted(v, fn, promoted.all) -> enterGibbous(v, at, nargs, i.c - 1)
       [] fn[1] = "fun" /\ ~Promoted(v, fn, promoted.all) ->
            enterLuaFrame(v, at, nargs, i.c - 1, FALSE, Interpreted)
       [] fn[1] = "host" -> callHost(v, at, nargs, i.c - 1)
       [] OTHER -> Raise(v, Fault)

(* A Lua callee takes over the caller's frame, after the caller's upvalues *)
(* are closed, and is interpreted; a host callee's results are returned by *)
(* the RETURN that follows.                                                *)
tailFrame(v, at, nargs) ==
  LET f == Frame(v)
      C == closeUpvals(v, f.base)
      M == PutAt(C, f.func, SliceOf(C, at, nargs + 1))
  IN enterLuaFrame(popCallInfo(M), f.func, nargs, f.nresults, f.fresh, f.then)

doTailCall(v, i) ==
  LET at == At(v, i)
      nargs == CountFrom(v, at + 1, i.b)
  IN CASE v.stack[at][1] = "fun" -> tailFrame(v, at, nargs)
       [] v.stack[at][1] = "host" -> callHost(v, at, nargs, -1)
       [] OTHER -> Raise(v, Fault)

returnFrom(v, src, nret) ==
  LET f == Frame(v)
      C == closeUpvals(v, f.base)
      P == popCallInfo(PutAt(C, f.func, SliceOf(C, src, nret)))
      K == popCallInfo(PutAt(C, f.func, Pad(SliceOf(C, src, nret), f.nresults)))
  IN IF f.fresh THEN HostReturns(SetTop(P, f.func), f.then, SliceOf(C, src, nret))
     ELSE IF f.nresults < 0 THEN SetTop(P, f.func + nret)
     ELSE FrameTop(IF nret < f.nresults THEN K ELSE P)

(* An error leaves the Lua frames up to the one a Go function entered: the *)
(* open upvalues of those frames are closed before the frames go, and the  *)
(* Go function is told.                                                    *)
unwound(v) ==
  LET entries == {i \in DOMAIN v.frames : v.frames[i].fresh}
      e == CHOOSE i \in entries : \A j \in entries : j <= i
      f == v.frames[e]
      C == closeUpvals(v, f.func)
      T == SetTop([C EXCEPT !.frames = SubSeq(@, 1, e - 1), !.raised = <<>>], f.func)
  IN IF f.then.k = "main" THEN HostFails(v, f.then, v.raised[1])
     ELSE HostFails(T, f.then, v.raised[1])
=============================================================================
