-------------------------------- MODULE Native --------------------------------
(***************************************************************************)
(* Native code at work: what internal/gibbous/jit/peroptranslator emits    *)
(* for amd64 (emit_amd64.go, emit_shim_amd64.go, emit_ops_amd64.go), the   *)
(* dispatcher that serves it (Run, translator_native_dispatch.go) and the  *)
(* caches of its call sites (call_ic.go).                                  *)
(*                                                                         *)
(* What the code cannot do itself it leaves to a helper: it exits, the     *)
(* dispatcher calls the helper, reads the stack's address again and        *)
(* resumes behind the instruction.  One piece of native code may also call *)
(* another directly, with no frame for the callee.  There is no exit then, *)
(* for the dispatcher works on the outermost caller's frame: an            *)
(* instruction that would exit gives up all direct calls instead, and the  *)
(* outermost caller makes its call again, through a helper.                *)
(*                                                                         *)
(* gib.calls are the callers, outermost first, whose direct call is under  *)
(* way; the rest of gib is about the callee at work.                       *)
(*                                                                         *)
(* A table access is taken for a hit whenever its cache may hold it        *)
(* (module InlineCache has the caches).  Left out: the fuel of back edges  *)
(* and direct calls (StepBudget), upvalues of other coroutines, math       *)
(* intrinsics, a host function that passes for the recorded callee and is  *)
(* not called directly.                                                    *)
(***************************************************************************)
EXTENDS Gibbous, Templates

CONSTANTS SegToSegDepthCap,  \* direct calls within each other (source: 128)
          HostFnID(_)        \* the number of a host function, by its name

ASSUME DepthCapAssumption == SegToSegDepthCap \in Nat

------------------------------------------------------------------------------
(* The code at work.                                                       *)

NativeOf(pid) == program.native[promoted.mono][pid]
SegProto(v) == Protos[Frame(v).gib.pid]
Depth(v) == Len(Frame(v).gib.calls)
Instr == SegProto(vm).code[Here(vm)]
InstrPc == Here(vm)

NativeEmitted(ops) ==
  /\ Running /\ NativeTier /\ Compiled(vm) /\ Frame(vm).gib.waits = "no"
  /\ NativeOf(Frame(vm).gib.pid).code = "native"
  /\ Instr.op \in ops
  /\ steps' = steps + 1
  /\ UNCHANGED <<program, promoted, stress>>

NextOp(v) == Continue(v, Here(v) + 1)
operandRK(v, x) == IF IsK(x) THEN SegProto(v).consts[-x] ELSE Load64(v, x)
constantOf(v, i) == SegProto(v).consts[i.b]

(* Back to the caller of a direct call, behind its CALL.                   *)
BackInCaller(v) ==
  LET n == Len(v.frames)
      calls == v.frames[n].gib.calls
      to == Last(calls)
  IN [v EXCEPT !.frames[n].gib = [@ EXCEPT
        !.at = to.at + 1, !.base = to.base, !.pid = to.pid, !.cl = to.cl,
        !.calls = SubSeq(calls, 1, Len(calls) - 1)]]

(* An exit to a helper that leaves v behind.  The word the code returns    *)
(* means an exit to the dispatcher, and nothing to the caller of a direct  *)
(* call: it goes on as if its callee had returned.                         *)
emitExitReason(v, done) == IF Depth(v) = 0 THEN done ELSE BackInCaller(v)
ExitReason(v, done) == emitExitReason(v, Resumed(done, Here(v) + 1))

------------------------------------------------------------------------------
(* Calls.                                                                  *)

(* The recorded callee of the call at hand, 0 if there is none.            *)
Site(v) == <<Frame(v).gib.pid, Here(v)>>
Recorded(v) == IF Site(v) \in DOMAIN v.ics THEN v.ics[Site(v)] ELSE 0

snapshotCallCallee(v, fn) == IF fn[1] = "fun" THEN v.clos[fn[2]].proto ELSE 0
populateCallIC(v) ==
  LET seen == Frame(v).gib.seen
  IN [v EXCEPT !.ics =
        (Site(v) :> IF Site(v) \in DOMAIN @ /\ @[Site(v)] # seen THEN 0 ELSE seen) @@ @]

(* The guard reads the number behind a closure's header: its prototype's,  *)
(* or the function's if it is a host function's closure.                   *)
closureWord(v, fn) == IF fn[1] = "host" THEN HostFnID(fn[2]) ELSE v.clos[fn[2]].proto - 1
GuardPasses(v, i) ==
  LET fn == Load64(v, i.a)
      callee == Protos[Recorded(v)]
  IN /\ IsFunction(fn)
     /\ Recorded(v) # 0 /\ closureWord(v, fn) + 1 = Recorded(v)
     /\ ~callee.vararg /\ ~callee.needsArg
     /\ callee.numparams = i.b - 1

seg2SegRetWidthOK(i, pid) == NativeOf(pid).width >= i.c - 1
CalledDirectly(v, i) ==
  LET pid == Recorded(v)
  IN /\ pid \in promoted.all /\ NativeOf(pid).direct /\ seg2SegRetWidthOK(i, pid)
     /\ Depth(v) < SegToSegDepthCap
     /\ Frame(v).gib.base + i.a + 1 + Protos[pid].maxstack <= v.origin + v.room

DirectCall(v, i) ==
  LET g == Frame(v).gib
      caller == [pid |-> g.pid, at |-> g.at, base |-> g.base, cl |-> g.cl]
  IN [v EXCEPT !.frames[Len(v.frames)].gib = [@ EXCEPT
        !.pid = Recorded(v), !.cl = Load64(v, i.a)[2], !.at = 1,
        !.base = g.base + i.a + 1, !.calls = Append(@, caller)]]

ExecutePlainCallInlineFrame(v, i, pc) == doCall(Waiting(Saved(v, pc), "plain"), i)
CallBaseline(v, i, pc) ==
  LET S == Waiting(Saved(v, pc), "call")
      seen == snapshotCallCallee(v, v.stack[At(v, i)])
  IN doCall([S EXCEPT !.frames[Len(v.frames)].gib.seen = seen], i)

(* All direct calls are given up, and the outermost caller's is made again.*)
Redone(v) ==
  LET n == Len(v.frames)
      top == v.frames[n].gib.calls[1]
      code == Protos[top.pid].code
      S == [v EXCEPT !.frames[n].gib = [@ EXCEPT
              !.at = top.at, !.base = top.base, !.pid = top.pid, !.cl = top.cl, !.calls = <<>>]]
  IN ExecutePlainCallInlineFrame(S, code[top.at], top.at)
emitSegCallDeoptGuard(v, done) == IF Depth(v) = 0 THEN done ELSE Redone(v)
ExitOrRedo(v, done) == emitSegCallDeoptGuard(v, Resumed(done, Here(v) + 1))

emitCALL ==
  /\ NativeEmitted({"CALL"})
  /\ vm' = IF GuardPasses(vm, Instr)
           THEN IF CalledDirectly(vm, Instr) THEN DirectCall(vm, Instr)
                ELSE emitSegCallDeoptGuard(vm, ExecutePlainCallInlineFrame(vm, Instr, InstrPc))
           ELSE emitSegCallDeoptGuard(vm, CallBaseline(vm, Instr, InstrPc))

(* Results go where the callee was, from there up.                         *)
emitReturnDualSemantics ==
  /\ NativeEmitted({"RETURN"})
  /\ LET results == [k \in 1..(Instr.b - 1) |-> Load64(vm, Instr.a + k - 1)]
     IN vm' = IF Depth(vm) > 0 THEN BackInCaller(PutAt(vm, Slot(vm, -1), results))
              ELSE LET S == JumpTo(vm, InstrPc)
                   IN returnFrom(S, At(S, Instr), CountFrom(S, At(S, Instr), Instr.b))

(* A call of the closure at work becomes a jump to its beginning, if the   *)
(* function makes no closures whose variables would have to be closed.     *)
SelfTailCall(v, i) ==
  /\ Load64(v, i.a) = Fun(Frame(v).gib.cl)
  /\ i.b - 1 <= SegProto(v).numparams
  /\ \A pc \in DOMAIN SegProto(v).code : SegProto(v).code[pc].op # "CLOSURE"
emitSelfTailCallLoop(v, i) ==
  LET args == [k \in 1..(i.b - 1) |-> Load64(v, i.a + k)]
  IN Continue(PutAt(v, Slot(v, 0), Pad(args, SegProto(v).maxstack)), 1)

emitTAILCALL ==
  /\ NativeEmitted({"TAILCALL"})
  /\ vm' = IF SelfTailCall(vm, Instr) THEN emitSelfTailCallLoop(vm, Instr)
           ELSE emitExitReason(vm, h_tailcall(vm, Instr, InstrPc))

(* The dispatcher's part after a call: the cache of a site that had        *)
(* nothing to go by is filled, and the code resumed; what a host function  *)
(* returned is returned by the RETURN that follows.                        *)
dispatchAfterCall ==
  /\ Running /\ NativeTier /\ Compiled(vm)
  /\ Frame(vm).gib.waits \in {"call", "plain", "tail"}
  /\ LET v == Waiting(vm, "no")
         ret == SegProto(vm).code[InstrPc + 1]
     IN vm' = CASE Frame(vm).gib.waits = "call" -> Resumed(populateCallIC(v), InstrPc + 1)
                [] Frame(vm).gib.waits = "plain" -> Resumed(v, InstrPc + 1)
                [] Frame(vm).gib.waits = "tail" ->
                     returnFrom(v, At(v, ret), CountFrom(v, At(v, ret), ret.b))
  /\ UNCHANGED <<program, promoted, stress, steps>>

------------------------------------------------------------------------------
(* Registers, constants and upvalues.                                      *)

emitMOVE ==
  NativeEmitted({"MOVE"}) /\ vm' = NextOp(Store64(vm, Instr.a, Load64(vm, Instr.b)))
emitLOADK ==
  NativeEmitted({"LOADK"}) /\ vm' = NextOp(Store64(vm, Instr.a, constantOf(vm, Instr)))

emitLOADBOOL ==
  /\ NativeEmitted({"LOADBOOL"})
  /\ vm' = Continue(Store64(vm, Instr.a, Bool(Instr.b # 0)),
                    InstrPc + IF Instr.c # 0 THEN 2 ELSE 1)

emitLOADNIL ==
  /\ NativeEmitted({"LOADNIL"})
  /\ vm' = NextOp(PutAt(vm, Slot(vm, Instr.a), Pad(<<>>, Instr.b - Instr.a + 1)))

emitGETUPVALInline ==
  /\ NativeEmitted({"GETUPVAL"})
  /\ LET up == vm.clos[Frame(vm).gib.cl].ups[Instr.b]
     IN vm' = NextOp(Store64(vm, Instr.a, UpvalGet(vm, up)))

emitSETUPVAL ==
  /\ NativeEmitted({"SETUPVAL"})
  /\ vm' = ExitReason(vm, h_setupval(vm, Instr, RegOf(vm, Instr.a)))

emitNOT ==
  /\ NativeEmitted({"NOT"})
  /\ vm' = NextOp(Store64(vm, Instr.a, Bool(~Truthy(Load64(vm, Instr.b)))))

------------------------------------------------------------------------------
(* Arithmetic and control.                                                 *)

emitARITH ==
  /\ NativeEmitted({"ADD", "SUB", "MUL", "DIV", "MOD", "POW"})
  /\ LET b == operandRK(vm, Instr.b)
         c == operandRK(vm, Instr.c)
         slow == h_arith(vm, Instr, InstrPc)
     IN vm' = IF Instr.op \in {"MOD", "POW"} THEN ExitReason(vm, slow)
              ELSE IF IsNumber(b) /\ IsNumber(c)
              THEN NextOp(Store64(vm, Instr.a, Computed(Instr.op, b, c)))
              ELSE ExitOrRedo(vm, slow)

emitUNM ==
  /\ NativeEmitted({"UNM"})
  /\ LET b == Load64(vm, Instr.b)
     IN vm' = IF IsNumber(b) THEN NextOp(Store64(vm, Instr.a, Num(-b[2])))
                             ELSE ExitReason(vm, h_unm(vm, Instr, InstrPc))

emitJMP == NativeEmitted({"JMP"}) /\ vm' = Continue(vm, Instr.b)

(* Equality is that of the words; the others are left to a helper unless   *)
(* both operands are numbers.                                              *)
Outcome(v, cond, i) == Continue(v, Here(v) + IF cond = (i.a # 0) THEN 1 ELSE 2)
emitCompareExitTail(v, i, pc) ==
  LET outcome == h_compare(v, i)
  IN emitSegCallDeoptGuard(v,
       IF outcome = <<>> THEN Raise(Saved(v, pc), Fault)
       ELSE Outcome(Rebased(v, Address(v)), outcome[1], i))

emitCompare ==
  /\ NativeEmitted({"EQ", "LT", "LE"})
  /\ LET b == operandRK(vm, Instr.b)
         c == operandRK(vm, Instr.c)
     IN vm' = IF Instr.op = "EQ" \/ (IsNumber(b) /\ IsNumber(c))
              THEN Outcome(vm, Holds(Instr.op, b, c), Instr)
              ELSE emitCompareExitTail(vm, Instr, InstrPc)

emitTEST ==
  /\ NativeEmitted({"TEST"})
  /\ vm' = Outcome(vm, Truthy(Load64(vm, Instr.a)) = (Instr.c # 0), [Instr EXCEPT !.a = 1])

emitTESTSET ==
  /\ NativeEmitted({"TESTSET"})
  /\ LET b == Load64(vm, Instr.b)
     IN vm' = IF Truthy(b) = (Instr.c # 0) THEN NextOp(Store64(vm, Instr.a, b))
                                           ELSE Continue(vm, InstrPc + 2)

emitFORPREP ==
  /\ NativeEmitted({"FORPREP"})
  /\ LET init == Load64(vm, Instr.a)
         step == Load64(vm, Instr.a + 2)
         slow == h_forprep(vm, Instr, InstrPc)
     IN vm' = IF \A r \in 0..2 : IsNumber(Load64(vm, Instr.a + r))
              THEN Continue(Store64(vm, Instr.a, Num(init[2] - step[2])), Instr.b)
              ELSE emitSegCallDeoptGuard(vm, Resumed(slow, Instr.b))

(* The index is written in any case, its copy for the body only if there   *)
(* is one more round.                                                      *)
emitFORLOOP ==
  /\ NativeEmitted({"FORLOOP"})
  /\ LET step == Load64(vm, Instr.a + 2)[2]
         idx == Load64(vm, Instr.a)[2] + step
         S == Store64(vm, Instr.a, Num(idx))
     IN vm' = IF Within(idx, Load64(vm, Instr.a + 1)[2], step)
              THEN Continue(Store64(S, Instr.a + 3, Num(idx)), Instr.b)
              ELSE NextOp(S)

emitTFORLOOP ==
  NativeEmitted({"TFORLOOP"}) /\ vm' = emitExitReason(vm, h_tforloop(vm, Instr, InstrPc))

------------------------------------------------------------------------------
(* Tables.                                                                 *)

(* What the inlined access finds, Nil if it misses.                        *)
Inlined(v, tbl, key, x) ==
  LET content == v.tabs[tbl[2]]
  IN IF /\ IsTable(tbl) /\ key # Nil
        /\ ICKind(SegProto(v), x) = "ArrayHit" =>
             IsNumber(key) /\ 1 <= key[2] /\ key[2] <= Border(content)
     THEN RawGet(content, key) ELSE Nil
InPlace(v, tbl, key, val) == [v EXCEPT !.tabs[tbl[2]] = RawSet(@, key, val)]

emitGETTABLE ==
  /\ NativeEmitted({"GETTABLE"})
  /\ LET val == Inlined(vm, Load64(vm, Instr.b), operandRK(vm, Instr.c), Instr.c)
         slow == h_gettable(vm, Instr, InstrPc)
     IN vm' = IF val # Nil THEN NextOp(Store64(vm, Instr.a, val))
              ELSE ExitOrRedo(vm, slow)

emitSETTABLE ==
  /\ NativeEmitted({"SETTABLE"})
  /\ LET tbl == Load64(vm, Instr.a)
         key == operandRK(vm, Instr.b)
         val == operandRK(vm, Instr.c)
     IN vm' = IF Inlined(vm, tbl, key, Instr.b) # Nil /\ val # Nil
              THEN NextOp(InPlace(vm, tbl, key, val))
              ELSE ExitReason(vm, h_settable(vm, Instr, InstrPc))

emitGETGLOBAL ==
  /\ NativeEmitted({"GETGLOBAL"})
  /\ LET val == RawGet(vm.tabs[1], constantOf(vm, Instr))
     IN vm' = IF val # Nil THEN NextOp(Store64(vm, Instr.a, val))
              ELSE ExitReason(vm, h_getglobal(vm, Instr, InstrPc))

emitSETGLOBAL ==
  /\ NativeEmitted({"SETGLOBAL"})
  /\ LET key == constantOf(vm, Instr)
         val == Load64(vm, Instr.a)
     IN vm' = IF RawGet(vm.tabs[1], key) # Nil /\ val # Nil
              THEN NextOp(InPlace(vm, Tab(1), key, val))
              ELSE ExitReason(vm, h_setglobal(vm, Instr, InstrPc))

emitSELF == NativeEmitted({"SELF"}) /\ vm' = ExitReason(vm, h_self(vm, Instr, InstrPc))
emitLEN == NativeEmitted({"LEN"}) /\ vm' = ExitReason(vm, h_len(vm, Instr, InstrPc))
emitCONCAT == NativeEmitted({"CONCAT"}) /\ vm' = ExitReason(vm, h_concat(vm, Instr, InstrPc))
emitNEWTABLE == NativeEmitted({"NEWTABLE"}) /\ vm' = ExitReason(vm, h_newtable(vm, Instr, InstrPc))
emitSETLIST == NativeEmitted({"SETLIST"}) /\ vm' = ExitReason(vm, h_setlist(vm, Instr, InstrPc))
emitCLOSE == NativeEmitted({"CLOSE"}) /\ vm' = ExitReason(vm, h_close(vm, Instr))

(* Resumed behind the words that belong to the instruction.                *)
emitCLOSURE ==
  /\ NativeEmitted({"CLOSURE"})
  /\ vm' = emitExitReason(vm, Resumed(h_closure(vm, Instr, InstrPc),
                                      nextRealPC(Protos, SegProto(vm), InstrPc)))

NativeNext ==
  \/ emitCALL \/ emitReturnDualSemantics \/ emitTAILCALL \/ dispatchAfterCall
  \/ emitMOVE \/ emitLOADK \/ emitLOADBOOL \/ emitLOADNIL
  \/ emitGETUPVALInline \/ emitSETUPVAL \/ emitNOT
  \/ emitARITH \/ emitUNM \/ emitJMP \/ emitCompare \/ emitTEST \/ emitTESTSET
  \/ emitFORPREP \/ emitFORLOOP \/ emitTFORLOOP
  \/ emitGETTABLE \/ emitSETTABLE \/ emitGETGLOBAL \/ emitSETGLOBAL \/ emitSELF
  \/ emitLEN \/ emitCONCAT \/ emitNEWTABLE \/ emitSETLIST \/ emitCLOSE \/ emitCLOSURE
=============================================================================
