------------------------------- MODULE Gibbous -------------------------------
(***************************************************************************)
(* Compiled functions at work: the code that internal/gibbous/wasm emits   *)
(* (translate.go, translate_control.go, translate_table.go and             *)
(* translate_closure.go) and the helpers it calls (the host module of      *)
(* compiler.go, implemented in internal/crescent/gibbous_host.go).         *)
(*                                                                         *)
(* Emitted code works on the stack's memory through the local $base, an    *)
(* address; a helper works on the frame's base, a slot.  The two agree as  *)
(* long as the code reads $base again after every call that may have moved *)
(* the stack or lost the local: from the transfer word after a call of     *)
(* compiled code, from the helper's result after any other.                *)
(* A helper is named as the host module names it; it takes the state, the  *)
(* instruction and its pc.                                                 *)
(*                                                                         *)
(* Left out: what is inlined when the type feedback names a table (module  *)
(* InlineCache), the step budget of back edges (StepBudget).               *)
(***************************************************************************)
EXTENDS Machine

------------------------------------------------------------------------------
(* The helpers.                                                            *)

Saved(v, pc) == JumpTo(v, pc + 1)

h_getupval(v, i) == UpvalGet(v, Upvalue(v, i.b))
h_setupval(v, i, val) == UpvalSet(v, Upvalue(v, i.b), val)
h_arith(v, i, pc) == doArith(Saved(v, pc), i)
h_unm(v, i, pc) == unm(Saved(v, pc), i)
h_len(v, i, pc) == length(Saved(v, pc), i)
h_concat(v, i, pc) == doConcat(Saved(v, pc), i)
h_gettable(v, i, pc) == getTable(Saved(v, pc), i)
h_settable(v, i, pc) == setTable(Saved(v, pc), i)
h_getglobal(v, i, pc) == getGlobal(Saved(v, pc), i)
h_setglobal(v, i, pc) == setGlobal(Saved(v, pc), i)
h_self(v, i, pc) == self(Saved(v, pc), i)
h_newtable(v, i, pc) == newTable(Saved(v, pc), i)
h_setlist(v, i, pc) == doSetList(Saved(v, pc), i)
h_closure(v, i, pc) == makeClosure(Saved(v, pc), i)
h_close(v, i) == closeUpvals(v, At(v, i))
h_forprep(v, i, pc) == forPrep(Saved(v, pc), i)
h_tforloop(v, i, pc) == tForLoop(Saved(v, pc), i)
h_safepoint(v) == Safepoint(v)

(* The outcome of a comparison, none if the values cannot be compared.     *)
h_compare(v, i) ==
  LET b == RKOf(v, i.b)
      c == RKOf(v, i.c)
  IN IF Comparable(i.op, b, c) THEN <<Holds(i.op, b, c)>> ELSE <<>>

Waiting(v, what) == [v EXCEPT !.frames[Len(v.frames)].gib.waits = what]

(* A compiled callee the shared table has is entered by the caller's own   *)
(* call_indirect, once its frame is built; the transfer word is its base.  *)
tryIndirectCallee(v, i) ==
  LET at == At(v, i)
      E == enterGibbous(Waiting(v, "indirect"), at, CountFrom(v, at + 1, i.b), i.c - 1)
  IN [E EXCEPT !.xfer = Address(E)]

(* Any other callee runs to its end before the helper returns.             *)
h_call(v, i, pc) ==
  LET S == Saved(v, pc)
  IN IF Promoted(S, S.stack[At(S, i)], promoted.slotted) THEN tryIndirectCallee(S, i)
     ELSE doCall(Waiting(S, "helper"), i)

h_tailcall(v, i, pc) == doTailCall(Waiting(Saved(v, pc), "tail"), i)

(* The caller's base goes into the transfer word.                          *)
h_return(v, src, b, pc) ==
  LET R == returnFrom(JumpTo(v, pc), src, CountFrom(v, src, b))
  IN [R EXCEPT !.xfer = Address(R)]

------------------------------------------------------------------------------
(* Emitted code: one action per kind of item.                              *)

Current == CodeOf(vm).items[Here(vm)]
Pc == Current.pc
Code == ProtoNow(vm).code[Pc]
Emitted(kind, ops) ==
  /\ Running /\ ~NativeTier /\ Compiled(vm) /\ Frame(vm).gib.waits = "no"
  /\ Current.k = kind /\ Code.op \in ops
  /\ steps' = steps + 1
  /\ UNCHANGED <<program, promoted, stress>>

Onward(v) == Continue(v, NextItem(v))
Branch(v, cond) == Continue(v, IF cond THEN NextItem(v) ELSE OtherArm(v))

(* Memory at $base.                                                        *)
Slot(v, r) == Frame(v).gib.base - v.origin + r
Load64(v, r) == IF Slot(v, r) \in Slots THEN v.stack[Slot(v, r)] ELSE Junk
Store64(v, r, val) == [v EXCEPT !.stack = [@ EXCEPT ![Slot(v, r)] = val]]
loadRK(v, x) == IF IsK(x) THEN ProtoNow(v).consts[-x] ELSE Load64(v, x)

emitMove ==
  /\ Emitted("ins", {"MOVE"})
  /\ vm' = Onward(Store64(vm, Code.a, Load64(vm, Code.b)))

emitLoadK ==
  Emitted("ins", {"LOADK"}) /\ vm' = Onward(Store64(vm, Code.a, ProtoNow(vm).consts[Code.b]))
emitLoadBool ==
  Emitted("ins", {"LOADBOOL"}) /\ vm' = Onward(Store64(vm, Code.a, Bool(Code.b # 0)))

emitLoadNil ==
  /\ Emitted("ins", {"LOADNIL"})
  /\ vm' = Onward(PutAt(vm, Slot(vm, Code.a), Pad(<<>>, Code.b - Code.a + 1)))

emitGetUpval ==
  Emitted("ins", {"GETUPVAL"}) /\ vm' = Onward(Store64(vm, Code.a, h_getupval(vm, Code)))
emitSetUpval ==
  Emitted("ins", {"SETUPVAL"}) /\ vm' = Onward(h_setupval(vm, Code, Load64(vm, Code.a)))

emitArith ==
  /\ Emitted("ins", {"ADD", "SUB", "MUL", "DIV", "MOD", "POW"})
  /\ LET b == loadRK(vm, Code.b)
         c == loadRK(vm, Code.c)
     IN vm' = Onward(IF Code.op # "POW" /\ IsNumber(b) /\ IsNumber(c)
                     THEN Store64(vm, Code.a, Computed(Code.op, b, c))
                     ELSE h_arith(vm, Code, Pc))

emitUnm ==
  /\ Emitted("ins", {"UNM"})
  /\ LET b == Load64(vm, Code.b)
     IN vm' = Onward(IF IsNumber(b) THEN Store64(vm, Code.a, Num(-b[2]))
                                    ELSE h_unm(vm, Code, Pc))

emitNot ==
  /\ Emitted("ins", {"NOT"})
  /\ vm' = Onward(Store64(vm, Code.a, Bool(~Truthy(Load64(vm, Code.b)))))

emitLen == Emitted("ins", {"LEN"}) /\ vm' = Onward(h_len(vm, Code, Pc))
emitConcat == Emitted("ins", {"CONCAT"}) /\ vm' = Onward(h_concat(vm, Code, Pc))
emitGetGlobal == Emitted("ins", {"GETGLOBAL"}) /\ vm' = Onward(h_getglobal(vm, Code, Pc))
emitSetGlobal == Emitted("ins", {"SETGLOBAL"}) /\ vm' = Onward(h_setglobal(vm, Code, Pc))
emitGetTable == Emitted("ins", {"GETTABLE"}) /\ vm' = Onward(h_gettable(vm, Code, Pc))
emitSetTable == Emitted("ins", {"SETTABLE"}) /\ vm' = Onward(h_settable(vm, Code, Pc))
emitNewTable == Emitted("ins", {"NEWTABLE"}) /\ vm' = Onward(h_newtable(vm, Code, Pc))
emitSetListOp == Emitted("ins", {"SETLIST"}) /\ vm' = Onward(h_setlist(vm, Code, Pc))
emitClosure == Emitted("ins", {"CLOSURE"}) /\ vm' = Onward(h_closure(vm, Code, Pc))
emitClose == Emitted("ins", {"CLOSE"}) /\ vm' = Onward(h_close(vm, Code))
emitForPrepTerm == Emitted("ins", {"FORPREP"}) /\ vm' = Onward(h_forprep(vm, Code, Pc))

emitSelf ==
  /\ Emitted("ins", {"SELF"})
  /\ vm' = Onward(h_self(Store64(vm, Code.a + 1, Load64(vm, Code.b)), Code, Pc))

(* The outcome of a comparison of numbers, of equal words, and of what a   *)
(* helper has to compare.                                                  *)
emitNumCompareOrHelper(v, i, pc) ==
  LET b == loadRK(v, i.b)
      c == loadRK(v, i.c)
  IN IF IsNumber(b) /\ IsNumber(c) THEN <<Holds(i.op, b, c)>>
     ELSE IF i.op = "EQ" /\ b = c THEN <<TRUE>> ELSE h_compare(Saved(v, pc), i)

emitCompareTerm ==
  /\ Emitted("if", {"EQ", "LT", "LE"})
  /\ LET outcome == emitNumCompareOrHelper(vm, Code, Pc)
     IN vm' = IF outcome = <<>> THEN Raise(Saved(vm, Pc), Fault)
              ELSE Branch(vm, outcome[1] # (Code.a # 0))

emitTestTerm ==
  /\ Emitted("if", {"TEST"})
  /\ vm' = Branch(vm, Truthy(Load64(vm, Code.a)) # (Code.c # 0))

emitTestSetTerm ==
  /\ Emitted("if", {"TESTSET"})
  /\ LET b == Load64(vm, Code.b)
     IN vm' = IF Truthy(b) = (Code.c # 0) THEN Branch(Store64(vm, Code.a, b), TRUE)
                                          ELSE Branch(vm, FALSE)

(* The body is entered with both copies of the index written, or the loop  *)
(* is left with neither.                                                   *)
emitForLoopTerm ==
  /\ Emitted("if", {"FORLOOP"})
  /\ LET step == Load64(vm, Code.a + 2)[2]
         idx == Load64(vm, Code.a)[2] + step
         S == Store64(Store64(vm, Code.a, Num(idx)), Code.a + 3, Num(idx))
         goesOn == Within(idx, Load64(vm, Code.a + 1)[2], step)
     IN vm' = IF goesOn THEN Branch(S, TRUE) ELSE Branch(vm, FALSE)

emitTForLoopTerm ==
  /\ Emitted("if", {"TFORLOOP"})
  /\ vm' = h_tforloop(vm, Code, Pc)

emitBackEdgeSafepoint ==
  /\ Running /\ ~NativeTier /\ Compiled(vm) /\ Frame(vm).gib.waits = "no"
  /\ Current.k = "safepoint"
  /\ vm' = Onward(h_safepoint(vm))
  /\ UNCHANGED <<program, promoted, stress, steps>>

emitCall == Emitted("ins", {"CALL"}) /\ vm' = h_call(vm, Code, Pc)
emitTailCall == Emitted("ins", {"TAILCALL"}) /\ vm' = h_tailcall(vm, Code, Pc)

(* What emitCall and emitTailCall have the code do after the call: $base   *)
(* and the top are set again; what a host function returned is returned.   *)
emitAfterCall ==
  /\ Running /\ ~NativeTier /\ Compiled(vm) /\ Frame(vm).gib.waits # "no"
  /\ LET v == Waiting(vm, "no")
         T == IF Code.c # 0 THEN SetTop(v, Frame(v).gib.top) ELSE v
     IN vm' = CASE Frame(vm).gib.waits = "indirect" -> Onward(Rebased(T, vm.xfer))
                [] Frame(vm).gib.waits = "helper" -> Onward(Rebased(T, Address(vm)))
                [] Frame(vm).gib.waits = "tail" -> h_return(v, At(v, Code), 0, Pc)
  /\ UNCHANGED <<program, promoted, stress, steps>>

(* Back into compiled code that wants as many values as there are, with no *)
(* upvalue to close: without a helper, and with top left for the caller.   *)
FastReturn(v, nret) ==
  LET n == Len(v.frames)
  IN /\ 0 <= nret /\ nret <= MaxReturnFast
     /\ n >= 2 /\ v.open = <<>>
     /\ v.frames[n - 1].gib # <<>>
     /\ v.frames[n].nresults = nret
emitReturnFastOwnBase(v, a, nret) ==
  LET vals == [k \in 1..nret |-> Load64(v, a + k - 1)]
      R == PutAt(v, Slot(v, -1), vals)
  IN popCallInfo([R EXCEPT !.xfer = Frame(v).gib.base])

emitReturnFast(v, a, nret) ==
  LET n == Len(v.frames)
      vals == [k \in 1..nret |-> Load64(v, a + k - 1)]
      back == v.frames[n].base - v.frames[n - 1].base
      R == PutAt(v, Slot(v, -1), vals)
  IN popCallInfo([R EXCEPT !.xfer = Frame(v).gib.base - back])

emitReturn ==
  /\ Emitted("ins", {"RETURN"})
  /\ vm' = IF FastReturn(vm, Code.b - 1) THEN emitReturnFast(vm, Code.a, Code.b - 1)
           ELSE h_return(vm, At(vm, Code), Code.b, Pc)

GibbousNext ==
  \/ emitMove \/ emitLoadK \/ emitLoadBool \/ emitLoadNil \/ emitGetUpval \/ emitSetUpval
  \/ emitArith \/ emitUnm \/ emitNot \/ emitLen \/ emitConcat
  \/ emitGetGlobal \/ emitSetGlobal \/ emitGetTable \/ emitSetTable \/ emitSelf
  \/ emitNewTable \/ emitSetListOp \/ emitClosure \/ emitClose
  \/ emitCompareTerm \/ emitTestTerm \/ emitTestSetTerm
  \/ emitForPrepTerm \/ emitForLoopTerm \/ emitTForLoopTerm \/ emitBackEdgeSafepoint
  \/ emitCall \/ emitTailCall \/ emitAfterCall \/ emitReturn
=============================================================================
