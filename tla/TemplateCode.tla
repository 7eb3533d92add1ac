----------------------------- MODULE TemplateCode -----------------------------
(***************************************************************************)
(* The templates at work: the code made of a shape of module Templates     *)
(* (amd64/pj2_template.go, pj3_template.go, pj4_template.go) and Run in    *)
(* code.go, which executes it and does what it leaves out.                 *)
(*                                                                         *)
(* A template does all of its function's work in one go.  Run returns for  *)
(* the function at the end, from where the shape says, also when a call    *)
(* comes back: a frame that waits for one is resumed nowhere else.  When a *)
(* guard of the code fails Run does what the interpreter would have done,  *)
(* with the registers the code has not written written first.              *)
(*                                                                         *)
(* Left out: the fuel of loops (StepBudget), and a method call whose cache *)
(* finds a value that is no Lua function (README, section 5).              *)
(***************************************************************************)
EXTENDS Native

Form == NativeOf(Frame(vm).gib.pid).shape

AtTemplate(kinds) ==
  /\ Running /\ NativeTier /\ Compiled(vm) /\ Frame(vm).gib.waits = "no"
  /\ NativeOf(Frame(vm).gib.pid).code = "template"
  /\ Form.kind \in kinds
  /\ steps' = steps + 1
  /\ UNCHANGED <<program, promoted, stress>>

Failed(v) == v.raised # <<>>
AndThen(v, F(_)) == IF Failed(v) THEN v ELSE F(v)
HostReturn(v) ==
  LET S == JumpTo(v, Form.retPC)
      src == Frame(v).base + Form.retA
  IN returnFrom(S, src, CountFrom(S, src, Form.retB))
Finished(v) == AndThen(v, HostReturn)

------------------------------------------------------------------------------
(* Values and single operations.                                           *)

runReturn == AtTemplate({"return"}) /\ vm' = HostReturn(vm)
runConstant ==
  AtTemplate({"constant"}) /\ vm' = HostReturn(SetReg(vm, Form.retA, Form.value))

ArithHelper(v, i, pc) ==
  CASE i.op \in ArithAll -> h_arith(v, i, pc)
    [] i.op = "UNM" -> h_unm(v, i, pc)
    [] i.op = "NOT" -> SetReg(v, i.a, Bool(~Truthy(RegOf(v, i.b))))
TableHelper(v, i, pc) ==
  CASE i.op = "LEN" -> h_len(v, i, pc)
    [] i.op = "NEWTABLE" -> h_newtable(v, i, pc)
    [] i.op = "GETTABLE" -> h_gettable(v, i, pc)
    [] i.op = "SETTABLE" -> h_settable(v, i, pc)
VariableHelper(v, i, pc) ==
  CASE i.op = "GETUPVAL" -> SetReg(v, i.a, h_getupval(v, i))
    [] i.op = "SETUPVAL" -> h_setupval(v, i, RegOf(v, i.a))
    [] i.op = "GETGLOBAL" -> h_getglobal(v, i, pc)
    [] i.op = "SETGLOBAL" -> h_setglobal(v, i, pc)
Helper(v, i, pc) ==
  CASE i.op \in ArithAll \cup {"UNM", "NOT"} -> ArithHelper(v, i, pc)
    [] i.op \in {"LEN", "NEWTABLE", "GETTABLE", "SETTABLE"} -> TableHelper(v, i, pc)
    [] OTHER -> VariableHelper(v, i, pc)

(* Both operations of a chain, or the one there is.                        *)
Helped(v) ==
  LET ops == Form.ops
      pc == Form.retPC - Len(ops)
      Second(w) == IF Len(ops) = 1 THEN w ELSE Helper(w, ops[2], pc + 1)
  IN AndThen(Helper(v, ops[1], pc), Second)

runPrelude == AtTemplate({"op"}) /\ vm' = Finished(Helped(vm))

(* Arithmetic on registers that are found to be numbers, and constants.    *)
EmitArithSpecBinopWithGuard(v, i) == Computed(i.op, Load64(v, i.b), operandRK(v, i.c))
EmitArithSpecChainKKWithGuard(v, i, j) ==
  Computed(j.op, Computed(i.op, Load64(v, i.b), operandRK(v, i.c)), operandRK(v, j.c))
runArith ==
  /\ AtTemplate({"arith"})
  /\ LET ops == Form.ops
         guard == IsNumber(Load64(vm, ops[1].b)) /\ IsNumber(operandRK(vm, ops[1].c))
         val == IF Len(ops) = 1 THEN EmitArithSpecBinopWithGuard(vm, ops[1])
                ELSE EmitArithSpecChainKKWithGuard(vm, ops[1], ops[2])
     IN vm' = IF guard THEN HostReturn(Store64(vm, Form.retA, val)) ELSE Finished(Helped(vm))

runCompare ==
  /\ AtTemplate({"compare"})
  /\ LET i == Form.ops[1]
         S == Saved(vm, 1)
         outcome == h_compare(S, i)
     IN vm' = IF outcome = <<>> THEN Raise(S, Fault)
              ELSE HostReturn(SetReg(S, Form.retA, Bool(outcome[1] = (i.a = 1))))

------------------------------------------------------------------------------
(* Loops.                                                                  *)

(* The sum, or whatever it is, after the rounds from idx on.               *)
OneRound(ops, s) ==
  FoldLeft(LAMBDA acc, i : Computed(i.op, acc, operandRK(vm, i.c)), s, ops)
RECURSIVE EmitForLoopWithBody(_, _, _)
EmitForLoopWithBody(idx, limit, s) ==
  IF Within(idx, limit, Form.step)
  THEN EmitForLoopWithBody(idx + Form.step, limit, OneRound(Form.body, s)) ELSE s

runLoopBody ==
  /\ AtTemplate({"loop"}) /\ Form.body # <<>>
  /\ LET s == EmitForLoopWithBody(Form.init, constantOf(vm, Form.limit)[2], Form.start)
     IN vm' = HostReturn(Store64(vm, Form.retA, s))

(* An empty loop does nothing, if its limit is a number.                   *)
runLoopEmptyConst ==
  AtTemplate({"loop"}) /\ Form.body = <<>> /\ Form.limit.op = "LOADK" /\ vm' = HostReturn(vm)

forLoopDeopt(v, limit) ==
  LET a == Form.forA
      S == PutAt(v, Frame(v).base + a, <<Num(Form.init), limit, Num(Form.step)>>)
  IN Finished(h_forprep(S, [a |-> a], Form.retPC - 2))
runLoopRegLimit ==
  /\ AtTemplate({"loop"}) /\ Form.body = <<>> /\ Form.limit.op # "LOADK"
  /\ LET i == Form.limit
         upval == i.op = "GETUPVAL"
         limitReg == IF upval THEN Form.forA + 1 ELSE i.b
         S == IF upval THEN SetReg(vm, limitReg, h_getupval(vm, i)) ELSE vm
     IN vm' = IF IsNumber(Load64(S, limitReg)) THEN HostReturn(S)
              ELSE forLoopDeopt(S, RegOf(S, limitReg))

------------------------------------------------------------------------------
(* One table access: the element that is within the array, or the node     *)
(* with the key, if it holds a value.  A hit is written in place, whatever *)
(* is written.                                                             *)

ArrayHit(v, tbl, key) ==
  LET content == v.tabs[tbl[2]]
  IN IF IsTable(tbl) /\ IsNumber(key) /\ 1 <= key[2] /\ key[2] <= Border(content)
     THEN RawGet(content, key) ELSE Nil
NodeHit(v, tbl, key) == IF IsTable(tbl) THEN RawGet(v.tabs[tbl[2]], key) ELSE Nil

Got(v, i, val) ==
  IF val # Nil THEN HostReturn(Store64(v, i.a, val))
  ELSE Finished(h_gettable(v, i, Form.retPC - 1))
EmitGetTableArrayHit(v, i) == Got(v, i, ArrayHit(v, Load64(v, i.b), operandRK(v, i.c)))
EmitGetTableNodeHit(v, i) == Got(v, i, NodeHit(v, Load64(v, i.b), operandRK(v, i.c)))

Put(v, i, val) ==
  IF val # Nil THEN HostReturn(InPlace(v, Load64(v, i.a), operandRK(v, i.b), Load64(v, i.c)))
  ELSE Finished(h_settable(v, i, Form.retPC - 1))
EmitSetTableArrayHit(v, i) == Put(v, i, ArrayHit(v, Load64(v, i.a), operandRK(v, i.b)))
EmitSetTableNodeHit(v, i) == Put(v, i, NodeHit(v, Load64(v, i.a), operandRK(v, i.b)))

runAccess ==
  /\ AtTemplate({"access"})
  /\ LET i == Form.ops[1]
     IN vm' = CASE i.op = "GETTABLE" /\ Form.hit = "ArrayHit" -> EmitGetTableArrayHit(vm, i)
                [] i.op = "GETTABLE" /\ Form.hit = "NodeHit" -> EmitGetTableNodeHit(vm, i)
                [] i.op = "SETTABLE" /\ Form.hit = "ArrayHit" -> EmitSetTableArrayHit(vm, i)
                [] i.op = "SETTABLE" /\ Form.hit = "NodeHit" -> EmitSetTableNodeHit(vm, i)

------------------------------------------------------------------------------
(* Calls.                                                                  *)

CallPC == Form.retPC - 1
loadCallee(v) ==
  LET i == Form.head
  IN SetReg(v, Form.call.a, IF i.op = "GETUPVAL" THEN h_getupval(v, i) ELSE RegOf(v, i.b))
loadCallArgs(v) ==
  FoldLeft(LAMBDA S, i : SetReg(S, i.a, IF i.op = "LOADK" THEN constantOf(S, i) ELSE RegOf(S, i.b)),
           v, Form.args)
MethodOf(v) == h_self(v, Form.self[1], CallPC - 1 - Len(Form.args))
prepareCall(v) ==
  LET R == loadCallee(v)
  IN AndThen(IF Form.self = <<>> THEN R ELSE MethodOf(R), loadCallArgs)

CallHelper(v) == doCall(Waiting(Saved(v, CallPC), "template"), Form.call)
TailCallHelper(v) == doTailCall(Waiting(Saved(v, CallPC), "template"), Form.call)

runCall == AtTemplate({"call"}) /\ vm' = AndThen(prepareCall(vm), CallHelper)
runTailCall == AtTemplate({"tailcall"}) /\ vm' = AndThen(prepareCall(vm), TailCallHelper)

(* The method's frame is built by the code and taken down again by the     *)
(* helper, which enters the method on its own: what is left is a caller    *)
(* that waits.                                                             *)
EmitFrameInline(v) == Waiting(Saved(v, CallPC), "template")
ExecuteCalleeFromInlineFrame(v) ==
  LET i == Form.call
      S == EmitFrameInline(v)
      at == At(S, i)
  IN IF Promoted(S, S.stack[at], promoted.all) THEN enterGibbous(S, at, i.b - 1, i.c - 1)
     ELSE enterLuaFrame(S, at, i.b - 1, i.c - 1, FALSE, Interpreted)

(* The arguments are in place before the method is looked for; the object  *)
(* is behind it when it is found.                                          *)
SpecArgsLoaded(v) == loadCallArgs(loadCallee(v))
EmitSelfNodeHit(v, i, method) ==
  Store64(Store64(v, i.a + 1, Load64(v, i.a)), i.a, method)
SpecCall(v) == IF Form.call.op = "TAILCALL" THEN TailCallHelper(v) ELSE CallHelper(v)

runSpecSelfCall ==
  /\ AtTemplate({"self"})
  /\ LET i == Form.self[1]
         V == SpecArgsLoaded(vm)
         method == NodeHit(V, Load64(V, i.a), operandRK(V, i.c))
         hit == EmitSelfNodeHit(V, i, method)
     IN vm' = IF method = Nil THEN AndThen(MethodOf(V), SpecCall)
              ELSE IF Form.call.op = "TAILCALL" THEN TailCallHelper(hit)
              ELSE ExecuteCalleeFromInlineFrame(hit)

(* A call has come back, or a host function was called in place of a tail  *)
(* call; several results are copied up.                                    *)
afterTemplateCall ==
  /\ Running /\ NativeTier /\ Compiled(vm) /\ Frame(vm).gib.waits = "template"
  /\ LET at == At(vm, Form.call)
     IN vm' = HostReturn(PutAt(vm, at + Form.multi, SliceOf(vm, at, Form.multi)))
  /\ UNCHANGED <<program, promoted, stress, steps>>

TemplateNext ==
  \/ runReturn \/ runConstant \/ runPrelude \/ runArith \/ runCompare
  \/ runLoopBody \/ runLoopEmptyConst \/ runLoopRegLimit
  \/ runAccess \/ runCall \/ runTailCall \/ runSpecSelfCall \/ afterTemplateCall
=============================================================================
