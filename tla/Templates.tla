------------------------------ MODULE Templates ------------------------------
(***************************************************************************)
(* The shapes of small functions (internal/gibbous/jit/compiler.go).  The  *)
(* native compiler has a template for a function that is only a constant,  *)
(* a variable, one operation, one loop without calls, or one call, and     *)
(* knows it by its instructions.  A shape says all that the code made of   *)
(* it depends on:                                                          *)
(*   kind              the template                                        *)
(*   retPC, retA, retB where the function returns from, and what           *)
(* and, by kind, the instructions that were recognised.  An analyzer has a *)
(* shape for a prototype or NoShape.                                       *)
(*                                                                         *)
(* Left out: limits of register numbers, which every prototype respects.   *)
(***************************************************************************)
EXTENDS NativeAnalysis

NoShape == <<>>
Shape(kind, pc, a, b) == [kind |-> kind, retPC |-> pc, retA |-> a, retB |-> b]
Found(cond, shape) == IF cond THEN shape ELSE NoShape
FirstOf(shapes) ==
  LET found == SelectSeq(shapes, LAMBDA s : s # NoShape)
  IN IF found = <<>> THEN NoShape ELSE Head(found)

(* The code has these opcodes, and at most one RETURN more.                *)
Fits(proto, ops) ==
  LET code == proto.code
      n == Len(ops)
  IN /\ Len(code) \in {n, n + 1}
     /\ \A pc \in 1..n : code[pc].op \in ops[pc]
     /\ Len(code) = n + 1 => code[n + 1].op = "RETURN"

LoadsNumber(proto, pc) == IsNumber(proto.consts[proto.code[pc].b])
NumericK(proto, x) == IsK(x) /\ IsNumber(proto.consts[-x])
PositiveStep(proto, pc) == LoadsNumber(proto, pc) /\ proto.consts[proto.code[pc].b][2] > 0

------------------------------------------------------------------------------
(* One table access whose cache found the same table, at the same place,   *)
(* each time it was executed (mono).  SELF is never the only instruction   *)
(* of what the code generator writes.                                      *)

StableHit(proto, key, kind) ==
  /\ IsK(key) /\ ICKind(proto, key) = kind
  /\ proto.consts[-key][1] \in {"num", "str"}

AccessShape(proto, hit) ==
  [ops |-> <<proto.code[1]>>, hit |-> hit]
    @@ Shape("access", 2, proto.code[1].a, proto.code[2].b)
Gets(proto, op) ==
  /\ Fits(proto, <<{op}, {"RETURN"}>>)
  /\ proto.code[1].a = proto.code[2].a /\ proto.code[2].b = 2
Sets(proto) ==
  /\ Fits(proto, <<{"SETTABLE"}, {"RETURN"}>>)
  /\ ~IsK(proto.code[1].c) /\ proto.code[2].b = 1

analyzeGetTableArrayHit(proto, mono) ==
  Found(mono /\ Gets(proto, "GETTABLE") /\ StableHit(proto, proto.code[1].c, "ArrayHit"),
        AccessShape(proto, "ArrayHit"))
analyzeGetTableNodeHit(proto, mono) ==
  Found(mono /\ Gets(proto, "GETTABLE") /\ StableHit(proto, proto.code[1].c, "NodeHit"),
        AccessShape(proto, "NodeHit"))
analyzeSetTableArrayHit(proto, mono) ==
  Found(mono /\ Sets(proto) /\ StableHit(proto, proto.code[1].b, "ArrayHit"),
        AccessShape(proto, "ArrayHit"))
analyzeSelfArrayHit(proto, mono) ==
  Found(mono /\ Gets(proto, "SELF") /\ StableHit(proto, proto.code[1].c, "ArrayHit"),
        AccessShape(proto, "ArrayHit"))
analyzeSetTableNodeHit(proto, mono) ==
  Found(mono /\ Sets(proto) /\ StableHit(proto, proto.code[1].b, "NodeHit"),
        AccessShape(proto, "NodeHit"))
analyzeSelfNodeHit(proto, mono) ==
  Found(mono /\ Gets(proto, "SELF") /\ StableHit(proto, proto.code[1].c, "NodeHit"),
        AccessShape(proto, "NodeHit"))

------------------------------------------------------------------------------
(* Loops: s = s0; for i = init, limit, step do s = s op k1 op k2 end;      *)
(* return s, all but s constant, or a loop with nothing in it, up to a     *)
(* constant, a local or an upvalue.                                        *)

LoopShape(proto, at, ret) ==
  LET code == proto.code
  IN [init |-> proto.consts[code[at].b][2], limit |-> code[at + 1],
      step |-> proto.consts[code[at + 2].b][2], forA |-> code[at].a]
       @@ Shape("loop", ret, code[ret].a, code[ret].b)

(* The registers and jumps of a loop from pc at on, with n instructions in *)
(* its body.                                                               *)
LoopFits(proto, at, n) ==
  LET code == proto.code
      a == code[at].a
      prep == at + 3
      loop == prep + n + 1
  IN /\ code[at + 1].a = a + 1 /\ code[at + 2].a = a + 2
     /\ code[prep].a = a /\ code[loop].a = a
     /\ code[prep].b = loop /\ code[loop].b = prep + 1
     /\ LoadsNumber(proto, at) /\ PositiveStep(proto, at + 2)

BodyFits(proto, n) ==
  LET code == proto.code
      s == code[1].a
      ret == code[7 + n]
  IN /\ LoopFits(proto, 2, n) /\ code[2].a = s + 1
     /\ LoadsNumber(proto, 1) /\ LoadsNumber(proto, 3)
     /\ \A pc \in 6..(5 + n) :
          code[pc].a = s /\ code[pc].b = s /\ NumericK(proto, code[pc].c)
     /\ ret.a = s /\ ret.b = 2
BodyShape(proto, n) ==
  [body |-> SubSeq(proto.code, 6, 5 + n), start |-> proto.consts[proto.code[1].b]]
    @@ LoopShape(proto, 2, 7 + n)

FourLoads == <<{"LOADK"}, {"LOADK"}, {"LOADK"}, {"LOADK"}>>
analyzeForLoopBody2Form(proto) ==
  Found(/\ Fits(proto, FourLoads \o
             <<{"FORPREP"}, ArithFast, ArithFast, {"FORLOOP"}, {"RETURN"}>>)
        /\ BodyFits(proto, 2), BodyShape(proto, 2))
analyzeForLoopBodyForm(proto) ==
  Found(/\ Fits(proto, FourLoads \o <<{"FORPREP"}, ArithFast, {"FORLOOP"}, {"RETURN"}>>)
        /\ BodyFits(proto, 1), BodyShape(proto, 1))

analyzeForLoopForm(proto) ==
  Found(/\ Fits(proto, <<{"LOADK"}, {"LOADK", "MOVE", "GETUPVAL"}, {"LOADK"},
                         {"FORPREP"}, {"FORLOOP"}, {"RETURN"}>>)
        /\ LoopFits(proto, 1, 0)
        /\ proto.code[6].a = 0 /\ proto.code[6].b = 1
        /\ proto.code[2].op = "LOADK" => LoadsNumber(proto, 2),
        [body |-> <<>>] @@ LoopShape(proto, 1, 6))

------------------------------------------------------------------------------
(* return x op y, a comparison made a value, and return x op1 y op2 z.     *)

analyzeCompareForm(proto) ==
  LET code == proto.code
  IN Found(/\ Fits(proto, <<{"EQ", "LT", "LE"}, {"JMP"}, {"LOADBOOL"}, {"LOADBOOL"}, {"RETURN"}>>)
           /\ code[2].b = 4
           /\ code[3].b = 0 /\ code[3].c = 1
           /\ code[4].a = code[3].a /\ code[4].b = 1 /\ code[4].c = 0
           /\ code[5].a = code[4].a /\ code[5].b = 2,
           [ops |-> <<code[1]>>] @@ Shape("compare", 5, code[5].a, 2))

analyzeArithChainForm(proto) ==
  LET code == proto.code
      a == code[3].a
  IN Found(/\ Fits(proto, <<ArithAll, ArithAll, {"RETURN"}>>)
           /\ code[3].b = 2 /\ code[1].a = a /\ code[2].a = a /\ code[2].b = a,
           [ops |-> <<code[1], code[2]>>] @@ Shape("op", 3, a, 2))

------------------------------------------------------------------------------
(* One call: the function, from a local or an upvalue, its arguments, the  *)
(* CALL and what becomes of its results.                                   *)

decodeArgFromOp(i, expectA) == i.op \in {"LOADK", "MOVE"} /\ i.a = expectA
loadsOf(code, from, n, expectA) ==
  \A k \in 1..n : decodeArgFromOp(code[from + k - 1], expectA + k - 1)
Loader(i) == i.op \in {"MOVE", "GETUPVAL"}

CallShape(proto, from, call, kind, ret) ==
  LET code == proto.code
  IN [head |-> code[1], self |-> SubSeq(code, 2, from - 1),
      args |-> SubSeq(code, from, call - 1), call |-> code[call],
      multi |-> IF ret = call + 1 THEN 0 ELSE code[call].c - 1]
       @@ Shape(kind, ret, IF code[ret].b = 1 THEN 0 ELSE code[ret].a, code[ret].b)

(* Where the CALL and the RETURN are, by the length of the code; between   *)
(* the function and the CALL there are arguments only.                     *)
CallLayoutsTo5 == {<<3, 2, 3>>, <<4, 2, 3>>, <<4, 3, 4>>, <<5, 3, 4>>, <<5, 4, 5>>}
CallLayoutsTo7 ==
  {<<6, 2, 5>>, <<6, 4, 5>>, <<6, 5, 6>>,
   <<7, 2, 6>>, <<7, 3, 6>>, <<7, 6, 7>>, <<7, 5, 6>>}
CallLayoutsTo11 ==
  {<<8, 3, 7>>, <<8, 6, 7>>, <<8, 7, 8>>, <<9, 7, 8>>, <<9, 8, 9>>,
   <<10, 8, 9>>, <<10, 9, 10>>, <<11, 9, 10>>}

(* No result, one, or several that are copied up before they are returned. *)
resultsOf(code, call, ret) ==
  LET C == code[call]
      R == code[ret]
      nret == C.c - 1
  IN /\ \A pc \in (call + 1)..(ret - 1) : code[pc].op = "MOVE"
     /\ \/ C.c = 1 /\ R.b = 1 /\ ret = call + 1
        \/ C.c = 2 /\ R.b = 2 /\ ret = call + 1 /\ R.a = C.a
        \/ /\ C.c >= 3 /\ R.b = C.c /\ R.a = C.a + nret
           /\ \A k \in 0..(nret - 1) :
                LET i == code[call + 1 + k]
                IN i.op = "MOVE" /\ i.a = C.a + nret + k /\ i.b = C.a + k

callVoidAt(proto, layout) ==
  LET code == proto.code
      call == layout[2]
      ret == layout[3]
      a == code[1].a
  IN /\ Len(code) = layout[1]
     /\ Loader(code[1]) /\ loadsOf(code, 2, call - 2, a + 1)
     /\ code[call].op = "CALL" /\ code[call].a = a /\ code[call].b = call - 1
     /\ code[ret].op = "RETURN"
     /\ resultsOf(code, call, ret)
     /\ ret < Len(code) =>
          Last(code).op = "RETURN" /\ (Len(code) = 4 \/ Last(code).b = 1)

analyzeCallVoidForm(proto) ==
  LET layouts == {l \in CallLayoutsTo5 \cup CallLayoutsTo7 \cup CallLayoutsTo11 :
                    callVoidAt(proto, l)}
      layout == CHOOSE l \in layouts : TRUE
  IN Found(layouts # {}, CallShape(proto, 2, layout[2], "call", layout[3]))

(* A tail call, the RETURN for a callee that is no Lua function, and the   *)
(* RETURN every function ends with.                                        *)
tailCallArgs(proto, n) ==
  Loader(proto.code[1]) /\ loadsOf(proto.code, 2, n, proto.code[1].a + 1)
tailCallAt(code, pc, a, b) ==
  /\ code[pc].op = "TAILCALL" /\ code[pc].a = a /\ code[pc].b = b /\ code[pc].c = 0
  /\ code[pc + 1].op = "RETURN" /\ code[pc + 1].b = 0
finalReturn(code, pc) == code[pc].op = "RETURN" /\ code[pc].b = 1

analyzeTailCallForm(proto) ==
  LET code == proto.code
      n == Len(code) - 4
      a == code[1].a
  IN Found(/\ n \in 0..7 /\ tailCallArgs(proto, n)
           /\ tailCallAt(code, n + 2, a, n + 1) /\ code[n + 3].a = a
           /\ finalReturn(code, n + 4),
           CallShape(proto, 2, n + 2, "tailcall", n + 3))

------------------------------------------------------------------------------
(* One method call with n arguments, SELF in place behind the receiver.    *)

selfArgs(proto, n) == loadsOf(proto.code, 3, n, proto.code[1].a + 2)
isValidSpecCallRetCount(c) == c = 1 \/ (3 <= c /\ c <= 16)
selfCallAt(proto, n) ==
  LET call == proto.code[n + 3]
  IN call.op = "CALL" /\ call.a = proto.code[1].a /\ call.b = n + 2
SelfShape(proto, n, kind) == CallShape(proto, 3, n + 3, kind, n + 4)

(* Results that are thrown away, one that is returned, and a tail call,    *)
(* with the last RETURN of the function or where it is beyond the length.  *)
SelfVoid(proto, n) ==
  Found(/\ selfArgs(proto, n) /\ selfCallAt(proto, n)
        /\ isValidSpecCallRetCount(proto.code[n + 3].c) /\ finalReturn(proto.code, n + 4),
        SelfShape(proto, n, "call"))
SelfGetter(proto, n) ==
  LET ret == proto.code[n + 4]
  IN Found(/\ selfArgs(proto, n) /\ selfCallAt(proto, n) /\ proto.code[n + 3].c = 2
           /\ ret.op = "RETURN" /\ ret.a = proto.code[1].a /\ ret.b = 2
           /\ finalReturn(proto.code, n + 5),
           SelfShape(proto, n, "call"))
SelfTailCut(proto, n) ==
  Found(selfArgs(proto, n) /\ tailCallAt(proto.code, n + 3, proto.code[1].a, n + 2),
        SelfShape(proto, n, "tailcall"))
SelfTail(proto, n) ==
  Found(/\ selfArgs(proto, n) /\ tailCallAt(proto.code, n + 3, proto.code[1].a, n + 2)
        /\ proto.code[n + 4].a = proto.code[1].a
        /\ finalReturn(proto.code, n + 5),
        SelfShape(proto, n, "tailcall"))

analyzeSelfCallForm4(proto) == FirstOf(<<SelfVoid(proto, 0), SelfTailCut(proto, 0)>>)
analyzeSelfCallForm5(proto) ==
  FirstOf(<<SelfGetter(proto, 0), SelfTail(proto, 0), SelfVoid(proto, 1), SelfTailCut(proto, 1)>>)
analyzeSelfCallForm6(proto) ==
  FirstOf(<<SelfGetter(proto, 1), SelfTail(proto, 1), SelfVoid(proto, 2), SelfTailCut(proto, 2)>>)
analyzeSelfCallForm7(proto) ==
  FirstOf(<<SelfGetter(proto, 2), SelfTail(proto, 2), SelfVoid(proto, 3)>>)
analyzeSelfCallForm8(proto) ==
  FirstOf(<<SelfGetter(proto, 3), SelfTail(proto, 3), SelfVoid(proto, 4)>>)
analyzeSelfCallForm9(proto) ==
  FirstOf(<<SelfGetter(proto, 4), SelfTail(proto, 4), SelfVoid(proto, 5)>>)
analyzeSelfCallFormN(proto, n) == FirstOf(<<SelfVoid(proto, n), SelfTail(proto, n - 1)>>)

analyzeSelfCallForm(proto) ==
  LET code == proto.code
      len == Len(code)
      self == code[2]
      starts == /\ 4 <= len /\ len <= 11
                /\ Loader(code[1])
                /\ self.op = "SELF" /\ self.a = code[1].a /\ self.b = self.a /\ IsK(self.c)
  IN CASE starts /\ len = 4 -> analyzeSelfCallForm4(proto)
       [] starts /\ len = 5 -> analyzeSelfCallForm5(proto)
       [] starts /\ len = 6 -> analyzeSelfCallForm6(proto)
       [] starts /\ len = 7 -> analyzeSelfCallForm7(proto)
       [] starts /\ len = 8 -> analyzeSelfCallForm8(proto)
       [] starts /\ len = 9 -> analyzeSelfCallForm9(proto)
       [] starts /\ len >= 10 -> analyzeSelfCallFormN(proto, len - 4)
       [] ~starts -> NoShape

(* The method was found in the same table each time: SELF is inlined, and, *)
(* unless it is a tail call, the entry into the method too.                *)
analyzeSelfCallSpecForm(proto, mono) ==
  LET shape == analyzeSelfCallForm(proto)
  IN Found(mono /\ shape # NoShape /\ StableHit(proto, proto.code[2].c, "NodeHit"),
           [shape EXCEPT !.kind = "self"])

------------------------------------------------------------------------------
(* A single instruction, or none, and RETURN.                              *)

analyzeReturn(proto) ==
  LET ret == proto.code[1]
  IN Found(/\ Len(proto.code) <= 3 /\ ret.op = "RETURN" /\ ret.b \in {1, 2}
           /\ Len(proto.code) = 3 => proto.code[3].op = "RETURN",
           Shape("return", 1, ret.a, ret.b))

analyzeMove(proto) == Found(Gets(proto, "MOVE"), Shape("return", 2, proto.code[1].b, 2))

OpShape(proto) ==
  [ops |-> <<proto.code[1]>>] @@ Shape("op", 2, proto.code[1].a, proto.code[2].b)
Computes(proto, ops) == \E op \in ops : Gets(proto, op)

analyzeOperator(proto) ==
  Found(Computes(proto, {"GETUPVAL", "UNM", "LEN"} \cup ArithAll), OpShape(proto))
analyzeFetch(proto) ==
  Found(Computes(proto, {"NEWTABLE", "GETTABLE", "GETGLOBAL"}), OpShape(proto))
analyzeSetter(proto) ==
  Found(/\ Fits(proto, <<{"SETGLOBAL", "SETTABLE", "SETUPVAL"}, {"RETURN"}>>)
        /\ proto.code[2].b = 1, OpShape(proto))
analyzeNot(proto) == Found(Computes(proto, {"NOT"}), OpShape(proto))

analyzeConstant(proto) ==
  LET load == proto.code[1]
  IN Found(/\ Computes(proto, {"LOADK", "LOADBOOL", "LOADNIL"})
           /\ load.op = "LOADBOOL" => load.c = 0
           /\ load.op = "LOADNIL" => load.b = load.a,
           [value |-> CASE load.op = "LOADK" -> proto.consts[load.b]
                        [] load.op = "LOADBOOL" -> Bool(load.b # 0)
                        [] load.op = "LOADNIL" -> Nil]
             @@ Shape("constant", 2, load.a, 2))

analyzeShape(proto) ==
  FirstOf(<<analyzeCallVoidForm(proto), analyzeTailCallForm(proto), analyzeSelfCallForm(proto),
            analyzeCompareForm(proto), analyzeArithChainForm(proto), analyzeForLoopForm(proto),
            analyzeForLoopBodyForm(proto), analyzeForLoopBody2Form(proto),
            analyzeReturn(proto), analyzeMove(proto), analyzeOperator(proto),
            analyzeFetch(proto), analyzeSetter(proto), analyzeNot(proto),
            analyzeConstant(proto)>>)

------------------------------------------------------------------------------
(* What the compiler makes of a prototype: native code if that is          *)
(* preferred, a template if its shape has one, and else native code or a   *)
(* replay, whichever can be had first.                                     *)

analyzeCached(proto, mono) ==
  FirstOf(<<analyzeGetTableArrayHit(proto, mono), analyzeGetTableNodeHit(proto, mono),
            analyzeSetTableArrayHit(proto, mono), analyzeSelfArrayHit(proto, mono),
            analyzeSetTableNodeHit(proto, mono), analyzeSelfNodeHit(proto, mono),
            analyzeSelfCallSpecForm(proto, mono)>>)

(* Arithmetic is inlined on registers, or a register and number constants. *)
specSingle(proto, i) ==
  i.op \in ArithFast /\ ~IsK(i.b) /\ (IsK(i.c) => NumericK(proto, i.c))
specChain(proto, i, j) ==
  /\ i.op \in ArithFast /\ j.op \in ArithFast
  /\ ~IsK(i.b) /\ NumericK(proto, i.c) /\ NumericK(proto, j.c)
specialised(proto, shape) ==
  IF /\ shape # NoShape /\ shape.kind = "op"
     /\ LET ops == shape.ops
        IN \/ Len(ops) = 1 /\ specSingle(proto, ops[1])
           \/ Len(ops) = 2 /\ specChain(proto, ops[1], ops[2])
  THEN [shape EXCEPT !.kind = "arith"] ELSE shape

CompileNative(protos, pid, mono) ==
  LET proto == protos[pid]
      native == TranslateProtoNative(protos, pid)
      shape == FirstOf(<<analyzeCached(proto, mono), specialised(proto, analyzeShape(proto))>>)
      replay == AnalyzeShape(protos, proto)
      code == IF proto.vararg THEN "none"
              ELSE IF native.preferred THEN "native"
              ELSE IF shape # NoShape THEN "template"
              ELSE IF native.ok THEN "native"
              ELSE IF replay.ok THEN "replay" ELSE "none"
  IN [code |-> code, shape |-> shape, replay |-> replay, preferred |-> native.preferred,
      direct |-> code = "native" /\ native.direct, width |-> native.width]
=============================================================================
