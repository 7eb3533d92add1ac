------------------------------- MODULE Codegen -------------------------------
(***************************************************************************)
(* The code generator (internal/frontend/compile): a syntax tree becomes a *)
(* list of function prototypes.  The operators keep the source's names and *)
(* take and give back the function state F, with the expression descriptor *)
(* e where the source updates it in place ([f, e]).                        *)
(*                                                                         *)
(* Registers count from 0 as in the source; pcs, constants, upvalues and   *)
(* prototypes count from 1.  A jump carries its target, not the offset; a  *)
(* list of jumps waiting for a target, in the source a chain threaded      *)
(* through the jumps themselves, is the set of their pcs.  An RK operand   *)
(* is a register, or -k for constant k when k is at most MaxK.  Lines, the *)
(* debug names and the size hints of NEWTABLE are left out, and so are the *)
(* limits on locals, upvalues, constants and registers, which only fail    *)
(* the compilation.                                                        *)
(***************************************************************************)
EXTENDS Compilability

CONSTANTS MaxK,            \* constants an operand can name (source: 256)
          FieldsPerFlush,  \* positional fields per SETLIST (source: 50)
          MaxBC            \* batches SETLIST's operand can name (source: 511)

ASSUME LimitsAssumption == {MaxK, FieldsPerFlush, MaxBC} \subseteq Nat \ {0}

NoReg == -1
IsK(rk) == rk < 0

I(op, a, b, c) == [op |-> op, a |-> a, b |-> b, c |-> c]
X(F, e) == [f |-> F, e |-> e]

newExp(k, info) ==
  [k |-> k, info |-> info, aux |-> 0, val |-> Nil, tj |-> {}, fj |-> {}]
hasJumps(e) == e.tj \cup e.fj # {}

newFuncState(prev, protos, fe) ==
  [code |-> <<>>, consts |-> <<>>, upvals |-> <<>>, kids |-> <<>>,
   actvar |-> <<>>, freereg |-> 0, maxstack |-> 0, bl |-> <<>>, jpc |-> {},
   localFnAsts |-> <<>>, localAliasAsts |-> <<>>,
   prev |-> prev, protos |-> protos, numparams |-> Len(fe.params),
   vararg |-> fe.vararg # "no", needsArg |-> fe.vararg \in {"dots", "arg"},
   panicked |-> FALSE]

nactvar(F) == Len(F.actvar)
here(F) == Len(F.code) + 1
last(F) == Len(F.code)

------------------------------------------------------------------------------
(* Jumps.                                                                  *)

(* A jump of the list whose condition is a TESTSET goes to vtarget, with   *)
(* its value put into reg (or tested only, when there is no register for   *)
(* it); the others go to dtarget.                                          *)
patchListAux(F, list, vtarget, reg, dtarget) ==
  LET testSet(pc) == pc >= 1 /\ F.code[pc].op = "TESTSET"
      retarget(pc, ins) ==
        IF pc \in list
        THEN [ins EXCEPT !.b = IF testSet(pc - 1) THEN vtarget ELSE dtarget]
        ELSE IF pc + 1 \in list /\ testSet(pc)
        THEN IF reg # NoReg /\ reg # ins.b THEN [ins EXCEPT !.a = reg]
                                           ELSE I("TEST", ins.b, 0, ins.c)
        ELSE ins
  IN [F EXCEPT !.code = [pc \in DOMAIN F.code |-> retarget(pc, F.code[pc])]]

needValue(F, list) ==
  \E pc \in list : pc = 1 \/ F.code[pc - 1].op # "TESTSET"

dischargeJpc(F) ==
  IF F.jpc = {} THEN F
  ELSE patchListAux([F EXCEPT !.jpc = {}], F.jpc, here(F), NoReg, here(F))

emit(F, op, a, b, c) ==
  [dischargeJpc(F) EXCEPT !.code = Append(@, I(op, a, b, c))]

(* The jumps waiting for this pc join the list of the new jump instead of  *)
(* being patched to it.                                                    *)
jump(F) ==
  LET G == emit([F EXCEPT !.jpc = {}], "JMP", 0, 0, 0)
  IN [f |-> G, list |-> {last(G)} \cup F.jpc]

patchToHere(F, list) == [F EXCEPT !.jpc = @ \cup list]
patchList(F, list, target) ==
  IF target = here(F) THEN patchToHere(F, list)
                      ELSE patchListAux(F, list, target, NoReg, target)
getLabel(F) == dischargeJpc(F)
condJump(F, op, a, b, c) == jump(emit(F, op, a, b, c))

------------------------------------------------------------------------------
(* Registers, constants, variables and blocks.                             *)

reserveRegs(F, n) ==
  LET top == F.freereg + n
  IN [F EXCEPT !.freereg = top, !.maxstack = IF top > @ THEN top ELSE @]

freeReg(F, r) ==
  IF r >= nactvar(F) /\ r = F.freereg - 1 THEN [F EXCEPT !.freereg = @ - 1] ELSE F
freeExp(F, e) == IF e.k = "eNonReloc" THEN freeReg(F, e.info) ELSE F
freeOperand(F, rk) == IF IsK(rk) THEN F ELSE freeReg(F, rk)

(* Equal constants share a slot; [f, k] gives the slot.                    *)
addConst(F, v) ==
  IF \E k \in DOMAIN F.consts : F.consts[k] = v
  THEN [f |-> F, k |-> CHOOSE k \in DOMAIN F.consts : F.consts[k] = v]
  ELSE [f |-> [F EXCEPT !.consts = Append(@, v)], k |-> Len(F.consts) + 1]

findLocal(F, name) ==
  LET at == {i \in DOMAIN F.actvar : F.actvar[i] = name}
  IN IF at = {} THEN NoReg ELSE (CHOOSE i \in at : \A j \in at : j <= i) - 1

registerLocals(F, names) == [F EXCEPT !.actvar = @ \o names]

enterBlock(F, isLoop) ==
  [F EXCEPT !.bl = Append(@, [breaks |-> {}, nactvar |-> nactvar(F),
                              isLoop |-> isLoop, hasUpval |-> FALSE]),
            !.panicked = @ \/ F.freereg # nactvar(F)]

leaveBlock(F) ==
  LET n == Len(F.bl)
      bl == F.bl[n]
      R == [F EXCEPT !.actvar = SubSeq(@, 1, bl.nactvar)]
      C == IF bl.hasUpval THEN emit(R, "CLOSE", bl.nactvar, 0, 0) ELSE R
      D == [C EXCEPT !.bl = SubSeq(@, 1, n - 1), !.freereg = bl.nactvar]
  IN IF bl.isLoop THEN patchToHere(D, bl.breaks) ELSE D

(* The block a captured local belongs to has to close it on the way out.   *)
markUpvalCapture(F, reg) ==
  LET own == {i \in DOMAIN F.bl : F.bl[i].nactvar <= reg}
  IN IF own = {} THEN F
     ELSE [F EXCEPT !.bl[CHOOSE i \in own : \A j \in own : j <= i].hasUpval = TRUE]

addUpval(F, name, inStack, idx) ==
  X([F EXCEPT !.upvals =
        Append(@, [name |-> name, inStack |-> inStack, idx |-> idx])],
    newExp("eUpval", Len(F.upvals) + 1))

globalName(F, name) ==
  LET K == addConst(F, Str(name)) IN X(K.f, newExp("eGlobal", K.k))

RECURSIVE resolveName(_, _)
resolveName(F, name) ==
  LET up == {i \in DOMAIN F.upvals : F.upvals[i].name = name}
  IN IF findLocal(F, name) # NoReg
     THEN X(F, newExp("eLocal", findLocal(F, name)))
     ELSE IF up # {} THEN X(F, newExp("eUpval", CHOOSE i \in up : TRUE))
     ELSE IF F.prev = <<>> THEN globalName(F, name)
     ELSE LET O == resolveName(F.prev[1], name)
              within(P) == [F EXCEPT !.prev = <<P>>]
          IN CASE O.e.k = "eLocal" ->
                    addUpval(within(markUpvalCapture(O.f, O.e.info)),
                             name, TRUE, O.e.info)
               [] O.e.k = "eUpval" ->
                    addUpval(within(O.f), name, FALSE, O.e.info)
               [] O.e.k = "eGlobal" -> globalName(within(O.f), name)

------------------------------------------------------------------------------
(* Expression descriptors: from "where the value will be" to a register.   *)

setOneRet(F, e) ==
  IF e.k = "eCall"
  THEN X([F EXCEPT !.code[e.info].c = 2],
         [e EXCEPT !.k = "eNonReloc", !.info = F.code[e.info].a])
  ELSE X([F EXCEPT !.code[e.info].b = 2], [e EXCEPT !.k = "eRelocable"])

setReturns(F, e, nResults) ==
  LET n == IF nResults < 0 THEN 0 ELSE nResults + 1
  IN IF e.k = "eCall" THEN [F EXCEPT !.code[e.info].c = n]
                      ELSE [F EXCEPT !.code[e.info].b = n]

isMulti(e) == e.k \in {"eCall", "eVararg"}
openMultiRet(F, e, nResults) ==
  LET R == setReturns(F, e, nResults)
  IN IF e.k = "eVararg" THEN [R EXCEPT !.code[e.info].a = F.freereg] ELSE R

dischargeVars(F, e) ==
  LET reloc(G) == X(G, [e EXCEPT !.k = "eRelocable", !.info = last(G)])
  IN CASE e.k = "eLocal" -> X(F, [e EXCEPT !.k = "eNonReloc"])
       [] e.k = "eUpval" -> reloc(emit(F, "GETUPVAL", 0, e.info, 0))
       [] e.k = "eGlobal" -> reloc(emit(F, "GETGLOBAL", 0, e.info, 0))
       [] e.k = "eIndexed" ->
            reloc(emit(freeReg(freeOperand(F, e.aux), e.info),
                       "GETTABLE", 0, e.info, e.aux))
       [] isMulti(e) -> setOneRet(F, e)
       [] OTHER -> X(F, e)

dischargeToReg(F, e, reg) ==
  LET D == dischargeVars(F, e)
      d == D.e
      K == addConst(D.f, d.val)
      landed(G) == X(G, [d EXCEPT !.k = "eNonReloc", !.info = reg])
  IN CASE d.k = "eNil" -> landed(emit(D.f, "LOADNIL", reg, reg, 0))
       [] d.k = "eTrue" -> landed(emit(D.f, "LOADBOOL", reg, 1, 0))
       [] d.k = "eFalse" -> landed(emit(D.f, "LOADBOOL", reg, 0, 0))
       [] d.k = "eK" -> landed(emit(D.f, "LOADK", reg, d.info, 0))
       [] d.k = "eKNum" -> landed(emit(K.f, "LOADK", reg, K.k, 0))
       [] d.k = "eRelocable" -> landed([D.f EXCEPT !.code[d.info].a = reg])
       [] d.k = "eNonReloc" ->
            landed(IF d.info = reg THEN D.f ELSE emit(D.f, "MOVE", reg, d.info, 0))
       [] d.k = "eJmp" -> D

exp2reg(F, e, reg) ==
  LET D == dischargeToReg(F, e, reg)
      d == IF D.e.k = "eJmp" THEN [D.e EXCEPT !.tj = @ \cup {D.e.info}] ELSE D.e
      J == IF d.k = "eJmp" THEN [f |-> D.f, list |-> {}] ELSE jump(D.f)
      PF == emit(J.f, "LOADBOOL", reg, 0, 1)
      PT == emit(PF, "LOADBOOL", reg, 1, 0)
      both(L, pf, pt) ==
        patchListAux(patchListAux(L, d.fj, here(L), reg, pf),
                     d.tj, here(L), reg, pt)
      G == IF ~hasJumps(d) THEN D.f
           ELSE IF needValue(D.f, d.tj \cup d.fj)
           THEN both(getLabel(patchToHere(PT, J.list)), last(PF), last(PT))
           ELSE both(getLabel(D.f), 0, 0)
  IN X(G, newExp("eNonReloc", reg))

exp2NextReg(F, e) ==
  LET D == dischargeVars(F, e)
      R == reserveRegs(freeExp(D.f, D.e), 1)
  IN exp2reg(R, D.e, R.freereg - 1)

exp2AnyReg(F, e) ==
  LET D == dischargeVars(F, e)
  IN IF D.e.k = "eNonReloc" /\ ~hasJumps(D.e) THEN D
     ELSE IF D.e.k = "eNonReloc" /\ D.e.info >= nactvar(D.f)
     THEN exp2reg(D.f, D.e, D.e.info)
     ELSE exp2NextReg(D.f, D.e)

exp2Val(F, e) == IF hasJumps(e) THEN exp2AnyReg(F, e) ELSE dischargeVars(F, e)

(* [f, rk]: the value as an operand.                                       *)
exp2RK(F, e) ==
  LET V == exp2Val(F, e)
      K == IF V.e.k = "eKNum" THEN addConst(V.f, V.e.val)
                              ELSE [f |-> V.f, k |-> V.e.info]
      R == exp2AnyReg(K.f, IF V.e.k = "eKNum"
                           THEN [V.e EXCEPT !.k = "eK", !.info = K.k] ELSE V.e)
  IN IF V.e.k \in {"eK", "eKNum"} /\ K.k <= MaxK
     THEN [f |-> K.f, rk |-> -K.k]
     ELSE [f |-> R.f, rk |-> R.e.info]

dischargeToAnyReg(F, e) ==
  IF e.k = "eNonReloc" THEN X(F, e)
  ELSE LET R == reserveRegs(F, 1) IN dischargeToReg(R, e, R.freereg - 1)

(* A NOT that is only tested is dropped and the test turned round.         *)
jumpOnCond(F, e, cond) ==
  IF e.k = "eRelocable" /\ F.code[e.info].op = "NOT"
  THEN condJump([F EXCEPT !.code = SubSeq(@, 1, e.info - 1)],
                "TEST", F.code[e.info].b, 0, 1 - cond)
  ELSE LET D == dischargeToAnyReg(F, e)
       IN condJump(freeExp(D.f, D.e), "TESTSET", NoReg, D.e.info, cond)

invertJmp(F, e) == [F EXCEPT !.code[e.info - 1].a = 1 - @]

goIfTrue(F, e) ==
  LET D == dischargeVars(F, e)
      J == CASE D.e.k \in {"eK", "eKNum", "eTrue"} -> [f |-> D.f, list |-> {}]
             [] D.e.k = "eFalse" -> jump(D.f)
             [] D.e.k = "eJmp" -> [f |-> invertJmp(D.f, D.e), list |-> {D.e.info}]
             [] OTHER -> jumpOnCond(D.f, D.e, 0)
  IN X(patchToHere(J.f, D.e.tj), [D.e EXCEPT !.fj = @ \cup J.list, !.tj = {}])

goIfFalse(F, e) ==
  LET D == dischargeVars(F, e)
      J == CASE D.e.k \in {"eNil", "eFalse"} -> [f |-> D.f, list |-> {}]
             [] D.e.k = "eTrue" -> jump(D.f)
             [] D.e.k = "eJmp" -> [f |-> D.f, list |-> {D.e.info}]
             [] OTHER -> jumpOnCond(D.f, D.e, 1)
  IN X(patchToHere(J.f, D.e.fj), [D.e EXCEPT !.tj = @ \cup J.list, !.fj = {}])

------------------------------------------------------------------------------
(* Expressions.                                                            *)

RECURSIVE expr(_, _), compileArgs(_, _), concatParts(_, _), tableItems(_, _, _, _, _),
          compileFunc(_, _, _), block(_, _)

(* The arguments go to consecutive registers; n is -1 when the last one    *)
(* stands for several values.                                              *)
compileArgs(F, args) ==
  IF F.panicked \/ args = <<>> THEN [f |-> F, n |-> 0]
  ELSE LET A == expr(F, args[1])
           R == compileArgs(exp2NextReg(A.f, A.e).f, Tail(args))
       IN IF Len(args) > 1 THEN [R EXCEPT !.n = IF @ < 0 THEN @ ELSE @ + 1]
          ELSE IF isMulti(A.e) THEN [f |-> openMultiRet(A.f, A.e, -1), n |-> -1]
          ELSE [f |-> exp2NextReg(A.f, A.e).f, n |-> 1]

callWith(F, base, args, extra) ==
  LET called(A) ==
        LET C == emit(A.f, "CALL", base, IF A.n < 0 THEN 0 ELSE A.n + extra + 1, 2)
        IN X([C EXCEPT !.freereg = base + 1], newExp("eCall", last(C)))
  IN AtOnce(compileArgs(F, args), called)

exprCall(F, e) ==
  AtOnce(expr(F, e.fn), LAMBDA fn :
    callWith(exp2NextReg(fn.f, fn.e).f, F.freereg, e.args, 0))

exprMethodCall(F, e) ==
  LET recv == expr(F, e.recv)
      K == addConst(exp2NextReg(recv.f, recv.e).f, Str(e.method))
      M == exp2RK(K.f, newExp("eK", K.k))
      S == emit(M.f, "SELF", F.freereg, F.freereg, M.rk)
  IN callWith(reserveRegs(S, 1), F.freereg, e.args, 1)

exprIndex(F, e) ==
  LET O == expr(F, e.obj)
      T == exp2AnyReg(O.f, O.e)
      k == expr(T.f, e.key)
      K == exp2RK(k.f, k.e)
  IN X(K.f, [newExp("eIndexed", T.e.info) EXCEPT !.aux = K.rk])

isNumeral(e) == e.k = "eKNum" /\ ~hasJumps(e)
constFolds(op, l, r) ==
  isNumeral(l) /\ isNumeral(r) /\ ~(op \in {"/", "%"} /\ r.val[2] = 0)
number(v) == [newExp("eKNum", 0) EXCEPT !.val = v]
relocable(F) == X(F, newExp("eRelocable", last(F)))

ArithOpcode ==
  [op \in ArithOps |-> CASE op = "+" -> "ADD" [] op = "-" -> "SUB" [] op = "*" -> "MUL"
                         [] op = "/" -> "DIV" [] op = "%" -> "MOD" [] op = "^" -> "POW"]

(* A numeral on the left waits for the right operand: only if that is no   *)
(* numeral too is it put into an operand.                                  *)
exprArith(F, e) ==
  LET L == expr(F, e.l)
      early == ~isNumeral(L.e)
      B == IF early THEN exp2RK(L.f, L.e) ELSE [f |-> L.f, rk |-> 0]
      R == expr(B.f, e.r)
      C == exp2RK(R.f, R.e)
      B2 == IF early THEN [f |-> C.f, rk |-> B.rk] ELSE exp2RK(C.f, L.e)
      high == IF B2.rk > C.rk THEN B2.rk ELSE C.rk
      low == IF B2.rk > C.rk THEN C.rk ELSE B2.rk
  IN IF constFolds(e.op, L.e, R.e)
     THEN X(R.f, number(Num(Arith(e.op, L.e.val[2], R.e.val[2]))))
     ELSE relocable(emit(freeOperand(freeOperand(B2.f, high), low),
                         ArithOpcode[e.op], 0, B2.rk, C.rk))

exprCompare(F, e) ==
  LET L == expr(F, e.l)
      B == exp2RK(L.f, L.e)
      R == expr(B.f, e.r)
      C == exp2RK(R.f, R.e)
      D == freeOperand(freeOperand(C.f, C.rk), B.rk)
      op == CASE e.op \in {"==", "~="} -> "EQ" [] e.op \in {"<", ">"} -> "LT"
              [] e.op \in {"<=", ">="} -> "LE"
      want == IF e.op = "~=" THEN 0 ELSE 1
      J == IF e.op \in {">", ">="} THEN condJump(D, op, want, C.rk, B.rk)
                                   ELSE condJump(D, op, want, B.rk, C.rk)
  IN X(J.f, newExp("eJmp", last(J.f)))

(* a .. (b .. c), as the parser nests it, is one CONCAT over consecutive   *)
(* registers.                                                              *)
concatParts(F, e) ==
  LET P == expr(F, IF e.t = "Bin" /\ e.op = ".." THEN e.l ELSE e)
      G == exp2NextReg(P.f, P.e).f
  IN IF e.t = "Bin" /\ e.op = ".." THEN concatParts(G, e.r) ELSE G
exprConcat(F, e) ==
  LET P == concatParts(F, e)
      C == emit(P, "CONCAT", 0, F.freereg, P.freereg - 1)
  IN relocable([C EXCEPT !.freereg = F.freereg])

exprBin(F, e) ==
  LET L == expr(F, e.l)
      T == goIfTrue(L.f, L.e)
      N == goIfFalse(L.f, L.e)
      right(G) == LET R == expr(G, e.r) IN dischargeVars(R.f, R.e)
      A == right(T.f)
      O == right(N.f)
  IN CASE e.op = "and" -> X(A.f, [A.e EXCEPT !.fj = @ \cup T.e.fj])
       [] e.op = "or" -> X(O.f, [O.e EXCEPT !.tj = @ \cup N.e.tj])
       [] e.op \in CompareOps -> exprCompare(F, e)
       [] e.op = ".." -> exprConcat(F, e)
       [] e.op \in ArithOps -> exprArith(F, e)

exprUn(F, e) ==
  LET S == expr(F, e.e)
      R == exp2AnyReg(S.f, S.e)
      op == CASE e.op = "-" -> "UNM" [] e.op = "not" -> "NOT" [] e.op = "#" -> "LEN"
  IN IF e.op = "-" /\ isNumeral(S.e) THEN X(S.f, number(Num(-S.e.val[2])))
     ELSE relocable(emit(freeExp(R.f, R.e), op, 0, R.e.info, 0))

(* CLOSURE is followed by one word per upvalue: MOVE for a local of this   *)
(* function, GETUPVAL for one of its own upvalues.                         *)
RECURSIVE upvalWords(_, _)
upvalWords(F, ups) ==
  IF ups = <<>> THEN F
  ELSE upvalWords(emit(F, IF ups[1].inStack THEN "MOVE" ELSE "GETUPVAL",
                       0, ups[1].idx, 0), Tail(ups))
closure(B) ==
  LET G == [B.prev[1] EXCEPT !.protos = B.protos,
                             !.kids = Append(@, Len(B.protos)),
                             !.panicked = @ \/ B.panicked]
      C == emit(G, "CLOSURE", 0, Len(G.kids), 0)
  IN X(upvalWords(C, B.upvals), newExp("eRelocable", last(C)))
exprFunc(F, e) == AtOnce(compileFunc(<<F>>, F.protos, e), closure)

emitSetList(F, tReg, b, batchNo) ==
  IF batchNo <= MaxBC THEN emit(F, "SETLIST", tReg, b, batchNo)
  ELSE emit(emit(F, "SETLIST", tReg, b, 0), "WORD", batchNo, 0, 0)

tableItems(F, items, tReg, pending, batchNo) ==
  LET flushed(G, b) == [emitSetList(G, tReg, b, batchNo) EXCEPT !.freereg = tReg + 1]
      it == items[1]
      ke == expr(F, it.key[1])
      kv == exp2Val(ke.f, ke.e)
      K == exp2RK(kv.f, kv.e)
      ve == expr(IF it.key = <<>> THEN F ELSE K.f, it.val)
      V == exp2RK(ve.f, ve.e)
      S == emit(V.f, "SETTABLE", tReg, K.rk, V.rk)
      P == exp2NextReg(ve.f, ve.e).f
  IN IF F.panicked \/ items = <<>> THEN IF pending > 0 THEN flushed(F, pending) ELSE F
     ELSE IF it.key # <<>>
     THEN tableItems(freeOperand(freeOperand(S, V.rk), K.rk), Tail(items), tReg,
                     pending, batchNo)
     ELSE IF Len(items) = 1 /\ isMulti(ve.e)
     THEN flushed(openMultiRet(ve.f, ve.e, -1), 0)
     ELSE IF pending + 1 = FieldsPerFlush
     THEN tableItems(flushed(P, FieldsPerFlush), Tail(items), tReg, 0, batchNo + 1)
     ELSE tableItems(P, Tail(items), tReg, pending + 1, batchNo)

exprTable(F, e) ==
  X(tableItems(reserveRegs(emit(F, "NEWTABLE", F.freereg, 0, 0), 1),
               e.items, F.freereg, 0, 1),
    newExp("eNonReloc", F.freereg))

(* Nothing is compiled after a panic.                                      *)
expr(F, e) ==
  LET K == addConst(F, Str(e.str))
      P == expr(F, e.e)
      V == emit([F EXCEPT !.needsArg = FALSE], "VARARG", 0, 1, 0)
  IN CASE F.panicked \/ e.t = "Nil" -> X(F, newExp("eNil", 0))
       [] e.t = "True" -> X(F, newExp("eTrue", 0))
       [] e.t = "False" -> X(F, newExp("eFalse", 0))
       [] e.t = "Number" -> X(F, number(Num(e.num)))
       [] e.t = "String" -> X(K.f, newExp("eK", K.k))
       [] e.t = "Vararg" -> X(V, newExp("eVararg", last(V)))
       [] e.t = "Name" -> resolveName(F, e.name)
       [] e.t = "Paren" -> dischargeVars(P.f, P.e)
       [] e.t = "Index" -> exprIndex(F, e)
       [] e.t = "Call" -> exprCall(F, e)
       [] e.t = "MethodCall" -> exprMethodCall(F, e)
       [] e.t = "Bin" -> exprBin(F, e)
       [] e.t = "Un" -> exprUn(F, e)
       [] e.t = "Func" -> exprFunc(F, e)
       [] e.t = "Table" -> exprTable(F, e)

------------------------------------------------------------------------------
(* Statements.                                                             *)

RECURSIVE pushAll(_, _)
pushAll(F, es) ==
  IF F.panicked \/ es = <<>> THEN F
  ELSE LET E == expr(F, es[1]) IN pushAll(exp2NextReg(E.f, E.e).f, Tail(es))

(* The list's values end up in nWant consecutive registers.                *)
adjustExprList(F, es, nWant) ==
  LET n == Len(es)
      P == pushAll(F, SubSeq(es, 1, n - 1))
      L == expr(P, es[n])
      extra == nWant - (n - 1)
      O == openMultiRet(L.f, L.e, extra)
      N == exp2NextReg(L.f, L.e).f
      padded(G, k) == reserveRegs(emit(G, "LOADNIL", G.freereg, G.freereg + k - 1, 0), k)
  IN IF n = 0 THEN IF nWant > 0 THEN padded(F, nWant) ELSE F
     ELSE IF nWant < n THEN [N EXCEPT !.freereg = @ - (n - nWant)]
     ELSE IF isMulti(L.e) THEN reserveRegs(O, IF L.e.k = "eCall" THEN extra - 1 ELSE extra)
     ELSE IF nWant > n THEN padded(N, nWant - n)
     ELSE N

(* What the analyser is told of a name outlives the name's block.          *)
RECURSIVE noteAliases(_, _, _)
noteAliases(aliases, names, es) ==
  LET rest == Without(aliases, {names[1]})
      noted == IF es # <<>> /\ es[1].t \in {"Name", "Index"} THEN (names[1] :> es[1]) @@ rest ELSE rest
  IN IF names = <<>> THEN aliases
     ELSE noteAliases(noted, Tail(names), IF es = <<>> THEN es ELSE Tail(es))

stmtLocal(F, s) ==
  [registerLocals(adjustExprList(F, s.exprs, Len(s.names)), s.names) EXCEPT
     !.localAliasAsts = noteAliases(@, s.names, s.exprs)]

stmtLocalFunc(F, s) ==
  LET R == reserveRegs(registerLocals(F, <<s.name>>), 1)
  IN AtOnce(exprFunc([R EXCEPT !.localFnAsts = (s.name :> s.fn) @@ @], s.fn),
            LAMBDA E : exp2reg(E.f, E.e, F.freereg).f)

storeVar(F, lhs, rhs) ==
  LET N == resolveName(F, lhs.name)
      E == expr(N.f, rhs)
      R == exp2AnyReg(E.f, E.e)
      O == expr(F, lhs.obj)
      T == exp2AnyReg(O.f, O.e)
      k == expr(T.f, lhs.key)
      K == exp2RK(k.f, k.e)
      v == expr(K.f, rhs)
      V == exp2RK(v.f, v.e)
  IN IF lhs.t = "Index" THEN emit(V.f, "SETTABLE", T.e.info, K.rk, V.rk)
     ELSE CASE N.e.k = "eLocal" -> exp2reg(E.f, E.e, N.e.info).f
            [] N.e.k = "eUpval" -> emit(R.f, "SETUPVAL", R.e.info, N.e.info, 0)
            [] N.e.k = "eGlobal" -> emit(R.f, "SETGLOBAL", R.e.info, N.e.info, 0)

(* A local assigned to in the same statement as t[k] is copied first when  *)
(* it is that t or k: the stores come after, right to left.                *)
RECURSIVE targets(_, _, _), stores(_, _, _)
targets(F, ts, done) ==
  LET N == resolveName(F, ts[1].name)
      r == N.e.info
      clash == N.e.k = "eLocal" /\
               \E j \in DOMAIN done : done[j].k = "eIndexed" /\ r \in {done[j].info, done[j].aux}
      moved(x) == IF x = r THEN N.f.freereg ELSE x
      copied == [j \in DOMAIN done |->
                   IF done[j].k # "eIndexed" THEN done[j]
                   ELSE [done[j] EXCEPT !.info = moved(@), !.aux = moved(@)]]
      D == exprIndex(F, ts[1])
  IN IF ts = <<>> THEN [f |-> F, tgts |-> done]
     ELSE IF ts[1].t = "Index" THEN targets(D.f, Tail(ts), Append(done, D.e))
     ELSE IF clash
     THEN targets(reserveRegs(emit(N.f, "MOVE", N.f.freereg, r, 0), 1), Tail(ts),
                  Append(copied, N.e))
     ELSE targets(N.f, Tail(ts), Append(done, N.e))

stores(F, tgts, src) ==
  LET t == tgts[Len(tgts)]
      G == CASE t.k = "eLocal" -> IF t.info = src THEN F ELSE emit(F, "MOVE", t.info, src, 0)
             [] t.k = "eIndexed" -> emit(F, "SETTABLE", t.info, t.aux, src)
             [] t.k = "eGlobal" -> emit(F, "SETGLOBAL", src, t.info, 0)
             [] t.k = "eUpval" -> emit(F, "SETUPVAL", src, t.info, 0)
  IN IF tgts = <<>> THEN F ELSE stores(G, SubSeq(tgts, 1, Len(tgts) - 1), src - 1)

stmtAssign(F, s) ==
  LET T == targets(F, s.targets, <<>>)
      R == adjustExprList(T.f, s.exprs, Len(s.targets))
  IN IF Len(s.targets) = 1 /\ Len(s.exprs) = 1
     THEN storeVar(F, s.targets[1], s.exprs[1])
     ELSE stores(R, T.tgts, R.freereg - 1)

stmtCall(F, s) ==
  LET E == expr(F, s.call) IN [E.f EXCEPT !.code[E.e.info].c = 1]

scoped(F, body) == leaveBlock(block(enterBlock(F, FALSE), body))

RECURSIVE ifClauses(_, _, _, _)
ifClauses(F, cls, else, exits) ==
  LET C == expr(F, cls[1].cond)
      T == goIfTrue(C.f, C.e)
      B == scoped(T.f, cls[1].body)
      J == IF Len(cls) > 1 \/ else # <<>> THEN jump(B) ELSE [f |-> B, list |-> {}]
  IN IF cls = <<>> THEN patchToHere(IF else = <<>> THEN F ELSE scoped(F, else[1]), exits)
     ELSE ifClauses(patchToHere(J.f, T.e.fj), Tail(cls), else, exits \cup J.list)
stmtIf(F, s) == ifClauses(F, s.clauses, s.else, {})

stmtWhileOneBlock(F, s) ==
  LET S == getLabel(F)
      C == expr(S, s.cond)
      T == goIfTrue(C.f, C.e)
      J == jump(block(enterBlock(T.f, TRUE), s.body))
  IN patchToHere(leaveBlock(patchList(J.f, J.list, here(S))), T.e.fj)

(* The body is a block of its own, so that its CLOSE comes before the jump *)
(* back and not after it.                                                  *)
stmtWhile(F, s) ==
  LET S == getLabel(F)
      C == expr(S, s.cond)
      T == goIfTrue(C.f, C.e)
      J == jump(scoped(enterBlock(T.f, TRUE), s.body))
  IN patchToHere(leaveBlock(patchList(J.f, J.list, here(S))), T.e.fj)

(* A break leaves every block up to the loop: what they hold is closed.    *)
stmtBreak(F) ==
  LET loops == {i \in DOMAIN F.bl : F.bl[i].isLoop}
      l == CHOOSE i \in loops : \A j \in loops : j <= i
      C == IF \E i \in l..Len(F.bl) : F.bl[i].hasUpval
           THEN emit(F, "CLOSE", F.bl[l].nactvar, 0, 0) ELSE F
      J == jump(C)
  IN [J.f EXCEPT !.bl[l].breaks = @ \cup J.list]

(* The condition sees the body's locals.  When one of them is captured,    *)
(* both ways out of the condition have to close it: the exit is a break.   *)
stmtRepeat(F, s) ==
  LET S == getLabel(F)
      B == block(enterBlock(enterBlock(S, TRUE), FALSE), s.body)
      C == expr(B, s.cond)
      T == goIfTrue(C.f, C.e)
      captured == T.f.bl[Len(T.f.bl)].hasUpval
      J == jump(leaveBlock(patchToHere(stmtBreak(T.f), T.e.fj)))
  IN leaveBlock(IF captured THEN patchList(J.f, J.list, here(S))
                ELSE patchList(leaveBlock(T.f), T.e.fj, here(S)))

stmtNumFor(F, s) ==
  LET base == F.freereg
      P == pushAll(enterBlock(F, TRUE), <<s.init, s.limit>> \o s.step)
      D == addConst(P, Num(1))
      Q == IF s.step # <<>> THEN P
           ELSE reserveRegs(emit(D.f, "LOADK", base + 2, D.k, 0), 1)
      R == emit(registerLocals(Q, <<"(for index)", "(for limit)", "(for step)">>),
                "FORPREP", base, 0, 0)
      V == reserveRegs(registerLocals(enterBlock(R, FALSE), <<s.var>>), 1)
      B == leaveBlock(block(V, s.body))
      L == emit([B EXCEPT !.code[last(R)].b = here(B)], "FORLOOP", base, here(R), 0)
  IN leaveBlock(L)

stmtGenFor(F, s) ==
  LET base == F.freereg
      A == adjustExprList(enterBlock(F, TRUE), s.exprs, 3)
      J == jump(registerLocals(A, <<"(for generator)", "(for state)", "(for control)">>))
      V == reserveRegs(registerLocals(enterBlock(J.f, FALSE), s.names), Len(s.names))
      B == patchToHere(leaveBlock(block(V, s.body)), J.list)
      K == jump(emit(B, "TFORLOOP", base, 0, Len(s.names)))
  IN leaveBlock(patchList(K.f, K.list, here(J.f)))

stmtFunc(F, s) == stmtAssign(F, AssignStmt(<<s.target>>, <<s.fn>>))

stmtReturn(F, s) ==
  LET n == Len(s.exprs)
      one == s.exprs[1]
      C == expr(F, one)
      call == C.f.code[C.e.info]
      V == openMultiRet(C.f, C.e, -1)
      S == dischargeVars(C.f, C.e)
      N == exp2NextReg(S.f, S.e)
      P == pushAll(F, SubSeq(s.exprs, 1, n - 1))
      L == expr(P, s.exprs[n])
      ret(G, a, b) == emit(G, "RETURN", a, b, 0)
  IN IF n = 0 THEN ret(F, 0, 1)
     ELSE IF n = 1 /\ one.t \in {"Call", "MethodCall"}
     THEN ret([C.f EXCEPT !.code[C.e.info] = I("TAILCALL", call.a, call.b, 0)], call.a, 0)
     ELSE IF n = 1 /\ one.t = "Vararg" THEN ret(V, F.freereg, 0)
     ELSE IF n = 1 /\ S.e.k = "eNonReloc" /\ ~hasJumps(S.e) THEN ret(S.f, S.e.info, 2)
     ELSE IF n = 1 THEN ret(N.f, N.e.info, 2)
     ELSE IF isMulti(L.e) THEN ret(openMultiRet(L.f, L.e, -1), F.freereg, 0)
     ELSE ret(exp2NextReg(L.f, L.e).f, F.freereg, n + 1)

stmt(F, s) ==
  CASE s.t = "Local" -> stmtLocal(F, s)
    [] s.t = "LocalFunc" -> stmtLocalFunc(F, s)
    [] s.t = "Assign" -> stmtAssign(F, s)
    [] s.t = "CallStmt" -> stmtCall(F, s)
    [] s.t = "Do" -> scoped(F, s.body)
    [] s.t = "If" -> stmtIf(F, s)
    [] s.t = "While" -> stmtWhile(F, s)
    [] s.t = "Repeat" -> stmtRepeat(F, s)
    [] s.t = "NumFor" -> stmtNumFor(F, s)
    [] s.t = "GenFor" -> stmtGenFor(F, s)
    [] s.t = "FuncStmt" -> stmtFunc(F, s)
    [] s.t = "Return" -> stmtReturn(F, s)
    [] s.t = "Break" -> stmtBreak(F)

(* Temporaries die with the statement.                                     *)
block(F, b) ==
  IF F.panicked \/ b = <<>> THEN F
  ELSE LET S == stmt(F, b[1])
       IN block([S EXCEPT !.freereg = nactvar(S)], Tail(b))

------------------------------------------------------------------------------
(* Functions.                                                              *)

(* What the functions around say of their names, the nearest last; where   *)
(* one function says both, a name is an alias.                             *)
RECURSIVE outerNames(_)
outerNames(prev) ==
  LET F == prev[1]
      outer == outerNames(F.prev)
      aliases == Without(outer.aliases, DOMAIN F.localFnAsts)
  IN IF prev = <<>> THEN [funcs |-> <<>>, aliases |-> <<>>]
     ELSE [funcs |-> Without(F.localFnAsts @@ outer.funcs, DOMAIN F.localAliasAsts),
           aliases |-> F.localAliasAsts @@ aliases]

analyzeCompilability(prev, fe, proto) ==
  LET outer == outerNames(prev)
  IN [code |-> proto.code, consts |-> proto.consts, upvals |-> proto.upvals,
      kids |-> proto.kids, numparams |-> proto.numparams, vararg |-> proto.vararg,
      needsArg |-> proto.needsArg, maxstack |-> proto.maxstack,
      reasons |-> AnalyzeProtoWithOuter(fe, proto, outer.funcs, outer.aliases)]

compileFunc(prev, protos, fe) ==
  LET N == newFuncState(prev, protos, fe)
      L == registerLocals(N, fe.params \o IF N.needsArg THEN <<"arg">> ELSE <<>>)
      B == block([L EXCEPT !.freereg = nactvar(L), !.maxstack = nactvar(L)], fe.body)
      R == emit(B, "RETURN", 0, 1, 0)
      proto == [code |-> R.code, consts |-> R.consts, upvals |-> R.upvals,
                kids |-> R.kids, numparams |-> R.numparams, vararg |-> R.vararg,
                needsArg |-> R.needsArg,
                maxstack |-> IF R.maxstack < 2 THEN 2 ELSE R.maxstack]
  IN [R EXCEPT !.protos = Append(@, analyzeCompilability(prev, fe, proto))]

(* The main chunk is a vararg function without an "arg" table; its         *)
(* prototype is the last one.                                              *)
Compile(body) == compileFunc(<<>>, <<>>, FuncExpr(<<>>, "main", body))
=============================================================================
