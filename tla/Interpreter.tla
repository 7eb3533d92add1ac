----------------------------- MODULE Interpreter -----------------------------
(***************************************************************************)
(* The bytecode interpreter (executeLoop in internal/crescent/execute.go): *)
(* one action per case of its switch, taken while the current frame is not *)
(* compiled.                                                               *)
(***************************************************************************)
EXTENDS Machine

Ins == ProtoNow(vm).code[Frame(vm).pc]
Fetched(ops) ==
  /\ Running /\ ~Compiled(vm) /\ Ins.op \in ops
  /\ steps' = steps + 1
  /\ UNCHANGED <<program, promoted, stress>>
Now == Skip(vm)

Move ==
  /\ Fetched({"MOVE"})
  /\ vm' = SetReg(Now, Ins.a, RegOf(vm, Ins.b))

Load ==
  /\ Fetched({"LOADK", "LOADBOOL", "LOADNIL"})
  /\ vm' = CASE Ins.op = "LOADK" -> SetReg(Now, Ins.a, ProtoNow(vm).consts[Ins.b])
             [] Ins.op = "LOADBOOL" ->
                  SkipIf(SetReg(Now, Ins.a, Bool(Ins.b # 0)), Ins.c # 0)
             [] Ins.op = "LOADNIL" ->
                  PutAt(Now, Frame(vm).base + Ins.a, Pad(<<>>, Ins.b - Ins.a + 1))

GetUpval ==
  /\ Fetched({"GETUPVAL"})
  /\ vm' = SetReg(Now, Ins.a, UpvalGet(vm, Upvalue(vm, Ins.b)))

SetUpval ==
  /\ Fetched({"SETUPVAL"})
  /\ vm' = UpvalSet(Now, Upvalue(vm, Ins.b), RegOf(vm, Ins.a))

GetGlobal == Fetched({"GETGLOBAL"}) /\ vm' = getGlobal(Now, Ins)
SetGlobal == Fetched({"SETGLOBAL"}) /\ vm' = setGlobal(Now, Ins)
GetTable == Fetched({"GETTABLE"}) /\ vm' = getTable(Now, Ins)
SetTable == Fetched({"SETTABLE"}) /\ vm' = setTable(Now, Ins)
Self == Fetched({"SELF"}) /\ vm' = self(Now, Ins)
NewTable == Fetched({"NEWTABLE"}) /\ vm' = newTable(Now, Ins)
SetList == Fetched({"SETLIST"}) /\ vm' = doSetList(Now, Ins)

DoArith ==
  /\ Fetched({"ADD", "SUB", "MUL", "DIV", "MOD", "POW"})
  /\ vm' = doArith(Now, Ins)

Unary ==
  /\ Fetched({"UNM", "NOT", "LEN"})
  /\ vm' = CASE Ins.op = "NOT" -> SetReg(Now, Ins.a, Bool(~Truthy(RegOf(vm, Ins.b))))
             [] Ins.op = "UNM" -> unm(Now, Ins)
             [] Ins.op = "LEN" -> length(Now, Ins)

DoConcat == Fetched({"CONCAT"}) /\ vm' = doConcat(Now, Ins)

Jmp ==
  /\ Fetched({"JMP"})
  /\ vm' = JumpTo(vm, Ins.b)

Compare ==
  /\ Fetched({"EQ", "LT", "LE"})
  /\ LET b == RKOf(vm, Ins.b)
         c == RKOf(vm, Ins.c)
     IN vm' = IF Comparable(Ins.op, b, c)
              THEN SkipIf(Now, Holds(Ins.op, b, c) # (Ins.a # 0))
              ELSE Raise(Now, Fault)

Test ==
  /\ Fetched({"TEST", "TESTSET"})
  /\ LET b == RegOf(vm, IF Ins.op = "TEST" THEN Ins.a ELSE Ins.b)
     IN vm' = IF Truthy(b) # (Ins.c # 0) THEN Skip(Now)
              ELSE IF Ins.op = "TESTSET" THEN SetReg(Now, Ins.a, b) ELSE Now

DoCall == Fetched({"CALL"}) /\ vm' = doCall(Now, Ins)

(* Native code of a Lua callee takes over the frame.                       *)
DoTailCall ==
  /\ Fetched({"TAILCALL"})
  /\ LET fn == RegOf(vm, Ins.a)
         T == doTailCall(Now, Ins)
     IN vm' = IF NativeTier /\ Promoted(vm, fn, promoted.all) THEN enterNative(T) ELSE T

DoReturn ==
  /\ Fetched({"RETURN"})
  /\ vm' = returnFrom(Now, At(vm, Ins), CountFrom(vm, At(vm, Ins), Ins.b))

ForPrep ==
  /\ Fetched({"FORPREP"})
  /\ LET P == forPrep(Now, Ins)
     IN vm' = IF P.raised = <<>> THEN JumpTo(P, Ins.b) ELSE P

ForLoop ==
  /\ Fetched({"FORLOOP"})
  /\ LET step == RegOf(vm, Ins.a + 2)[2]
         idx == RegOf(vm, Ins.a)[2] + step
         S == SetReg(SetReg(Now, Ins.a, Num(idx)), Ins.a + 3, Num(idx))
     IN vm' = IF Within(idx, RegOf(vm, Ins.a + 1)[2], step) THEN JumpTo(S, Ins.b) ELSE Now

TForLoop == Fetched({"TFORLOOP"}) /\ vm' = tForLoop(Now, Ins)

Close == Fetched({"CLOSE"}) /\ vm' = closeUpvals(Now, At(vm, Ins))
MakeClosure == Fetched({"CLOSURE"}) /\ vm' = makeClosure(Now, Ins)

(* The extra arguments lie below the base.                                 *)
DoVararg ==
  /\ Fetched({"VARARG"})
  /\ LET at == At(vm, Ins)
         extra == SliceOf(vm, Frame(vm).base - Frame(vm).nva, Frame(vm).nva)
     IN vm' = IF Ins.b = 0
              THEN SetTop(PutAt(ensureStack(Now, at + Len(extra)), at, extra), at + Len(extra))
              ELSE PutAt(Now, at, Pad(extra, Ins.b - 1))

Unwind ==
  /\ ~vm.done
  /\ vm.raised # <<>>
  /\ vm' = unwound(vm)
  /\ UNCHANGED <<program, promoted, stress, steps>>

InterpreterNext ==
  \/ Move \/ Load \/ GetUpval \/ SetUpval \/ GetGlobal \/ SetGlobal
  \/ GetTable \/ SetTable \/ Self \/ NewTable \/ SetList
  \/ DoArith \/ Unary \/ DoConcat \/ Jmp \/ Compare \/ Test
  \/ DoCall \/ DoTailCall \/ DoReturn \/ ForPrep \/ ForLoop \/ TForLoop
  \/ Close \/ MakeClosure \/ DoVararg \/ Unwind
=============================================================================
