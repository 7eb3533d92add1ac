----------------------------- MODULE Execution -----------------------------
(***************************************************************************)
(* A run of a program (callOnStack and Call in internal/crescent/state.go):*)
(* the loaded chunk is entered, and its frames are interpreted or execute  *)
(* compiled code until the chunk returns or dies.                          *)
(* Before that its text is parsed and the tree compiled (Compile in        *)
(* wangshu.go), also by the compilers of the other tiers, for those that   *)
(* are promoted.  Both what the parser is given and what to expect of the  *)
(* program are said by module Reference, which knows the grammar and the   *)
(* meaning the Lua manual gives a program, and neither the parser nor the  *)
(* code generator.                                                         *)
(***************************************************************************)
EXTENDS Interpreter, Replay, Parser

(* The value of Build.                                                     *)
CompileSource(body) ==
  LET tree == ParseAtCDepth(WriteBlock(body))
      main == Compile(tree.body)
  IN [ok |-> tree.ok /\ ~main.panicked, protos |-> main.protos,
      wasm |-> [pid \in DOMAIN main.protos |-> CompileWasm(main.protos, pid)],
      native |-> [mono \in BOOLEAN |->
                    [pid \in DOMAIN main.protos |-> CompileNative(main.protos, pid, mono)]],
      meaning |-> Meaning(body)]

(* callOnStack has pushed the loaded chunk and entered its frame.          *)
Start ==
  enterLuaFrame(
    [stack |-> [i \in Slots |-> IF i = 0 THEN Fun(1) ELSE Junk], top |-> 1,
     room |-> InitialStack, origin |-> 0, frames |-> <<>>,
     open |-> <<>>, maxOpen |-> 0, uvs |-> <<>>,
     clos |-> (1 :> [proto |-> Len(Protos), ups |-> <<>>]),
     tabs |-> (1 :> InitialGlobals), next |-> 2,
     xfer |-> 0, ics |-> <<>>, out |-> <<>>, raised |-> <<>>, done |-> FALSE],
    0, 0, -1, TRUE, [k |-> "main"])

Init ==
  /\ \E p \in DOMAIN Programs : program = Build(Programs[p])
  /\ promoted \in Promotions(program)
  /\ stress \in BOOLEAN
  /\ steps = 0
  /\ vm = Start

Stopped == vm.done /\ UNCHANGED vars

Next == InterpreterNext \/ GibbousNext \/ NativeNext \/ TemplateNext \/ ReplayNext \/ Stopped

Spec == Init /\ [][Next]_vars

------------------------------------------------------------------------------
(* Parsed, compiled and executed, a program prints what the evaluator of   *)
(* module Reference makes of it and dies of the same error, if it dies: no *)
(* value is lost in a register that is used again, no jump leads astray,   *)
(* no closure sees another variable than the one in scope where it was     *)
(* written, whichever instruction the collector runs at.  And it ends: no  *)
(* program takes more than StepLimit instructions.                         *)
RunsAsWritten ==
  LET printed == Len(vm.out)
      meaning == program.meaning
  IN /\ program.ok
     /\ printed <= Len(meaning.out) /\ vm.out = SubSeq(meaning.out, 1, printed)
     /\ steps <= StepLimit
     /\ vm.done => printed = Len(meaning.out) /\ vm.raised = meaning.error

(* Open upvalues and the bookkeeping beside them agree (table.go:85-128):  *)
(* every upvalue that still reads the stack is the one registered for its  *)
(* slot, maxOpenIdx is the highest such slot, so that the fast path of     *)
(* closeUpvals skips nothing, and the slot is a register of a frame that   *)
(* is still there, outside the frames above it.                            *)
OwnedBy(i, f) ==
  /\ vm.frames[f].base <= i
  /\ i < IF f < Len(vm.frames) THEN vm.frames[f + 1].func
         ELSE vm.frames[f].base + ProtoOf(vm.frames[f]).maxstack
OpenUpvaluesLive ==
  /\ UpvalsLinked(vm)
  /\ \A i \in DOMAIN vm.open : \E f \in DOMAIN vm.frames : OwnedBy(i, f)

(* Nothing that can be reached was freed: neither the stack, the slots     *)
(* above top included, nor an upvalue, a closure, a table or a frame holds *)
(* a reference to an object the collector has taken back.                  *)
Exists(x) ==
  CASE x[1] = "tab" -> x[2] \in DOMAIN vm.tabs
    [] x[1] = "fun" -> x[2] \in DOMAIN vm.clos
    [] x[1] = "uv" -> x[2] \in DOMAIN vm.uvs
    [] OTHER -> TRUE
NoDangling ==
  /\ \A i \in Slots : Exists(vm.stack[i])
  /\ \A f \in DOMAIN vm.frames : Exists(Fun(vm.frames[f].cl))
  /\ \A x \in {Tab(t) : t \in DOMAIN vm.tabs} \cup {Fun(c) : c \in DOMAIN vm.clos}
                \cup {<<"uv", u>> : u \in DOMAIN vm.uvs} :
       \A y \in RefsOf(vm, x) : Exists(y)

(* Memory and what compiled code believes of it agree (the comments of     *)
(* emitCall in translate_table.go, of tryIndirectCallee in gibbous_host.go *)
(* and of emitCallInlineFastPath in emit_ops_amd64.go): a frame's          *)
(* registers lie in the segment the stack has now, and where compiled code *)
(* is at work, its base is the address of its own frame's registers -      *)
(* after every call that moved the stack, that failed, or that a callee    *)
(* returned from on any of its ways.  A callee that native code called     *)
(* directly has its registers in that segment too, though no frame says so.*)
BaseOf(gib) == IF NativeTier /\ gib.calls # <<>> THEN gib.calls[1].base ELSE gib.base
StackInPlace ==
  /\ vm.top <= vm.room
  /\ \A f \in DOMAIN vm.frames :
       LET frame == vm.frames[f]
       IN /\ frame.base + ProtoOf(frame).maxstack <= vm.room
          /\ frame.gib # <<>> /\ frame.gib.waits = "no" /\ f = Len(vm.frames) =>
               /\ BaseOf(frame.gib) = vm.origin + frame.base
               /\ NativeTier =>
                    frame.gib.base + Protos[frame.gib.pid].maxstack <= vm.origin + vm.room
=============================================================================
