-------------------------------- MODULE Replay --------------------------------
(***************************************************************************)
(* Replayed functions at work: Run in                                      *)
(* internal/gibbous/jit/peroptranslator/peropcode.go, which executes what  *)
(* AnalyzeShape of module NativeAnalysis made of a prototype.              *)
(*                                                                         *)
(* Where Run has lists - effects before the loop, in it, behind it - the   *)
(* position here is a pc: the next step is the first one from there on.    *)
(* Run keeps no address, the helpers find the registers by the frame.      *)
(*                                                                         *)
(* Left out: the fuel of loops (StepBudget), and the cap on their rounds.  *)
(***************************************************************************)
EXTENDS TemplateCode

Plan(v) == NativeOf(Frame(v).gib.pid).replay
StepAt(v) == Min({pc \in DOMAIN Plan(v).steps \cup {Plan(v).retPC} : pc >= Here(v)})
Pos == StepAt(vm)
Effect == Plan(vm).steps[Pos]

Replaying ==
  /\ Running /\ NativeTier /\ Compiled(vm) /\ Frame(vm).gib.waits = "no"
  /\ NativeOf(Frame(vm).gib.pid).code = "replay"
  /\ steps' = steps + 1
  /\ UNCHANGED <<program, promoted, stress>>
AtEffect(ops) == Replaying /\ Pos # Plan(vm).retPC /\ Effect.op \in ops
Behind(v) == Continue(v, Pos + 1)

------------------------------------------------------------------------------
(* Effects.                                                                *)

Loaded(v, i) ==
  CASE i.op = "MOVE" -> SetReg(v, i.a, RegOf(v, i.b))
    [] i.op = "LOADK" -> SetReg(v, i.a, constantOf(v, i))
    [] i.op = "LOADBOOL" -> SetReg(v, i.a, Bool(i.b # 0))
    [] i.op = "LOADNIL" -> PutAt(v, At(v, i), Pad(<<>>, i.b - i.a + 1))
Executed(v, i, pc) ==
  CASE i.op \in {"MOVE", "LOADK", "LOADBOOL", "LOADNIL"} -> Loaded(v, i)
    [] i.op = "SELF" -> h_self(v, i, pc)
    [] i.op = "SETLIST" -> h_setlist(v, i, pc)
    [] i.op = "CLOSURE" -> h_closure(v, i, pc)
    [] i.op = "CLOSE" -> h_close(v, i)
    [] i.op = "CONCAT" -> h_concat(v, i, pc)
    [] OTHER -> Helper(v, i, pc)

runEffect ==
  /\ AtEffect(ArithAll \cup
       {"MOVE", "LOADK", "LOADBOOL", "LOADNIL", "SELF", "SETLIST", "CLOSURE", "CLOSE",
        "GETUPVAL", "SETUPVAL", "GETGLOBAL", "SETGLOBAL", "GETTABLE", "SETTABLE", "NEWTABLE"})
  /\ vm' = Behind(Executed(vm, Effect, Pos))

(* The position is the call's until it has come back.                      *)
ToCall == Waiting(Saved(Continue(vm, Pos), Pos), "replay")
runEffectCall == AtEffect({"CALL"}) /\ vm' = doCall(ToCall, Effect)
runEffectTailCall == AtEffect({"TAILCALL"}) /\ vm' = doTailCall(ToCall, Effect)

afterReplayedCall ==
  /\ Running /\ NativeTier /\ Compiled(vm) /\ Frame(vm).gib.waits = "replay"
  /\ vm' = Resumed(Waiting(vm, "no"), Here(vm) + 1)
  /\ UNCHANGED <<program, promoted, stress, steps>>

------------------------------------------------------------------------------
(* Loops.                                                                  *)

runForPrep ==
  /\ AtEffect({"FORPREP"})
  /\ vm' = Continue(h_forprep(vm, Effect, Pos), Effect.b)

runForLoop ==
  /\ AtEffect({"FORLOOP"})
  /\ LET step == RegOf(vm, Effect.a + 2)[2]
         idx == RegOf(vm, Effect.a)[2] + step
         S == SetReg(vm, Effect.a, Num(idx))
     IN vm' = IF Within(idx, RegOf(vm, Effect.a + 1)[2], step)
              THEN Continue(SetReg(S, Effect.a + 3, Num(idx)), Effect.b)
              ELSE Behind(S)

runTForLoop ==
  /\ AtEffect({"TFORLOOP"})
  /\ vm' = h_tforloop(Continue(vm, Pos), Effect, Pos)

(* Into the loop, and from its end back to the body.                       *)
runTForLoopJump == AtEffect({"JMP"}) /\ vm' = Continue(vm, Effect.b)

------------------------------------------------------------------------------
(* The values that are returned, and the return.                           *)

cmpSource(v, src) ==
  LET i == ProtoNow(v).code[src.pc]
      S == Saved(v, src.pc)
      outcome == h_compare(S, i)
  IN IF outcome = <<>> THEN Raise(S, Fault)
     ELSE SetReg(S, src.reg, Bool(outcome[1] = (i.a # 0)))

andOrSource(v, src) ==
  LET i == ProtoNow(v).code[src.pc]
      b == RegOf(v, i.b)
  IN IF Truthy(b) = (i.c # 0) THEN SetReg(v, src.reg, b)
     ELSE Loaded(v, ProtoNow(v).code[src.pc + 2])

(* What was given no source is the number 0, as a new slotSource is.       *)
Materialised(v, src) ==
  CASE src.kind = "reg" -> v
    [] src.kind = "op" -> Executed(v, ProtoNow(v).code[src.pc], src.pc)
    [] src.kind = "cmp" -> cmpSource(v, src)
    [] src.kind = "andOr" -> andOrSource(v, src)
    [] src.kind = "nil" -> SetReg(v, src.reg, Nil)
    [] src.kind = "unset" -> SetReg(v, src.reg, Num(0))

ReplayReturn(v) ==
  LET retPC == Plan(v).retPC
      ret == ProtoNow(v).code[retPC]
      S == JumpTo(v, retPC)
  IN returnFrom(S, At(S, ret), CountFrom(S, At(S, ret), ret.b))

runReplayReturn ==
  /\ Replaying /\ Pos = Plan(vm).retPC
  /\ vm' = AndThen(FoldLeft(LAMBDA v, src : AndThen(v, LAMBDA w : Materialised(w, src)),
                            vm, Plan(vm).sources),
                   ReplayReturn)

ReplayNext ==
  \/ runEffect \/ runEffectCall \/ runEffectTailCall \/ afterReplayedCall
  \/ runForPrep \/ runForLoop \/ runTForLoop \/ runTForLoopJump \/ runReplayReturn
=============================================================================
