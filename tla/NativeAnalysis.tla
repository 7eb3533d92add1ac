--------------------------- MODULE NativeAnalysis ---------------------------
(***************************************************************************)
(* What the native compiler decides before it emits code                   *)
(* (internal/gibbous/jit/peroptranslator: cfg.go, translator_native.go and *)
(* the eligibility part of call_ic.go): which prototypes it takes, which   *)
(* of those the compiler as a whole prefers to hand to it, and which may   *)
(* be called by a machine call from other native code, without a frame.    *)
(*                                                                         *)
(* The compiler reads the inline caches that the interpreter left behind.  *)
(* Here a site has been executed, and found what its operand suggests: a   *)
(* node of the table for a key that is a string in the code, an element of *)
(* the array for any other.  Left out: math intrinsics, and tables made    *)
(* for 256 elements and more.                                              *)
(***************************************************************************)
EXTENDS Wasm

CONSTANT CallSpacing   \* instructions per call that pay (source: 16)

ASSUME SpacingAssumption == CallSpacing \in Nat

ArithFast == {"ADD", "SUB", "MUL", "DIV"}
ArithAll == ArithFast \cup {"MOD", "POW"}

------------------------------------------------------------------------------
(* The tier's own flow graph is built the same way; the words behind       *)
(* CLOSURE are stepped over.                                               *)
closurePseudoSkip(protos, proto, ins) == Len(protos[proto.kids[ins.b]].upvals)
nextRealPC(protos, proto, pc) ==
  IF proto.code[pc].op # "CLOSURE" THEN pc + 1
  ELSE pc + 1 + closurePseudoSkip(protos, proto, proto.code[pc])

RECURSIVE realFrom(_, _, _, _)
realFrom(protos, proto, pc, to) ==
  IF pc > to THEN {}
  ELSE {pc} \cup realFrom(protos, proto, nextRealPC(protos, proto, pc), to)
realPCs(protos, proto, G, u) == realFrom(protos, proto, G.start[u], G.last[u])
livePCs(protos, proto) ==
  LET G == buildCFG(proto.code)
  IN UNION {realPCs(protos, proto, G, u) : u \in reachableBlocks(G)}

------------------------------------------------------------------------------
(* Which prototypes are taken.                                             *)

ICKind(proto, key) ==
  IF IsK(key) /\ proto.consts[-key][1] = "str" THEN "NodeHit" ELSE "ArrayHit"

(* All but VARARG.                                                         *)
opSupported ==
  {"MOVE", "LOADK", "LOADBOOL", "LOADNIL", "ADD", "SUB", "MUL", "DIV", "MOD", "POW",
   "NOT", "UNM", "LEN", "EQ", "LT", "LE", "TEST", "TESTSET", "JMP", "FORPREP", "FORLOOP",
   "GETTABLE", "SETTABLE", "NEWTABLE", "GETUPVAL", "SETUPVAL", "GETGLOBAL", "SETGLOBAL",
   "SELF", "CONCAT", "SETLIST", "CALL", "TAILCALL", "TFORLOOP", "CLOSURE", "CLOSE", "RETURN"}

(* Constants of inlined arithmetic are numbers; nothing is taken that      *)
(* depends on top, which the code does not maintain; behind a tail call    *)
(* comes the RETURN that finishes it when the callee is a host function.   *)
acceptsOp(proto, pc) ==
  LET i == proto.code[pc]
      numericK(x) == IsK(x) => IsNumber(proto.consts[-x])
  IN /\ i.op \in opSupported
     /\ i.op \in {"ADD", "SUB", "MUL", "DIV", "LT", "LE"} => numericK(i.b) /\ numericK(i.c)
     /\ i.op \in {"CALL", "SETLIST"} => i.b # 0 /\ i.c # 0
     /\ i.op = "TAILCALL" =>
          /\ i.b # 0
          /\ pc < Len(proto.code)
          /\ proto.code[pc + 1].op = "RETURN" /\ proto.code[pc + 1].b = 0

(* What a redo of a call that was given up half way depends on: the callee *)
(* had no effect, and its parameters are what they were.  The whole code   *)
(* counts, also what cannot be reached.                                    *)
seg2segOpsEligible(proto) ==
  \A pc \in DOMAIN proto.code :
    LET i == proto.code[pc]
    IN /\ \/ i.op \in {"MOVE", "LOADK", "LOADBOOL", "LOADNIL", "JMP", "RETURN", "FORPREP",
                       "FORLOOP", "TEST", "TESTSET", "ADD", "SUB", "MUL", "DIV", "LT", "LE",
                       "EQ", "GETUPVAL", "CALL"}
          \/ i.op = "GETTABLE" /\ ICKind(proto, i.c) = "ArrayHit"
       /\ i.op = "RETURN" => i.b # 0
       /\ i.op \notin {"JMP", "RETURN", "TEST", "LT", "LE", "EQ"} => i.a >= proto.numparams

AnalyzeNative(protos, proto) ==
  LET G == buildCFG(proto.code)
      live == livePCs(protos, proto)
      calls == {pc \in live : proto.code[pc].op = "CALL"}
  IN /\ ~proto.vararg
     /\ \A pc \in live : acceptsOp(proto, pc)
     /\ \A u \in reachableBlocks(G) : \A pc \in realPCs(protos, proto, G, u) :
          nextRealPC(protos, proto, pc) <= G.last[u] + 1
     /\ \E pc \in live : proto.code[pc].op \in {"RETURN", "TAILCALL"}
     /\ calls # {} /\ Cardinality(live) \div Cardinality(calls) < CallSpacing =>
          seg2segOpsEligible(proto)

(* Preferred to every template: more than one block, and a long one that   *)
(* is not the first.                                                       *)
PreferNative(protos, proto) ==
  LET G == buildCFG(proto.code)
      live == reachableBlocks(G)
  IN /\ AnalyzeNative(protos, proto)
     /\ Cardinality(live) >= 2
     /\ \E u \in live \ {1} : G.last[u] - G.start[u] >= 3

------------------------------------------------------------------------------
(* What the call sites of other functions want to know.                    *)

ProtoSeg2SegEligible(protos, proto) ==
  AnalyzeNative(protos, proto) /\ seg2segOpsEligible(proto)

(* The number of values every RETURN that can be reached returns, -1 if    *)
(* they differ.                                                            *)
ProtoSeg2SegRetCount(protos, proto) ==
  LET widths == {proto.code[pc].b - 1 : pc \in
                   {p \in livePCs(protos, proto) : proto.code[p].op = "RETURN"}}
  IN IF Cardinality(widths) = 1 THEN CHOOSE w \in widths : TRUE ELSE -1

TranslateProtoNative(protos, pid) ==
  LET proto == protos[pid]
  IN [ok |-> AnalyzeNative(protos, proto),
      preferred |-> PreferNative(protos, proto),
      direct |-> ProtoSeg2SegEligible(protos, proto),
      width |-> ProtoSeg2SegRetCount(protos, proto)]

------------------------------------------------------------------------------
(* What is not taken may still be replayed: the instructions of the code   *)
(* up to its first RETURN, straight on but for one loop of the simplest    *)
(* kind, are executed by the host one by one (AnalyzeShape,                *)
(* translator.go).  The head of a value that is returned is the last       *)
(* instruction that writes its register.  Heads are executed when all else *)
(* is done, from the first value to the last: one that something else is   *)
(* executed behind is demoted, to be executed where it stands.             *)

(* A comparison made a value, and the choice between two values.           *)
matchCmpDiamond(code, pc) ==
  /\ code[pc].op \in {"EQ", "LT", "LE"}
  /\ code[pc + 1].op = "JMP" /\ code[pc + 1].b = pc + 3
  /\ code[pc + 2].op = "LOADBOOL" /\ code[pc + 2].b = 0 /\ code[pc + 2].c = 1
  /\ code[pc + 3].op = "LOADBOOL" /\ code[pc + 3].b = 1 /\ code[pc + 3].c = 0
  /\ code[pc + 2].a = code[pc + 3].a

StringConst(proto, i) == proto.consts[i.b][1] = "str"
matchAndOrDiamond(proto, pc) ==
  LET code == proto.code
  IN /\ code[pc].op = "TESTSET"
     /\ code[pc + 1].op = "JMP" /\ code[pc + 1].b = pc + 3
     /\ code[pc + 2].a = code[pc].a
     /\ \/ code[pc + 2].op = "MOVE"
        \/ code[pc + 2].op = "LOADK" /\ ~StringConst(proto, code[pc + 2])

sideEffectFromIns(i) ==
  i.op \in {"SETUPVAL", "SETTABLE", "SETGLOBAL", "CLOSE"} \/ (i.op = "SETLIST" /\ i.c > 0)
scratchFromIns(proto, i) ==
  \/ i.op \in {"MOVE", "LOADNIL", "GETUPVAL", "GETGLOBAL", "GETTABLE", "NEWTABLE"}
  \/ i.op = "LOADK" /\ ~StringConst(proto, i)
  \/ i.op = "LOADBOOL" /\ i.c = 0
bodyEffectFromIns(proto, i) ==
  sideEffectFromIns(i) \/ scratchFromIns(proto, i) \/ i.op \in ArithAll
headOpSource(proto, i) ==
  scratchFromIns(proto, i) \/ i.op \in ArithAll \cup {"UNM", "LEN", "NOT", "CONCAT"}
isDeferredCapable(op) ==
  op \in ArithAll \cup {"LOADK", "LOADBOOL", "MOVE", "GETUPVAL", "UNM", "LEN", "CONCAT",
                       "GETTABLE", "GETGLOBAL", "NEWTABLE"}

(* The registers that the search for the last writers takes an instruction *)
(* to write: A, for all that is not mentioned, a jump included.            *)
Writes(i) ==
  CASE i.op \in {"SETUPVAL", "SETTABLE", "SETGLOBAL", "SETLIST", "CLOSE"} -> {}
    [] i.op = "SELF" -> {i.a, i.a + 1}
    [] i.op = "CALL" -> i.a..(i.a + i.c - 2)
    [] i.op = "LOADNIL" -> i.a..i.b
    [] OTHER -> {i.a}

(* Loops: the instructions that make the loop, and those it repeats.       *)
Where(code, op, before) == {pc \in 1..(before - 1) : code[pc].op = op}
loopInfo(code, pc, retPC) ==
  LET to == code[pc].b
  IN [control |-> {pc, to}, body |-> (pc + 1)..(to - 1),
      fits |-> /\ pc < to /\ to < retPC
               /\ code[to].op = "FORLOOP" /\ code[to].a = code[pc].a /\ code[to].b = pc + 1]
tloopInfo(code, pc, retPC) ==
  LET start == code[pc + 1].b
  IN [control |-> {start - 1, pc, pc + 1}, body |-> start..(pc - 1),
      fits |-> /\ pc + 1 < retPC /\ code[pc + 1].op = "JMP"
               /\ 1 < start /\ start < pc
               /\ code[start - 1].op = "JMP" /\ code[start - 1].b = pc]
loopsOf(code, retPC) ==
  {loopInfo(code, pc, retPC) : pc \in Where(code, "FORPREP", retPC)}
    \cup {tloopInfo(code, pc, retPC) : pc \in Where(code, "TFORLOOP", retPC)}

(* What stands for an instruction of its own: neither a closure's words nor *)
(* the rest of a diamond, whose first instruction stands for all of it.    *)
diamonds(protos, proto, retPC) ==
  LET code == proto.code
      words == UNION {(pc + 1)..(nextRealPC(protos, proto, pc) - 1) :
                        pc \in Where(code, "CLOSURE", retPC)}
      cmps == {pc \in 1..(retPC - 4) : matchCmpDiamond(code, pc)}
      andOrs == {pc \in 1..(retPC - 3) : matchAndOrDiamond(proto, pc)}
      members == UNION ({(pc + 1)..(pc + 3) : pc \in cmps}
                          \cup {(pc + 1)..(pc + 2) : pc \in andOrs})
  IN [cmps |-> cmps, andOrs |-> andOrs, words |-> words,
      real |-> (1..(retPC - 1)) \ (words \cup members)]

(* The last writer of each register that is returned, 0 for none.          *)
lastWriters(code, D, slots) ==
  LET written(pc) == IF pc \in D.cmps THEN {code[pc + 2].a} ELSE Writes(code[pc])
  IN [r \in slots |-> Max({0} \cup {pc \in D.real : r \in written(pc)})]

(* What of a LOADNIL has to be executed where it stands.                   *)
notHeads(code, headPC, pc) ==
  {r \in Writes(code[pc]) : r \notin DOMAIN headPC \/ headPC[r] # pc}

(* The last instruction that is executed where it stands: a head before it *)
(* cannot wait.                                                            *)
lastReplay(code, D, headPC, control) ==
  LET deferrable(pc) ==
        \/ pc \in D.cmps \cup D.andOrs
        \/ pc \in Range(headPC) /\ isDeferredCapable(code[pc].op)
        \/ code[pc].op = "LOADNIL" /\ notHeads(code, headPC, pc) = {}
  IN Max({0} \cup {pc \in D.real : ~deferrable(pc)} \cup control)

(* What makes the value of register r when all else is done.               *)
slotSource(D, r, pc, late, nils, control) ==
  [reg |-> r, pc |-> pc,
   kind |-> CASE pc \in control -> "unset"
              [] pc \in late \cap D.cmps -> "cmp"
              [] pc \in late \cap D.andOrs -> "andOr"
              [] pc \in late \ (D.cmps \cup D.andOrs) -> "op"
              [] pc \in nils -> "nil"
              [] OTHER -> "reg"]

(* The code to be replayed: .steps are the instructions executed where     *)
(* they stand, and how; .sources what makes each value returned.           *)
NoReplay == [ok |-> FALSE, retPC |-> 0, steps |-> <<>>, sources |-> <<>>]
shapeInfo(protos, proto, retPC, loops) ==
  LET code == proto.code
      ret == code[retPC]
      control == UNION {l.control : l \in loops}
      body == UNION {l.body : l \in loops}
      D == diamonds(protos, proto, retPC)
      headPC == lastWriters(code, D, ret.a..(ret.a + ret.b - 2))
      heads == Range(headPC)
      lastPC == lastReplay(code, D, headPC, control)
      straight == D.real \ (control \cup body)
      inPlace(pc) ==
        \/ sideEffectFromIns(code[pc]) \/ code[pc].op \in {"CLOSURE", "CALL", "SELF"}
        \/ code[pc].op = "TAILCALL" /\ ret.b = 0 /\ pc = retPC - 1
      loadNils == {pc \in straight : code[pc].op = "LOADNIL"}
      nils(pc) == IF pc < lastPC THEN Writes(code[pc]) ELSE notHeads(code, headPC, pc)
      choices == {pc \in straight \ loadNils : ~inPlace(pc)}
      late == {pc \in choices \cap heads : pc >= lastPC}
      accepted(pc) ==
        IF pc \in D.cmps \cup D.andOrs THEN pc \in late
        ELSE IF pc \in late THEN headOpSource(proto, code[pc])
        ELSE IF pc \in heads THEN bodyEffectFromIns(proto, code[pc])
        ELSE scratchFromIns(proto, code[pc])
      executed == (D.real \ late) \ {pc \in loadNils : nils(pc) = {}}
      lateNils == {pc \in loadNils : pc >= lastPC}
  IN [ok |-> /\ D.words \subseteq 1..(retPC - 1)
             /\ 0 \notin heads
             /\ \A pc \in D.real \cap body : bodyEffectFromIns(proto, code[pc])
             /\ (D.cmps \cup D.andOrs) \cap body = {}
             /\ \A pc \in choices : accepted(pc),
      retPC |-> retPC,
      steps |-> [pc \in executed |->
                   IF pc \in loadNils
                   THEN [code[pc] EXCEPT !.a = Min(nils(pc)), !.b = Max(nils(pc))]
                   ELSE code[pc]],
      sources |-> [k \in 1..(ret.b - 1) |->
                     LET r == ret.a + k - 1
                     IN slotSource(D, r, headPC[r], late, lateNils, control)]]

AnalyzeShape(protos, proto) ==
  LET code == proto.code
      retPC == Min({pc \in DOMAIN code : code[pc].op = "RETURN"})
      ret == code[retPC]
      trailing == code[retPC + 1]
      loops == loopsOf(code, retPC)
  IN IF /\ retPC > 1
        /\ ret.b = 0 => code[retPC - 1].op = "TAILCALL"
        /\ \/ retPC = Len(code)
           \/ /\ retPC + 1 = Len(code)
              /\ trailing.op = "RETURN" /\ trailing.a = 0 /\ trailing.b = 1
        /\ Cardinality(loops) <= 1
        /\ \A l \in loops : l.fits
     THEN shapeInfo(protos, proto, retPC, loops) ELSE NoReplay
=============================================================================
