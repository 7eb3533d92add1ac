------------------------------ MODULE Tiering -------------------------------
(***************************************************************************)
(* Who runs a call: the dispatch of internal/crescent between interpreter  *)
(* and compiled code, over the decisions of Bridge.                        *)
(*                                                                         *)
(* `stack` is the chain of Lua frames, innermost last, those of a resumed  *)
(* coroutine above the frame that resumed it.  A frame knows its function, *)
(* whether its thread is the main one, whether compiled code runs it, if   *)
(* interpreted instructions of it have run, and what the two counters of   *)
(* nested Go calls stand at while it is the innermost one: `go` is         *)
(* luaReentry, `c` is nCcalls.  Returns, and the unwinding of errors and   *)
(* yields, pop frames, and the counters go back with the Go calls.  Calls  *)
(* between segments of one native run stay inside a frame.                 *)
(***************************************************************************)
EXTENDS Bridge, Sequences, SequencesExt

CONSTANTS ReentryCap, \* gibbousReentryCCallCap
          MaxCCalls,  \* maxCCallDepth
          MaxDepth    \* bound on the frames of the model

ASSUME CapAssumption == ReentryCap \in Nat \ {0} /\ MaxCCalls \in Nat /\ ReentryCap < MaxCCalls

VARIABLE stack

vars == <<bridge, stack>>

Frame == [proto : Protos, main : BOOLEAN, code : BOOLEAN, ran : BOOLEAN, go : 0 .. MaxCCalls, c : 0 .. MaxCCalls]

Top == Last(stack)

luaReentry == IF stack = <<>> THEN 0 ELSE Top.go
nCcalls == IF stack = <<>> THEN 0 ELSE Top.c
goDepth == luaReentry + nCcalls

Interpreting == stack # <<>> /\ ~Top.code
Compiled == stack # <<>> /\ Top.code

Below == IF Interpreting THEN [stack EXCEPT ![Len(stack)].ran = TRUE] ELSE stack
Room == Len(stack) < MaxDepth

Init == BridgeInit /\ stack = <<>>

\* The gates of the dispatch: compiled code is for the main thread, below the
\* watermark.
Ungated(p, main) == main /\ GibbousCodeOf(p)
UnderWatermark(p, main) == main /\ goDepth < ReentryCap /\ GibbousCodeOf(p)

\* enterLuaFrame: a frame for p that `go` and `c` Go calls were spent on, and the
\* entry hook.
Started(p, main, code, go, c) ==
    [proto |-> p, main |-> main, code |-> code, ran |-> FALSE, go |-> luaReentry + go, c |-> nCcalls + c]
Enter(p, below, main, code, go, c) ==
    /\ onEnter(p, main)
    /\ stack' = Append(below, Started(p, main, code, go, c))

(***************************************************************************)
(* Calls from Go: the host starts a program, and a host function, a        *)
(* metamethod or a resume runs a Lua function in the interpreter.          *)
(***************************************************************************)
callOnStack(p) ==
    /\ stack = <<>> /\ Room
    /\ Enter(p, stack, TRUE, GibbousCodeOf(p), 0, 1)

callLuaFromHost(p, main) ==
    /\ stack # <<>> /\ Room /\ nCcalls + 1 < MaxCCalls /\ (main => Top.main)
    /\ Enter(p, Below, main, FALSE, 0, 1)

(***************************************************************************)
(* Calls from Lua.                                                         *)
(***************************************************************************)
doCall(p) ==
    /\ Interpreting /\ Room
    /\ Enter(p, Below, Top.main, UnderWatermark(p, Top.main), 0, 0)

\* CALL in compiled code by way of doCall.  A Go call is counted only for the
\* interpreter, which runs the callee to its end.
ThroughDoCall(p) ==
    /\ Compiled /\ Room
    /\ IF UnderWatermark(p, Top.main) THEN Enter(p, stack, Top.main, TRUE, 0, 0)
       ELSE luaReentry < MaxCCalls /\ Enter(p, stack, Top.main, FALSE, 1, 0)

DoCall(p) == ~native /\ ThroughDoCall(p)
CallBaseline(p) == native /\ ThroughDoCall(p)

\* tryIndirectCallee: wasm code jumps to wasm code and asks for no watermark.
tryIndirectCallee(p) ==
    /\ Compiled /\ ~native /\ Room /\ Top.main /\ GibbousCodeOf(p)
    /\ Enter(p, stack, TRUE, TRUE, 0, 0)

\* The helpers of a native call count the Go call whoever runs the callee.
ExecutePlainCallInlineFrame(p) ==
    /\ Compiled /\ native /\ Room /\ luaReentry < MaxCCalls
    /\ Enter(p, stack, Top.main, UnderWatermark(p, Top.main), 1, 0)

(***************************************************************************)
(* Tail calls.  The interpreter runs native code on the frame that         *)
(* doTailCall entered, unless the callee was a host function: then the     *)
(* frame is the caller's own, half way through its code.                   *)
(***************************************************************************)
EvenAfterHostCall(f, isLua) == ~f.code /\ f.main
Dispatchable(f, isLua) == isLua /\ ~f.code /\ f.main

\* Any promotion of the entry hook is installed by now.
TailRuns(f, isLua) ==
    Dispatchable(f, isLua) /\ native /\ goDepth < ReentryCap /\ ~tierOff /\ f.proto \in installed'

TailFrame(p, go) == [proto |-> p, main |-> Top.main, code |-> FALSE, ran |-> FALSE, go |-> go, c |-> Top.c]
ReplaceTop(f) == Append(Front(stack), f)

doTailCall(p) ==
    LET f == TailFrame(p, Top.go) IN
    /\ Interpreting
    /\ onEnter(p, Top.main)
    /\ stack' = ReplaceTop([f EXCEPT !.code = TailRuns(f, TRUE)])

hostTailCall ==
    LET f == [Top EXCEPT !.ran = TRUE] IN
    /\ Interpreting
    /\ UNCHANGED bridge
    /\ stack' = ReplaceTop([f EXCEPT !.code = TailRuns(f, FALSE)])

\* A tail call of compiled code leaves its Go frame below the interpreter.
TailCall(p) ==
    /\ Compiled /\ luaReentry < MaxCCalls
    /\ onEnter(p, Top.main)
    /\ stack' = ReplaceTop(TailFrame(p, Top.go + 1))

(***************************************************************************)
(* Loops and returns.                                                      *)
(***************************************************************************)
BackEdge ==
    /\ Interpreting
    /\ onBackEdge(Top.proto, Top.main)
    /\ stack' = Below

Return ==
    /\ stack # <<>>
    /\ stack' = Front(stack)
    /\ UNCHANGED bridge

Warms ==
    /\ Interpreting /\ (shape[Top.proto].gated \/ shape[Top.proto].exempt)
    /\ ObserveIC(Top.proto)
    /\ stack' = Below

Switch == (\E enabled \in BOOLEAN : SetTierEnabled(enabled)) /\ UNCHANGED stack

Next ==
    \/ \E p \in Protos :
          \/ callOnStack(p) \/ (\E main \in BOOLEAN : callLuaFromHost(p, main))
          \/ doCall(p) \/ DoCall(p) \/ CallBaseline(p)
          \/ tryIndirectCallee(p) \/ ExecutePlainCallInlineFrame(p)
          \/ doTailCall(p) \/ TailCall(p)
    \/ hostTailCall \/ BackEdge \/ Warms \/ Return \/ Switch

Spec == Init /\ [][Next]_vars

(***************************************************************************)
(* Correctness.                                                            *)
(***************************************************************************)
\* Types of the profiles, the counters and the frames (Bridge, callInfo).
TypeOK ==
    /\ shape \in [Protos -> Shapes] /\ native \in BOOLEAN /\ forceAll \in BOOLEAN /\ tierOff \in BOOLEAN
    /\ warm \subseteq Protos /\ installed \subseteq Protos
    /\ pd \in [Protos -> Profiles] /\ stuck \in [Causes -> Nat]
    /\ stack \in Seq(Frame)

Absorbed == {p \in Protos : pd[p].tier = "stuck"}

\* considerPromotion decides a function once: code is installed for exactly the
\* functions that left the interpreter upwards, a failed compilation leaves none
\* behind, and the three counters of TierStats account for the others, each once.
TiersAgree ==
    /\ installed = {p \in Protos : pd[p].tier = "gibbous"}
    /\ stuck["notCompilable"] + stuck["declined"] + stuck["compileFailed"] = Cardinality(Absorbed)
    /\ \A p \in Protos : pd[p].tried <=> pd[p].tier # "interp"

\* A frame in compiled code is one of the main thread, of a function that has
\* code, and the code started at the top: no instruction of the frame had been
\* interpreted before (executeFrom's tail call dispatch, #273).
FramesSound ==
    \A i \in DOMAIN stack : stack[i].code =>
        /\ stack[i].main /\ stack[i].proto \in installed
        /\ ~stack[i].ran

\* The watermark is enough: however interpreter and compiled code call each
\* other, luaReentry stays within it and reentryCheck never has to raise.
ReentryBounded == luaReentry <= ReentryCap

NoCompiledFrame == \A i \in DOMAIN stack : ~stack[i].code

\* SetTierEnabled(false) drains: once the runs in flight have ended, no call
\* reaches compiled code until the switch is turned on again.
SwitchDrains == [][tierOff /\ NoCompiledFrame => NoCompiledFrame']_vars

AcceptedNow(p) ==
    /\ recheckCompilabilityRuntime(p)
    /\ shape[p].short /\ ~forceAll => ExemptFromFloor(p)

\* The verdicts remembered by onBackEdge, flooredOut and considerPromotion are
\* asked again at the hot milestone: a loop of the main thread that reaches it
\* while the backend accepts the function ends the function's time in the
\* interpreter, whatever was answered when its caches were cold.
MilestoneDecides ==
    [][\A p \in Protos :
          pd'[p].edges = HotBackEdge /\ pd[p].edges # HotBackEdge /\ Top.main /\ AcceptedNow(p)
          => pd'[p].tier # "interp"]_vars

EnteredOnMain(p) ==
    ~tierOff /\ stack' # <<>> /\ Last(stack').proto = p /\ Last(stack').main /\ Len(stack') > Len(stack)

\* A function long enough for the floor that the main thread keeps entering is
\* decided at last, also when it crossed its threshold in a coroutine, where
\* nothing is promoted, and when early verdicts were negative.
HotIsDecided ==
    \A p \in Protos :
        ([]<><<EnteredOnMain(p)>>_vars) => <>(shape[p].short \/ pd[p].tier # "interp")
=============================================================================
