----------------------------- MODULE Coroutines -----------------------------
(***************************************************************************)
(* Coroutines, protected calls and error handlers of internal/crescent, as *)
(* the Go call stack drives them: a resume, a host function that calls     *)
(* back into Lua, and an xpcall handler each run a new interpreter loop on *)
(* top of the last; an error and a yield unwind those loops.               *)
(*                                                                         *)
(* `activations` is that Go stack.  Each activation holds the values its   *)
(* deferred functions put back.  What Lua code does between two calls is   *)
(* any of the actions guarded by Runs.  A thread is named by the index of  *)
(* its coroutine in the registry (coID); the value stack of a thread is    *)
(* the set of coroutine values on it.                                      *)
(***************************************************************************)
EXTENDS Integers, Sequences, FiniteSets, SequencesExt

CONSTANTS Refs,        \* addresses thread objects are allocated at
          Null,
          MaxCos,      \* bound: how long the registry may get
          MaxCCalls,   \* maxCCallDepth
          Room         \* an eighth of it, for error handlers

ASSUME LimitsAssumption == MaxCos \in Nat /\ MaxCCalls \in Nat \ {0} /\ Room \in Nat \ {0}
ASSUME NullAssumption == Null \notin Refs

VARIABLES activations,
          raised,          \* the error or nothing on its way up
          runningThread, threadChain,
          cos, freeIds,    \* coRegistry
          globals, stacks, \* coroutine values Lua code can get at
          nCcalls, protectDepth, catchDepth, coDeathDepth, errFunc

depths == <<nCcalls, protectDepth, catchDepth, coDeathDepth, errFunc>>
registry == <<cos, freeIds>>
values == <<globals, stacks>>
control == <<activations, raised, runningThread, threadChain, depths>>
vars == <<control, registry, values>>

Main == 0
NoThread == -1
NoCo == 0
Ids == 1 .. Len(cos)

Coroutine(ref) == [ref |-> ref, status |-> "suspended", started |-> FALSE,
                   baseCcalls |-> 0, pendingResume |-> FALSE, deathLines |-> FALSE]
Released == [Coroutine(Null) EXCEPT !.status = "none"]

coOf(ref) == LET S == {id \in Ids : cos[id].ref = ref} IN IF S = {} THEN NoCo ELSE CHOOSE id \in S : TRUE
findRunningCo == IF runningThread > Main /\ cos[runningThread].status = "running" THEN runningThread ELSE NoCo

\* An error: .point until its raise point is processed, .handled once a handler ran.
NoError == [live |-> FALSE, point |-> FALSE, handled |-> FALSE, coSnap |-> FALSE,
            errErr |-> FALSE, cOverflow |-> FALSE]
LuaError == [NoError EXCEPT !.live = TRUE, !.point = TRUE]

cCallNeverErrErr(n) == n # MaxCCalls
cCallAllowed(n) == n < MaxCCalls \/ (MaxCCalls < n /\ n < MaxCCalls + Room)
cCallError(n) == [LuaError EXCEPT !.cOverflow = n = MaxCCalls, !.errErr = n >= MaxCCalls + Room]

Activation(kind) ==
    [kind |-> kind, co |-> NoCo, resumer |-> NoCo, resumerTh |-> NoThread, err |-> NoError,
     outerErrFunc |-> errFunc, outerDeathDepth |-> coDeathDepth, outerC |-> nCcalls]

Catching == {"pcall", "xpcall", "load"}
Top == activations[Len(activations)]
Below(n) == SubSeq(activations, 1, Len(activations) - n)
KindBelow == activations[Len(activations) - 1].kind

Runs == activations # <<>> /\ ~raised.live
Unwinds == raised.live /\ ~raised.point

----------------------------------------------------------------------------
(* The program starts and ends a chunk. *)

\* The main thread is reused, its old stack forgotten.
callOnStack ==
    /\ activations = <<>>
    /\ activations' = <<Activation("chunk")>>
    /\ runningThread' = Main
    /\ nCcalls' = nCcalls + 1
    /\ stacks' = [stacks EXCEPT ![Main] = {}]
    /\ UNCHANGED <<raised, threadChain, registry, globals,
                   protectDepth, catchDepth, coDeathDepth, errFunc>>

LeaveChunk ==
    /\ Top.kind = "chunk"
    /\ activations' = Below(1)
    /\ runningThread' = NoThread
    /\ nCcalls' = nCcalls - 1
    /\ raised' = NoError
    /\ UNCHANGED <<threadChain, registry, values, protectDepth, catchDepth, coDeathDepth, errFunc>>

----------------------------------------------------------------------------
(* Calls from a host function, or from the dispatch of a metamethod. *)

\* A comparator, a callback, a metamethod: nothing is caught.
CallBack ==
    /\ Runs
    /\ IF cCallAllowed(nCcalls + 1)
       THEN /\ activations' = Append(activations, Activation("call"))
            /\ nCcalls' = nCcalls + 1
            /\ UNCHANGED raised
       ELSE /\ raised' = cCallError(nCcalls + 1)
            /\ UNCHANGED <<activations, nCcalls>>
    /\ UNCHANGED <<runningThread, threadChain, registry, values,
                   protectDepth, catchDepth, coDeathDepth, errFunc>>

\* pcall, xpcall, and load's call of its reader.  A handler is named by the
\* place of its activation.
ProtectedCall(kind) ==
    LET guarded == Append(activations, Activation(kind))
    IN  /\ Runs
        /\ protectDepth' = IF kind = "load" THEN protectDepth ELSE protectDepth + 1
        /\ catchDepth' = catchDepth + 1
        /\ errFunc' = CASE kind = "pcall" -> 0
                        [] kind = "xpcall" -> Len(guarded)
                        [] OTHER -> errFunc
        /\ IF cCallAllowed(nCcalls + 1)
           THEN /\ activations' = Append(guarded, Activation("call"))
                /\ nCcalls' = nCcalls + 1
                /\ UNCHANGED raised
           ELSE /\ activations' = guarded
                /\ raised' = [cCallError(nCcalls + 1) EXCEPT !.point = FALSE]
                /\ UNCHANGED nCcalls
        /\ UNCHANGED <<runningThread, threadChain, registry, values, coDeathDepth>>

LeaveCatchUnhandled(a) ==
    /\ protectDepth' = IF a.kind = "load" THEN protectDepth ELSE protectDepth - 1
    /\ catchDepth' = catchDepth - 1
    /\ errFunc' = 0
LeaveCatch(a) ==
    /\ protectDepth' = IF a.kind = "load" THEN protectDepth ELSE protectDepth - 1
    /\ catchDepth' = catchDepth - 1
    /\ errFunc' = IF a.kind = "load" THEN errFunc ELSE a.outerErrFunc

StayCaught == UNCHANGED <<protectDepth, catchDepth, errFunc>>

\* The called function returns: to the host function that called it, out of
\* the protected call, or to the raise of the error it was the handler of.
ReturnFromCall ==
    /\ Runs /\ Top.kind = "call"
    /\ LET a == activations[Len(activations) - 1]
       IN  \/ /\ a.kind \in Catching
              /\ activations' = Below(2)
              /\ nCcalls' = nCcalls - 1
              /\ LeaveCatch(a)
              /\ UNCHANGED raised
           \/ /\ a.kind = "handler"
              /\ activations' = Below(2)
              /\ nCcalls' = a.outerC
              /\ raised' = a.err
              /\ StayCaught
           \/ /\ a.kind \notin Catching \cup {"handler"}
              /\ activations' = Below(1)
              /\ nCcalls' = nCcalls - 1
              /\ StayCaught
              /\ UNCHANGED raised
    /\ UNCHANGED <<runningThread, threadChain, registry, values, coDeathDepth>>

----------------------------------------------------------------------------
(* Errors. *)

Raise ==
    /\ Runs
    /\ raised' = LuaError
    /\ UNCHANGED <<activations, runningThread, threadChain, depths, registry, values>>

\* runErrFunc, up to the handler's first instruction.  A handler that cannot
\* be called for lack of depth fails with an error of its own, which runs it
\* again one level deeper when it is the overflow itself.
runErrFunc(e) ==
    LET c == IF e.cOverflow THEN nCcalls + 1 ELSE nCcalls
        run == Append(activations, [Activation("handler") EXCEPT !.err = [e EXCEPT !.handled = TRUE]])
    IN  IF cCallAllowed(c + 1)
        THEN /\ activations' = Append(run, [Activation("call") EXCEPT !.outerC = c])
             /\ nCcalls' = c + 1
             /\ raised' = NoError
        ELSE /\ activations' = run
             /\ nCcalls' = c
             /\ raised' = [cCallError(c + 1) EXCEPT !.point = FALSE]

\* The handler is not a function.
badErrFunc(e) ==
    /\ raised' = [e EXCEPT !.handled = TRUE]
    /\ UNCHANGED <<activations, nCcalls>>

\* Only the resume stands between the error and the coroutine.
KillsWhateverCatches == protectDepth > 0 /\ ~raised.coSnap /\ coDeathDepth > 0
Kills == protectDepth > 0 /\ ~raised.coSnap /\ coDeathDepth > 0 /\ catchDepth = coDeathDepth

atRaisePoint ==
    LET e == [raised EXCEPT !.point = FALSE, !.coSnap = @ \/ Kills]
    IN  /\ raised.live /\ raised.point
        /\ IF Kills /\ findRunningCo # NoCo
           THEN cos' = [cos EXCEPT ![findRunningCo].deathLines = TRUE]
           ELSE UNCHANGED cos
        /\ IF protectDepth > 0 /\ errFunc # 0 /\ ~raised.handled /\ ~raised.errErr
           THEN runErrFunc(e) \/ badErrFunc(e)
           ELSE raised' = e /\ UNCHANGED <<activations, nCcalls>>
        /\ StayCaught
        /\ UNCHANGED <<runningThread, threadChain, freeIds, values, coDeathDepth>>

\* Out of a call, the error reaches the Lua code around it, whose interpreter
\* loop treats its raise point again, or goes straight to who catches it.
UnwindCall ==
    /\ Unwinds /\ Top.kind = "call"
    /\ activations' = Below(1)
    /\ nCcalls' = nCcalls - 1
    /\ raised' = [raised EXCEPT !.point = KindBelow \notin Catching \cup {"handler"}]
    /\ StayCaught
    /\ UNCHANGED <<runningThread, threadChain, registry, values, coDeathDepth>>

Catch ==
    /\ Unwinds /\ Top.kind \in Catching
    /\ \/ /\ Top.kind = "xpcall" /\ ~raised.handled
          /\ runErrFunc(raised) \/ badErrFunc(raised)
          /\ StayCaught
       \/ /\ Top.kind = "xpcall" => raised.handled
          /\ activations' = Below(1)
          /\ raised' = NoError
          /\ LeaveCatch(Top)
          /\ UNCHANGED nCcalls
    /\ UNCHANGED <<runningThread, threadChain, registry, values, coDeathDepth>>

\* The handler failed.
HandlerFails ==
    /\ Unwinds /\ Top.kind = "handler"
    /\ \/ /\ raised.cOverflow /\ ~raised.handled
          /\ runErrFunc(raised)
       \/ /\ raised.cOverflow => raised.handled
          /\ activations' = Below(1)
          /\ nCcalls' = Top.outerC
          /\ raised' = Top.err
    /\ StayCaught
    /\ UNCHANGED <<runningThread, threadChain, registry, values, coDeathDepth>>

----------------------------------------------------------------------------
(* Coroutines. *)

TakeId == IF freeIds = <<>> THEN freeIds ELSE Front(freeIds)

NewCoroutine(ref) ==
    LET id == IF freeIds = <<>> THEN Len(cos) + 1 ELSE Last(freeIds)
    IN  /\ Runs
        /\ \A i \in Ids : cos[i].ref # ref
        /\ id <= MaxCos
        /\ cos' = IF freeIds = <<>> THEN Append(cos, Coroutine(ref)) ELSE [cos EXCEPT ![id] = Coroutine(ref)]
        /\ freeIds' = TakeId
        /\ stacks' = [stacks EXCEPT ![runningThread] = @ \cup {ref}, ![id] = {}]
        /\ UNCHANGED <<control, globals>>

ResumeRefused(ref) ==
    LET id == coOf(ref)
    IN  /\ Runs
        /\ ref \in globals \cup stacks[runningThread] /\ id # NoCo
        /\ cos[id].status = "suspended"
        /\ nCcalls >= MaxCCalls
        /\ ~cos[id].started
        /\ cos' = [cos EXCEPT ![id].status = "dead"]
        /\ UNCHANGED <<control, freeIds, values>>

\* The coroutine to resume is on the resumer's stack until resume returns.
Resume(ref) ==
    LET id == coOf(ref)
        resumer == findRunningCo
        a == [Activation("resume") EXCEPT !.co = id, !.resumer = resumer, !.resumerTh = runningThread]
        begun == [cos EXCEPT ![id] = [@ EXCEPT !.status = "running", !.started = TRUE,
                                               !.baseCcalls = nCcalls + 1, !.pendingResume = FALSE]]
    IN  /\ Runs
        /\ ref \in globals \cup stacks[runningThread] /\ id # NoCo
        /\ cos[id].status = "suspended"
        /\ nCcalls < MaxCCalls
        /\ stacks' = [stacks EXCEPT ![runningThread] = @ \cup {ref}]
        /\ activations' = Append(activations, a)
        /\ cos' = IF resumer = NoCo THEN begun ELSE [begun EXCEPT ![resumer].status = "normal"]
        /\ threadChain' = Append(threadChain, runningThread)
        /\ runningThread' = id
        /\ nCcalls' = nCcalls + 1
        /\ protectDepth' = protectDepth + 1
        /\ catchDepth' = catchDepth + 1
        /\ coDeathDepth' = catchDepth + 1
        /\ errFunc' = 0
        /\ raised' = IF cos[id].started /\ ~cos[id].pendingResume THEN LuaError ELSE NoError
        /\ UNCHANGED <<freeIds, globals>>

\* Who resumed the coroutine runs again.
Awake(c, id) == IF id = NoCo THEN c ELSE [c EXCEPT ![id].status = "running"]

\* Resume's deferred functions, and its last assignments to the coroutine.
LeaveResume(left) ==
    /\ Top.kind = "resume"
    /\ activations' = Below(1)
    /\ runningThread' = Top.resumerTh
    /\ threadChain' = Front(threadChain)
    /\ cos' = Awake([cos EXCEPT ![Top.co] = left], Top.resumer)
    /\ nCcalls' = nCcalls - 1
    /\ protectDepth' = protectDepth - 1
    /\ catchDepth' = catchDepth - 1
    /\ coDeathDepth' = Top.outerDeathDepth
    /\ errFunc' = Top.outerErrFunc
    /\ UNCHANGED <<freeIds, values>>

CanYieldAnywhere == findRunningCo # NoCo
CanYield == findRunningCo # NoCo /\ nCcalls <= cos[findRunningCo].baseCcalls

\* The instructions that call a host function on the resume's own loop; a call from
\* anywhere else counts as a C call.  The sentinel passes them on its way up, with
\* nothing in between, and they record where the coroutine goes on from.
YieldSites == {"CALL", "TAILCALL"}
CallRecordsYield == {"CALL"}
RecordsYield == {"CALL", "TAILCALL"}

Yield ==
    /\ Runs /\ CanYield
    /\ \E site \in YieldSites :
          LeaveResume([cos[findRunningCo] EXCEPT !.status = "suspended", !.pendingResume = site \in RecordsYield])
    /\ UNCHANGED raised

YieldRefused ==
    /\ Runs /\ ~CanYield
    /\ raised' = LuaError
    /\ UNCHANGED <<activations, runningThread, threadChain, depths, registry, values>>

Finish ==
    /\ Runs
    /\ LeaveResume([cos[Top.co] EXCEPT !.status = "dead"])
    /\ UNCHANGED raised

\* resume returns false; a wrap function raises the error anew.
DieByError ==
    /\ Unwinds
    /\ LeaveResume([cos[Top.co] EXCEPT !.status = "dead"])
    /\ raised' \in {NoError, LuaError}

----------------------------------------------------------------------------
(* Values, and the collector. *)

Publish(ref) ==
    /\ Runs /\ ref \in stacks[runningThread]
    /\ globals' = globals \cup {ref}
    /\ UNCHANGED <<control, registry, stacks>>

Forget(ref) ==
    /\ Runs
    /\ \/ ref \in globals /\ globals' = globals \ {ref} /\ UNCHANGED stacks
       \/ /\ ref \in stacks[runningThread]
          /\ stacks' = [stacks EXCEPT ![runningThread] = @ \ {ref}]
          /\ UNCHANGED globals
    /\ UNCHANGED <<control, registry>>

\* visitExtraValues and visitExtraRefs.
RootThreads == {runningThread} \cup {threadChain[i] : i \in DOMAIN threadChain}
RootsOnRunningThread == globals \cup (IF runningThread = NoThread THEN {} ELSE stacks[runningThread])
RootsInGlobals == globals
Roots ==
    globals \cup (UNION {stacks[th] : th \in RootThreads \ {NoThread}})
            \cup {cos[id].ref : id \in {i \in Ids : cos[i].status \in {"running", "normal"}}}

\* scanCoroutine: a reached coroutine keeps its stack, a dead one nothing.
Scanned(S) == {id \in Ids : cos[id].ref \in S /\ cos[id].status # "dead"}
ClosedUnderScan(S) == Roots \subseteq S /\ \A id \in Scanned(S) : stacks[id] \subseteq S
Reached == {ref \in Refs : \A S \in SUBSET Refs : ClosedUnderScan(S) => ref \in S}

Ascending(S) ==
    CHOOSE s \in [1 .. Cardinality(S) -> S] : \A i, j \in 1 .. Cardinality(S) : i < j => s[i] < s[j]

releaseCoroutines ==
    LET gone == {id \in Ids : cos[id].status # "none" /\ cos[id].ref \notin Reached}
    IN  /\ Runs \/ activations = <<>>
        /\ gone # {}
        /\ cos' = [id \in Ids |-> IF id \in gone THEN Released ELSE cos[id]]
        /\ freeIds' = freeIds \o Ascending(gone)
        /\ stacks' = [th \in DOMAIN stacks |-> IF th \in gone THEN {} ELSE stacks[th]]
        /\ UNCHANGED <<control, globals>>

----------------------------------------------------------------------------
Init ==
    /\ activations = <<>> /\ raised = NoError
    /\ runningThread = NoThread /\ threadChain = <<>>
    /\ cos = <<>> /\ freeIds = <<>>
    /\ globals = {} /\ stacks = [th \in 0 .. MaxCos |-> {}]
    /\ nCcalls = 0 /\ protectDepth = 0 /\ catchDepth = 0 /\ coDeathDepth = 0 /\ errFunc = 0

EndChunk == (Runs \/ Unwinds) /\ LeaveChunk

Next ==
    \/ callOnStack \/ EndChunk
    \/ CallBack \/ (\E kind \in Catching : ProtectedCall(kind)) \/ ReturnFromCall
    \/ Raise \/ atRaisePoint \/ UnwindCall \/ Catch \/ HandlerFails
    \/ \E ref \in Refs :
          NewCoroutine(ref) \/ ResumeRefused(ref) \/ Resume(ref) \/ Publish(ref) \/ Forget(ref)
    \/ Yield \/ YieldRefused \/ Finish \/ DieByError
    \/ releaseCoroutines

Spec == Init /\ [][Next]_vars

----------------------------------------------------------------------------
\* The coroutines in use are those waiting on the chain and the running one;
\* the first thread is the main one, or none when nothing runs.
InUse == Tail(Append(threadChain, runningThread))
Promised == INSTANCE ControlTransfer WITH
    Ids <- 1 .. MaxCos,
    chain <- InUse,
    suspended <- {id \in Ids : cos[id].status = "suspended"},
    dead <- {id \in Ids : cos[id].status = "dead"}
\* Whatever is called, raised, caught and collected in between, coroutines
\* enter and leave the chain one at a time, at its end, and none in use is
\* collected (Resume, Yield, releaseCoroutines).
KeepsPromise == Promised!Spec

\* The status a coroutine shows says where it stands on the chain: there is
\* one running coroutine, and it owns runningThread (findRunningCo); one that is
\* started and suspended has a yield point to go on from, so "cannot resume: no
\* pending yield point" is never raised.  An id waits to be used again exactly
\* while no coroutine has it (releaseCoroutines).
StatusesMatchChain ==
    \A id \in Ids :
        /\ cos[id].status = "running" <=> id = runningThread
        /\ cos[id].status = "normal" <=> \E i \in DOMAIN threadChain : threadChain[i] = id
        /\ cos[id].status = "suspended" => (cos[id].started <=> cos[id].pendingResume)
        /\ cos[id].status = "none" <=> \E i \in DOMAIN freeIds : freeIds[i] = id

Where(kinds) == {i \in DOMAIN activations : activations[i].kind \in kinds}
Innermost(kinds) == IF Where(kinds) = {} THEN 0 ELSE CHOOSE i \in Where(kinds) : \A j \in Where(kinds) : j <= i

\* However calls end, the depths and the handler in force are those of the
\* activations left: no exit forgets a decrement or puts back the wrong
\* handler (the deferred functions of Resume and ProtectedCall, runErrFunc).
DepthsMatchActivations ==
    LET bumped == {i \in Where({"handler"}) : activations[i].err.cOverflow}
        boundary == Innermost({"pcall", "xpcall", "resume"})
        resume == Innermost({"resume"})
    IN  /\ nCcalls = Cardinality(Where({"chunk", "call", "resume"})) + Cardinality(bumped)
        /\ protectDepth = Cardinality(Where({"pcall", "xpcall", "resume"}))
        /\ catchDepth = Cardinality(Where(Catching \cup {"resume"}))
        /\ errFunc = IF boundary # 0 /\ activations[boundary].kind = "xpcall" THEN boundary ELSE 0
        /\ coDeathDepth = IF resume = 0 THEN 0
                          ELSE Cardinality({i \in Where(Catching \cup {"resume"}) : i <= resume})

\* Counting C calls is a right test for yields: one is let through exactly
\* when nothing but the interpreter loop of the coroutine's own resume would
\* be unwound (baseCcalls, Yield).
YieldsOnlyToResume ==
    Runs => (CanYield <=> Top.kind = "resume" /\ Top.co = findRunningCo)

\* Every coroutine value Lua code can still get at names its own coroutine:
\* no stack in use is skipped by a collection (visitExtraValues, scanCoroutine).
HandlesResolve ==
    \A ref \in globals \cup (UNION {stacks[th] : th \in RootThreads \ {NoThread}})
                       \cup (UNION {stacks[id] : id \in {i \in Ids : cos[i].status = "suspended"}}) :
        coOf(ref) # NoCo

\* Error handlers, however they fail, get at most the room reserved for them.
DepthIsBounded == nCcalls < MaxCCalls + Room

\* The stack kept for debug.traceback(co) is kept for the error the coroutine
\* dies of, and for no error something inside still catches (coDeathDepth).
DeathLinesKept ==
    /\ raised.live /\ raised.coSnap => Innermost(Catching) < Innermost({"resume"})
    /\ Unwinds /\ Top.kind = "resume" => cos[Top.co].deathLines
=============================================================================
