--------------------------- MODULE CoroutineProofs ---------------------------
(***************************************************************************)
(* For every depth limit and every room for handlers, and however resumes, *)
(* protected calls and handlers are nested: the count of C calls is the    *)
(* one the activations account for, and it stays within the room; the      *)
(* depths, the handler in force, the chain of threads and the statuses of  *)
(* coroutines are those of the activations left.                           *)
(*                                                                         *)
(* Each activation remembers what was in force when it was entered, the    *)
(* count of C calls among it (outerC).  The counts are chained: an         *)
(* activation is entered with the count the one below leaves, so that a    *)
(* step that adds or takes away activations at the top needs to look at    *)
(* the last two only.  For the rest, what is in force is read off the      *)
(* first n activations (Inner, CountAt), and both a push and a pop need to *)
(* look at the last activation only.                                       *)
(***************************************************************************)
EXTENDS Coroutines, ChainLemmas, FiniteSetTheorems

ErrorType == [live : BOOLEAN, point : BOOLEAN, handled : BOOLEAN, coSnap : BOOLEAN,
              errErr : BOOLEAN, cOverflow : BOOLEAN]
Kinds == {"chunk", "call", "pcall", "xpcall", "load", "handler", "resume"}
ActivationType ==
    [kind : Kinds, co : Int, resumer : Int, resumerTh : Int, err : ErrorType,
     outerErrFunc : Int, outerDeathDepth : Int, outerC : Nat]

\* The count of C calls while the activation is the last one.
Counts(a) == a.kind \in {"chunk", "call", "resume"} \/ (a.kind = "handler" /\ a.err.cOverflow)
After(a) == IF Counts(a) THEN a.outerC + 1 ELSE a.outerC

Chained(acts) ==
    \A i \in 1 .. Len(acts) : acts[i].outerC = IF i = 1 THEN 0 ELSE After(acts[i - 1])
OnChunk(acts) == acts # <<>> => acts[1].kind = "chunk"

\* A handler runs on top of the overflow it handles only below the limit.
HandlersFit(acts) ==
    \A i \in 1 .. Len(acts) :
        acts[i].kind = "handler" /\ acts[i].err.cOverflow => acts[i].outerC < MaxCCalls

StackInv(acts, n) ==
    /\ acts \in Seq(ActivationType)
    /\ Chained(acts) /\ OnChunk(acts) /\ HandlersFit(acts)
    /\ n = IF acts = <<>> THEN 0 ELSE After(acts[Len(acts)])

TypeInv ==
    /\ raised \in ErrorType
    /\ runningThread \in Int
    /\ catchDepth \in Int /\ coDeathDepth \in Int /\ errFunc \in Int

IInv ==
    /\ TypeInv
    /\ StackInv(activations, nCcalls)
    /\ nCcalls < MaxCCalls + Room
    /\ raised.live => activations # <<>>
    /\ raised.live /\ raised.cOverflow => nCcalls < MaxCCalls

----------------------------------------------------------------------------
(* The stack of activations *)

\* An activation leaves a count no lower than the one it was entered with.
LEMMA AfterType ==
    ASSUME NEW a \in ActivationType
    PROVE  After(a) \in Nat /\ a.outerC \in Nat /\ a.outerC <= After(a)
  BY DEF ActivationType, After

\* Entering an activation at the current count keeps the counts chained.
LEMMA Pushed ==
    ASSUME NEW acts, NEW n, StackInv(acts, n),
           NEW a \in ActivationType, a.outerC = n,
           acts = <<>> => a.kind = "chunk",
           a.kind = "handler" /\ a.err.cOverflow => n < MaxCCalls
    PROVE  StackInv(Append(acts, a), After(a)) /\ Append(acts, a) # <<>>
<1> DEFINE new == Append(acts, a)
<1>1. acts \in Seq(ActivationType) /\ Len(acts) \in Nat
  BY DEF StackInv
<1>2. /\ new \in Seq(ActivationType) /\ Len(new) = Len(acts) + 1 /\ new # <<>>
      /\ new[Len(acts) + 1] = a
      /\ \A i \in 1 .. Len(acts) : new[i] = acts[i]
  BY <1>1
<1>3. Chained(new)
  <2> SUFFICES ASSUME NEW i \in 1 .. Len(new)
               PROVE  new[i].outerC = IF i = 1 THEN 0 ELSE After(new[i - 1])
    BY DEF Chained
  <2>1. CASE i = Len(acts) + 1
    <3>1. new[i].outerC = n
      BY <1>2, <2>1
    <3>2. CASE i = 1
      <4>1. acts = <<>>
        BY <1>1, <2>1, <3>2
      <4> QED BY <3>1, <3>2, <4>1 DEF StackInv
    <3>3. CASE i # 1
      <4>1. acts # <<>> /\ i - 1 = Len(acts) /\ i - 1 \in 1 .. Len(acts)
        BY <1>1, <2>1, <3>3
      <4>2. new[i - 1] = acts[Len(acts)]
        BY <1>2, <4>1
      <4> QED BY <3>1, <3>3, <4>1, <4>2 DEF StackInv
    <3> QED BY <3>2, <3>3
  <2>2. CASE i # Len(acts) + 1
    <3>1. i \in 1 .. Len(acts) /\ (i # 1 => i - 1 \in 1 .. Len(acts))
      BY <1>1, <1>2, <2>2
    <3>2. new[i] = acts[i] /\ (i # 1 => new[i - 1] = acts[i - 1])
      BY <1>2, <3>1
    <3> QED BY <3>1, <3>2 DEF StackInv, Chained
  <2> QED BY <2>1, <2>2
<1>4. OnChunk(new)
  <2>1. CASE acts = <<>>
    BY <1>2, <2>1 DEF OnChunk
  <2>2. CASE acts # <<>>
    BY <1>1, <1>2, <2>2 DEF OnChunk, StackInv
  <2> QED BY <2>1, <2>2
<1>5. HandlersFit(new)
  <2> SUFFICES ASSUME NEW i \in 1 .. Len(new), new[i].kind = "handler", new[i].err.cOverflow
               PROVE  new[i].outerC < MaxCCalls
    BY DEF HandlersFit
  <2>1. CASE i = Len(acts) + 1
    BY <1>2, <2>1
  <2>2. CASE i # Len(acts) + 1
    BY <1>1, <1>2, <2>2 DEF StackInv, HandlersFit
  <2> QED BY <2>1, <2>2
<1> QED BY <1>2, <1>3, <1>4, <1>5 DEF StackInv

\* Going back to the count an activation was entered with fits the activations below it.
LEMMA Popped ==
    ASSUME NEW acts, NEW n, StackInv(acts, n), NEW k \in 1 .. Len(acts)
    PROVE  LET left == SubSeq(acts, 1, k - 1)
           IN  StackInv(left, acts[k].outerC) /\ (k > 1 => left # <<>>)
<1> DEFINE left == SubSeq(acts, 1, k - 1)
<1>1. acts \in Seq(ActivationType) /\ Len(acts) \in Nat
  BY DEF StackInv
<1>2. /\ left \in Seq(ActivationType) /\ Len(left) = k - 1
      /\ \A i \in 1 .. k - 1 : left[i] = acts[i]
  BY <1>1
<1>3. \A i \in 1 .. k - 1 : i \in 1 .. Len(acts) /\ (i # 1 => i - 1 \in 1 .. k - 1)
  BY <1>1
<1>4. Chained(left)
  BY <1>2, <1>3 DEF Chained, StackInv
<1>5. OnChunk(left)
  <2>1. CASE k = 1
    BY <1>2, <2>1 DEF OnChunk
  <2>2. CASE k # 1
    <3>1. 1 \in 1 .. k - 1 /\ acts # <<>>
      BY <1>1, <2>2
    <3> QED BY <1>2, <3>1 DEF OnChunk, StackInv
  <2> QED BY <2>1, <2>2
<1>6. HandlersFit(left)
  BY <1>2, <1>3 DEF HandlersFit, StackInv
<1>7. k > 1 => left # <<>>
  BY <1>2
<1>8. acts[k].outerC = IF left = <<>> THEN 0 ELSE After(left[Len(left)])
  <2>1. CASE k = 1
    <3>1. left = <<>>
      BY <1>2, <2>1
    <3> QED BY <1>1, <2>1, <3>1 DEF StackInv, Chained
  <2>2. CASE k # 1
    <3>1. left # <<>> /\ left[Len(left)] = acts[k - 1]
      BY <1>1, <1>2, <2>2
    <3> QED BY <2>2, <3>1 DEF StackInv, Chained
  <2> QED BY <2>1, <2>2
<1> QED BY <1>2, <1>4, <1>5, <1>6, <1>7, <1>8 DEF StackInv

----------------------------------------------------------------------------
(* The steps *)

\* The shapes of errors; only a failed check at exactly the limit is an overflow.
LEMMA ErrorsTyped ==
    /\ NoError \in ErrorType /\ LuaError \in ErrorType
    /\ ~NoError.live /\ ~NoError.cOverflow /\ ~LuaError.cOverflow
    /\ \A n \in Int : /\ cCallError(n) \in ErrorType
                      /\ cCallError(n).cOverflow => n = MaxCCalls
    /\ \A e \in ErrorType : \A b \in BOOLEAN :
         /\ [e EXCEPT !.point = b] \in ErrorType
         /\ [e EXCEPT !.point = b].cOverflow = e.cOverflow
         /\ [e EXCEPT !.handled = b] \in ErrorType
         /\ [e EXCEPT !.handled = b].cOverflow = e.cOverflow
         /\ [e EXCEPT !.point = b].live = e.live
         /\ [e EXCEPT !.handled = b].live = e.live
<1>1. NoError \in ErrorType /\ ~NoError.live /\ ~NoError.cOverflow
  BY DEF NoError, ErrorType
<1>2. LuaError \in ErrorType /\ ~LuaError.cOverflow
  BY DEF NoError, LuaError, ErrorType
<1>3. ASSUME NEW n \in Int
      PROVE  cCallError(n) \in ErrorType /\ (cCallError(n).cOverflow => n = MaxCCalls)
  <2> DEFINE over == n = MaxCCalls
             full == n >= MaxCCalls + Room
  <2>1. over \in BOOLEAN /\ full \in BOOLEAN
    BY LimitsAssumption
  <2> HIDE DEF over, full
  <2>2. /\ [LuaError EXCEPT !.cOverflow = over, !.errErr = full] \in ErrorType
        /\ [LuaError EXCEPT !.cOverflow = over, !.errErr = full].cOverflow = over
    BY <1>2, <2>1 DEF ErrorType
  <2> QED BY <2>2 DEF cCallError, over, full
<1>4. ASSUME NEW e \in ErrorType, NEW b \in BOOLEAN
      PROVE  /\ [e EXCEPT !.point = b] \in ErrorType
             /\ [e EXCEPT !.point = b].cOverflow = e.cOverflow
             /\ [e EXCEPT !.handled = b] \in ErrorType
             /\ [e EXCEPT !.handled = b].cOverflow = e.cOverflow
             /\ [e EXCEPT !.point = b].live = e.live
             /\ [e EXCEPT !.handled = b].live = e.live
  BY <1>4 DEF ErrorType
<1> QED BY <1>1, <1>2, <1>3, <1>4

\* A new activation is entered at the current count.
LEMMA ActivationTyped ==
    ASSUME TypeInv, nCcalls \in Nat, NEW kind \in Kinds
    PROVE  /\ Activation(kind) \in ActivationType
           /\ Activation(kind).kind = kind
           /\ Activation(kind).outerC = nCcalls
           /\ ~ Activation(kind).err.cOverflow
  BY ErrorsTyped DEF Activation, ActivationType, TypeInv, NoCo, NoThread

\* The count of C calls is a natural number.
LEMMA DepthTyped == ASSUME IInv PROVE nCcalls \in Nat
<1>1. CASE activations = <<>>
  BY <1>1 DEF IInv, StackInv
<1>2. CASE activations # <<>>
  <2>1. activations[Len(activations)] \in ActivationType
    BY <1>2 DEF IInv, StackInv
  <2> QED BY <1>2, <2>1, AfterType DEF IInv, StackInv
<1> QED BY <1>1, <1>2

\* What is on the top, and what it leaves when it is taken away.
LEMMA TopFacts ==
    ASSUME IInv, activations # <<>>
    PROVE  LET n == Len(activations)
           IN  /\ n \in Nat \ {0} /\ Top \in ActivationType
               /\ nCcalls = After(Top)
               /\ StackInv(Below(1), Top.outerC)
               /\ Top.outerC \in Nat /\ Top.outerC <= nCcalls
               /\ Top.kind # "chunk" =>
                    /\ n - 1 \in 1 .. n
                    /\ Below(1) # <<>>
                    /\ activations[n - 1] \in ActivationType
                    /\ After(activations[n - 1]) = Top.outerC
                    /\ activations[n - 1].outerC \in Nat
                    /\ activations[n - 1].outerC <= Top.outerC
                    /\ StackInv(Below(2), activations[n - 1].outerC)
                    /\ activations[n - 1].kind # "chunk" => Below(2) # <<>>
                    /\ activations[n - 1].kind = "handler" /\ activations[n - 1].err.cOverflow
                         => activations[n - 1].outerC < MaxCCalls
               /\ Top.kind = "handler" /\ Top.err.cOverflow => Top.outerC < MaxCCalls
<1> DEFINE n == Len(activations)
<1>1. n \in Nat \ {0} /\ Top \in ActivationType /\ Top = activations[n]
  BY DEF IInv, StackInv, Top
<1>2. nCcalls = After(Top) /\ Top.outerC \in Nat /\ Top.outerC <= nCcalls
  BY <1>1, AfterType DEF IInv, StackInv
<1>3. StackInv(Below(1), Top.outerC) /\ (n > 1 => Below(1) # <<>>)
  <2>1. n \in 1 .. Len(activations) /\ StackInv(activations, nCcalls)
    BY <1>1 DEF IInv
  <2>2. Below(1) = SubSeq(activations, 1, n - 1) /\ Top = activations[n]
    BY <1>1 DEF Below
  <2> QED BY <1>1, <2>1, <2>2, Popped
<1>4. Top.kind = "handler" /\ Top.err.cOverflow => Top.outerC < MaxCCalls
  BY <1>1 DEF IInv, StackInv, HandlersFit
<1>5. ASSUME Top.kind # "chunk"
      PROVE  /\ n - 1 \in 1 .. n
             /\ Below(1) # <<>>
             /\ activations[n - 1] \in ActivationType
             /\ After(activations[n - 1]) = Top.outerC
             /\ activations[n - 1].outerC \in Nat
             /\ activations[n - 1].outerC <= Top.outerC
             /\ StackInv(Below(2), activations[n - 1].outerC)
             /\ activations[n - 1].kind # "chunk" => Below(2) # <<>>
             /\ activations[n - 1].kind = "handler" /\ activations[n - 1].err.cOverflow
                  => activations[n - 1].outerC < MaxCCalls
  <2>1. activations[1].kind = "chunk"
    BY DEF IInv, StackInv, OnChunk
  <2>2. n # 1 /\ n - 1 \in 1 .. n /\ n > 1
    BY <1>1, <1>5, <2>1
  <2>3. activations[n - 1] \in ActivationType
    BY <2>2 DEF IInv, StackInv
  <2>4. After(activations[n - 1]) = Top.outerC
    BY <1>1, <2>2 DEF IInv, StackInv, Chained
  <2>5. activations[n - 1].outerC \in Nat /\ activations[n - 1].outerC <= Top.outerC
    BY <2>3, <2>4, AfterType
  <2>6. (n - 1) - 1 = n - 2
    BY <1>1
  <2>7. StackInv(Below(2), activations[n - 1].outerC) /\ (n - 1 > 1 => Below(2) # <<>>)
    BY <2>2, <2>6, Popped DEF IInv, Below
  <2>8. activations[n - 1].kind # "chunk" => n - 1 > 1
    BY <1>1, <2>1, <2>2
  <2>9. activations[n - 1].kind = "handler" /\ activations[n - 1].err.cOverflow
          => activations[n - 1].outerC < MaxCCalls
    BY <2>2 DEF IInv, StackInv, HandlersFit
  <2> QED BY <1>3, <2>2, <2>3, <2>4, <2>5, <2>7, <2>8, <2>9
<1> QED BY <1>1, <1>2, <1>3, <1>4, <1>5

\* The parts of IInv that the count and the error take part in.
DepthInv ==
    /\ raised \in ErrorType
    /\ StackInv(activations, nCcalls)
    /\ nCcalls < MaxCCalls + Room
    /\ raised.live => activations # <<>>
    /\ raised.live /\ raised.cOverflow => nCcalls < MaxCCalls

\* The invariant is a part about depths and a part about types.
LEMMA DepthSplit ==
    /\ IInv <=> DepthInv /\ TypeInv
    /\ TypeInv <=> /\ raised \in ErrorType /\ runningThread \in Int
                   /\ catchDepth \in Int /\ coDeathDepth \in Int /\ errFunc \in Int
  BY DEF IInv, DepthInv, TypeInv

\* What the depth check lets through, and where it reports an overflow.
LEMMA Allowed ==
    ASSUME NEW n \in Nat
    PROVE  /\ cCallAllowed(n) => n < MaxCCalls + Room
           /\ ~ cCallAllowed(n) /\ cCallError(n).cOverflow => n - 1 < MaxCCalls
  BY LimitsAssumption, ErrorsTyped DEF cCallAllowed

\* A handler is started: below the limit if it handles the overflow, and with
\* the call that runs it within the room, or not at all.
LEMMA HandlerStep ==
    ASSUME IInv, activations # <<>>, NEW e \in ErrorType, e.cOverflow => nCcalls < MaxCCalls,
           runErrFunc(e)
    PROVE  DepthInv'
<1> DEFINE h == [Activation("handler") EXCEPT !.err = [e EXCEPT !.handled = TRUE]]
           c == IF e.cOverflow THEN nCcalls + 1 ELSE nCcalls
           run == Append(activations, h)
           call == [Activation("call") EXCEPT !.outerC = c]
<1>1. nCcalls \in Nat /\ c \in Nat /\ TypeInv
  BY DepthTyped, DepthSplit
<1>2. [e EXCEPT !.handled = TRUE] \in ErrorType /\ [e EXCEPT !.handled = TRUE].cOverflow = e.cOverflow
  BY ErrorsTyped
<1>3. /\ h \in ActivationType /\ h.kind = "handler" /\ h.outerC = nCcalls
      /\ h.err.cOverflow = e.cOverflow
  <2>1. /\ Activation("handler") \in ActivationType /\ Activation("handler").kind = "handler"
        /\ Activation("handler").outerC = nCcalls
    <3>1. "handler" \in Kinds
      BY DEF Kinds
    <3> QED BY <1>1, <3>1, ActivationTyped
  <2> QED BY <1>2, <2>1 DEF ActivationType
<1>4. /\ call \in ActivationType /\ call.kind = "call" /\ call.outerC = c
  <2>1. Activation("call") \in ActivationType /\ Activation("call").kind = "call"
    <3>1. "call" \in Kinds
      BY DEF Kinds
    <3> QED BY <1>1, <3>1, ActivationTyped
  <2> QED BY <1>1, <2>1 DEF ActivationType
<1>5. After(h) = c
  BY <1>3 DEF After, Counts
<1>6. After(call) = c + 1
  BY <1>4 DEF After, Counts
<1>7. StackInv(activations, nCcalls)
  BY DepthSplit DEF DepthInv
<1> HIDE DEF h, call, c
<1>8. StackInv(run, c) /\ run # <<>>
  BY <1>3, <1>5, <1>7, Pushed
<1> HIDE DEF run
<1>9. StackInv(Append(run, call), c + 1) /\ Append(run, call) # <<>>
  BY <1>4, <1>6, <1>8, Pushed
<1>10. CASE cCallAllowed(c + 1)
  <2>1. activations' = Append(run, call) /\ nCcalls' = c + 1 /\ raised' = NoError
    BY <1>10 DEF runErrFunc, run, c, h, call
  <2>2. c + 1 < MaxCCalls + Room
    BY <1>1, <1>10, Allowed
  <2> QED BY <1>9, <2>1, <2>2, ErrorsTyped DEF DepthInv
<1>11. CASE ~ cCallAllowed(c + 1)
  <2>1. activations' = run /\ nCcalls' = c /\ raised' = [cCallError(c + 1) EXCEPT !.point = FALSE]
    BY <1>11 DEF runErrFunc, run, c, h
  <2>2. c + 1 \in Nat /\ (c + 1) - 1 = c
    BY <1>1
  <2>3. cCallError(c + 1) \in ErrorType /\ (cCallError(c + 1).cOverflow => c < MaxCCalls)
    BY <1>11, <2>2, Allowed, ErrorsTyped
  <2>4. raised' \in ErrorType /\ (raised'.cOverflow => nCcalls' < MaxCCalls)
    BY <2>1, <2>3, ErrorsTyped
  <2>5. c < MaxCCalls + Room
    <3>1. CASE e.cOverflow
      BY <1>1, <3>1, LimitsAssumption DEF c
    <3>2. CASE ~e.cOverflow
      BY <3>2 DEF IInv, c
    <3> QED BY <3>1, <3>2
  <2> QED BY <1>8, <2>1, <2>4, <2>5 DEF DepthInv
<1> QED BY <1>10, <1>11

\* A handler that is not a function changes no depth.
LEMMA BadHandlerStep ==
    ASSUME IInv, activations # <<>>, NEW e \in ErrorType, e.cOverflow => nCcalls < MaxCCalls,
           badErrFunc(e)
    PROVE  DepthInv'
<1>1. raised' \in ErrorType /\ raised'.cOverflow = e.cOverflow
  BY ErrorsTyped DEF badErrFunc
<1> QED BY <1>1 DEF badErrFunc, IInv, DepthInv

\* Activations are taken away from the top.
LEMMA PopStep ==
    ASSUME IInv, StackInv(activations', nCcalls'), nCcalls' \in Nat, nCcalls' <= nCcalls,
           raised' \in ErrorType, raised'.live => activations' # <<>>,
           raised'.live /\ raised'.cOverflow => nCcalls' < MaxCCalls
    PROVE  DepthInv'
<1>1. nCcalls \in Nat /\ nCcalls < MaxCCalls + Room
  BY DepthTyped DEF IInv
<1> QED BY <1>1, LimitsAssumption DEF DepthInv

\* Nothing but the error changes.
LEMMA RaiseStep ==
    ASSUME IInv, activations # <<>>, UNCHANGED <<activations, nCcalls>>,
           raised' \in ErrorType, raised'.cOverflow => nCcalls < MaxCCalls
    PROVE  DepthInv'
  BY DEF IInv, DepthInv

\* A step that leaves activations, count and error alone keeps the depths.
LEMMA SameDepth ==
    ASSUME IInv, UNCHANGED <<activations, nCcalls, raised>>
    PROVE  DepthInv'
  BY DepthSplit DEF DepthInv

\* A chunk starts and ends at count 0.
LEMMA ChunkStep ==
    ASSUME IInv, callOnStack \/ EndChunk
    PROVE  IInv'
<1>1. CASE callOnStack
  <2>1. nCcalls = 0 /\ activations = <<>> /\ ~raised.live /\ TypeInv
    BY <1>1, DepthSplit DEF callOnStack, IInv, StackInv
  <2>2. "chunk" \in Kinds
    BY DEF Kinds
  <2>3. /\ Activation("chunk") \in ActivationType /\ Activation("chunk").kind = "chunk"
        /\ Activation("chunk").outerC = nCcalls
    BY <2>1, <2>2, ActivationTyped
  <2>4. After(Activation("chunk")) = nCcalls + 1
    BY <2>3 DEF After, Counts
  <2>5. activations' = Append(activations, Activation("chunk")) /\ nCcalls' = nCcalls + 1
    <3>1. Append(<<>>, Activation("chunk")) = <<Activation("chunk")>>
      OBVIOUS
    <3> QED BY <1>1, <2>1, <3>1 DEF callOnStack
  <2>6. StackInv(activations', nCcalls') /\ activations' # <<>>
    BY <2>3, <2>4, <2>5, Pushed DEF IInv
  <2>7. nCcalls' < MaxCCalls + Room
    BY <2>1, <2>5, LimitsAssumption
  <2>8. DepthInv'
    BY <1>1, <2>1, <2>6, <2>7 DEF callOnStack, DepthInv, TypeInv
  <2>9. TypeInv'
    BY <1>1, <2>1 DEF callOnStack, TypeInv, Main
  <2> QED BY <2>8, <2>9 DEF IInv, DepthInv
<1>2. CASE EndChunk
  <2>1. activations # <<>>
    BY <1>2 DEF EndChunk, Runs, Unwinds, IInv
  <2>2. nCcalls' = Top.outerC
    <3>1. Top.kind = "chunk" /\ nCcalls = After(Top) /\ Top.outerC \in Nat
      BY <1>2, <2>1, TopFacts DEF EndChunk, LeaveChunk
    <3>2. After(Top) = Top.outerC + 1
      BY <3>1 DEF After, Counts
    <3> QED BY <1>2, <3>1, <3>2 DEF EndChunk, LeaveChunk
  <2>3. StackInv(activations', nCcalls') /\ nCcalls' \in Nat /\ nCcalls' <= nCcalls
    BY <1>2, <2>1, <2>2, TopFacts DEF EndChunk, LeaveChunk
  <2>4. raised' = NoError
    BY <1>2 DEF EndChunk, LeaveChunk
  <2>5. DepthInv'
    BY <2>3, <2>4, ErrorsTyped, PopStep
  <2>6. TypeInv'
    BY <1>2, <2>4, ErrorsTyped DEF EndChunk, LeaveChunk, IInv, TypeInv, NoThread
  <2> QED BY <2>5, <2>6 DEF IInv, DepthInv
<1> QED BY <1>1, <1>2

\* A call is entered from the top of acts, or refused.
LEMMA CallEntered ==
    ASSUME NEW acts, NEW n \in Nat, StackInv(acts, n), acts # <<>>, n < MaxCCalls + Room,
           NEW a \in ActivationType, a.kind = "call", a.outerC = n,
           \/ /\ cCallAllowed(n + 1)
              /\ activations' = Append(acts, a) /\ nCcalls' = n + 1
              /\ raised' \in ErrorType /\ ~raised'.live
           \/ /\ ~ cCallAllowed(n + 1)
              /\ activations' = acts /\ nCcalls' = n
              /\ raised' \in ErrorType /\ raised'.cOverflow = cCallError(n + 1).cOverflow
    PROVE  DepthInv'
<1>1. After(a) = n + 1
  BY DEF After, Counts
<1>2. StackInv(Append(acts, a), n + 1) /\ Append(acts, a) # <<>>
  BY <1>1, Pushed
<1>3. n + 1 \in Nat /\ (n + 1) - 1 = n
  OBVIOUS
<1>4. CASE cCallAllowed(n + 1)
  <2>1. n + 1 < MaxCCalls + Room
    BY <1>3, <1>4, Allowed
  <2> QED BY <1>2, <1>4, <2>1 DEF DepthInv
<1>5. CASE ~ cCallAllowed(n + 1)
  <2>1. cCallError(n + 1).cOverflow => n < MaxCCalls
    BY <1>3, <1>5, Allowed
  <2> QED BY <1>5, <2>1 DEF DepthInv
<1> QED BY <1>4, <1>5

\* A call from a host function keeps the invariant, let through or refused.
LEMMA CallBackStep == ASSUME IInv, CallBack PROVE IInv'
<1>1. activations # <<>> /\ ~raised.live /\ nCcalls \in Nat /\ TypeInv
  BY DepthTyped, DepthSplit DEF CallBack, Runs
<1>2. "call" \in Kinds
  BY DEF Kinds
<1>3. /\ Activation("call") \in ActivationType /\ Activation("call").kind = "call"
      /\ Activation("call").outerC = nCcalls
  BY <1>1, <1>2, ActivationTyped
<1>4. raised' \in ErrorType
  <2>1. raised' \in {raised, cCallError(nCcalls + 1)}
    BY DEF CallBack
  <2> QED BY <1>1, <2>1, ErrorsTyped DEF TypeInv
<1>5. DepthInv'
  <2>1. StackInv(activations, nCcalls) /\ nCcalls < MaxCCalls + Room
    BY DEF IInv
  <2>2. CASE cCallAllowed(nCcalls + 1)
    <3>1. /\ activations' = Append(activations, Activation("call"))
          /\ nCcalls' = nCcalls + 1 /\ ~raised'.live
      BY <1>1, <2>2 DEF CallBack
    <3> QED BY <1>1, <1>3, <1>4, <2>1, <2>2, <3>1, CallEntered
  <2>3. CASE ~ cCallAllowed(nCcalls + 1)
    <3>1. activations' = activations /\ nCcalls' = nCcalls /\ raised' = cCallError(nCcalls + 1)
      BY <2>3 DEF CallBack
    <3> QED BY <1>1, <1>3, <1>4, <2>1, <2>3, <3>1, CallEntered
  <2> QED BY <2>2, <2>3
<1>6. TypeInv'
  BY <1>1, <1>4 DEF CallBack, TypeInv
<1> QED BY <1>5, <1>6 DEF IInv, DepthInv

\* A protected call keeps the invariant, let through or refused.
LEMMA ProtectedCallStep ==
    ASSUME IInv, NEW kind \in Catching, ProtectedCall(kind)
    PROVE  IInv'
<1> DEFINE guarded == Append(activations, Activation(kind))
<1>1. activations # <<>> /\ ~raised.live /\ nCcalls \in Nat /\ TypeInv
  BY DepthTyped, DepthSplit DEF ProtectedCall, Runs
<1>2. "call" \in Kinds /\ kind \in Kinds
  BY DEF Kinds, Catching
<1>3. /\ Activation("call") \in ActivationType /\ Activation("call").kind = "call"
      /\ Activation("call").outerC = nCcalls
  BY <1>1, <1>2, ActivationTyped
<1>4. /\ Activation(kind) \in ActivationType /\ Activation(kind).kind = kind
      /\ Activation(kind).outerC = nCcalls
  BY <1>1, <1>2, ActivationTyped
<1>5. After(Activation(kind)) = nCcalls
  BY <1>4 DEF After, Counts, Catching
<1>6. StackInv(guarded, nCcalls) /\ guarded # <<>> /\ nCcalls < MaxCCalls + Room
  <2>1. kind # "handler"
    BY DEF Catching
  <2> QED BY <1>1, <1>4, <1>5, <2>1, Pushed DEF IInv
<1>7. Len(guarded) \in Int
  BY <1>6 DEF StackInv
<1>8. /\ cCallAllowed(nCcalls + 1) =>
           /\ activations' = Append(guarded, Activation("call"))
           /\ nCcalls' = nCcalls + 1 /\ raised' = raised
      /\ ~ cCallAllowed(nCcalls + 1) =>
           /\ activations' = guarded /\ nCcalls' = nCcalls
           /\ raised' = [cCallError(nCcalls + 1) EXCEPT !.point = FALSE]
      /\ catchDepth' = catchDepth + 1
      /\ errFunc' \in {0, Len(guarded), errFunc}
      /\ UNCHANGED <<runningThread, coDeathDepth>>
  BY DEF ProtectedCall, Catching
<1> HIDE DEF guarded
<1>9. /\ [cCallError(nCcalls + 1) EXCEPT !.point = FALSE] \in ErrorType
      /\ [cCallError(nCcalls + 1) EXCEPT !.point = FALSE].cOverflow = cCallError(nCcalls + 1).cOverflow
  <2>1. cCallError(nCcalls + 1) \in ErrorType
    BY <1>1, ErrorsTyped
  <2> QED BY <2>1, ErrorsTyped
<1>10. raised' \in ErrorType
  BY <1>1, <1>8, <1>9 DEF TypeInv
<1>11. DepthInv'
  <2>1. CASE cCallAllowed(nCcalls + 1)
    BY <1>1, <1>3, <1>6, <1>8, <1>10, <2>1, CallEntered
  <2>2. CASE ~ cCallAllowed(nCcalls + 1)
    BY <1>1, <1>3, <1>6, <1>8, <1>9, <1>10, <2>2, CallEntered
  <2> QED BY <2>1, <2>2
<1>12. TypeInv'
  BY <1>1, <1>7, <1>8, <1>10 DEF TypeInv
<1> QED BY <1>11, <1>12 DEF IInv, DepthInv

\* A return goes back to the count of what it returns to.
LEMMA ReturnStep == ASSUME IInv, ReturnFromCall PROVE IInv'
<1> DEFINE n == Len(activations)
           a == activations[n - 1]
<1>1. activations # <<>> /\ ~raised.live /\ Top.kind = "call" /\ TypeInv
  BY DepthSplit DEF ReturnFromCall, Runs
<1>2. /\ a \in ActivationType /\ a.outerC \in Nat /\ a.outerC <= Top.outerC
      /\ After(a) = Top.outerC /\ Below(1) # <<>>
      /\ StackInv(Below(1), Top.outerC) /\ StackInv(Below(2), a.outerC)
      /\ a.kind # "chunk" => Below(2) # <<>>
      /\ a.kind = "handler" /\ a.err.cOverflow => a.outerC < MaxCCalls
      /\ Top.outerC \in Nat /\ nCcalls = After(Top) /\ Top.outerC <= nCcalls
  BY <1>1, TopFacts
<1>3. nCcalls - 1 = Top.outerC
  BY <1>1, <1>2 DEF After, Counts
<1>4. a.err \in ErrorType /\ a.outerErrFunc \in Int
  BY <1>2 DEF ActivationType
<1> HIDE DEF a
<1>5. CASE /\ a.kind \in Catching
           /\ activations' = Below(2) /\ nCcalls' = nCcalls - 1
           /\ LeaveCatch(a) /\ UNCHANGED raised
  <2>1. After(a) = a.outerC
    BY <1>5 DEF After, Counts, Catching
  <2>2. StackInv(activations', nCcalls') /\ nCcalls' \in Nat /\ nCcalls' <= nCcalls
    BY <1>2, <1>3, <1>5, <2>1
  <2>3. DepthInv'
    BY <1>1, <1>5, <2>2, PopStep DEF TypeInv
  <2>4. TypeInv'
    BY <1>1, <1>4, <1>5 DEF ReturnFromCall, LeaveCatch, TypeInv
  <2> QED BY <2>3, <2>4 DEF IInv, DepthInv
<1>6. CASE /\ a.kind = "handler"
           /\ activations' = Below(2) /\ nCcalls' = a.outerC
           /\ raised' = a.err /\ StayCaught
  <2>1. a.outerC <= nCcalls /\ activations' # <<>> /\ raised' \in ErrorType
    BY <1>2, <1>4, <1>6, DepthTyped
  <2>2. DepthInv'
    BY <1>2, <1>6, <2>1, PopStep
  <2>3. TypeInv'
    BY <1>1, <1>4, <1>6 DEF ReturnFromCall, StayCaught, TypeInv
  <2> QED BY <2>2, <2>3 DEF IInv, DepthInv
<1>7. CASE /\ activations' = Below(1) /\ nCcalls' = nCcalls - 1
           /\ StayCaught /\ UNCHANGED raised
  <2>1. DepthInv'
    BY <1>1, <1>2, <1>3, <1>7, PopStep DEF TypeInv
  <2>2. TypeInv'
    BY <1>1, <1>7 DEF ReturnFromCall, StayCaught, TypeInv
  <2> QED BY <2>1, <2>2 DEF IInv, DepthInv
<1> QED BY <1>5, <1>6, <1>7 DEF ReturnFromCall, a

\* An error is on its way, or one is raised, and no activation changes.
LEMMA ErrorStep ==
    ASSUME IInv, activations # <<>>, UNCHANGED <<activations, nCcalls, runningThread, depths>>,
           raised' \in ErrorType, raised'.cOverflow => raised.live /\ raised.cOverflow
    PROVE  IInv'
<1>1. DepthInv'
  BY RaiseStep DEF IInv
<1>2. TypeInv'
  BY DEF IInv, TypeInv, depths
<1> QED BY <1>1, <1>2 DEF IInv, DepthInv

\* The raise point keeps the invariant, with or without a handler to run.
LEMMA AtRaisePointStep == ASSUME IInv, atRaisePoint PROVE IInv'
<1> DEFINE e == [raised EXCEPT !.point = FALSE, !.coSnap = @ \/ Kills]
<1>1. activations # <<>> /\ raised.live /\ raised \in ErrorType /\ TypeInv
  BY DEF atRaisePoint, IInv, TypeInv
<1>2. e \in ErrorType /\ e.cOverflow = raised.cOverflow
  <2> DEFINE snap == raised.coSnap \/ Kills
  <2>1. snap \in BOOLEAN
    BY <1>1 DEF ErrorType
  <2> HIDE DEF snap
  <2>2. /\ [raised EXCEPT !.point = FALSE, !.coSnap = snap] \in ErrorType
        /\ [raised EXCEPT !.point = FALSE, !.coSnap = snap].cOverflow = raised.cOverflow
    BY <1>1, <2>1 DEF ErrorType
  <2> QED BY <2>2 DEF snap
<1>3. e.cOverflow => nCcalls < MaxCCalls
  BY <1>1, <1>2 DEF IInv
<1>4. \/ runErrFunc(e)
      \/ badErrFunc(e)
      \/ raised' = e /\ UNCHANGED <<activations, nCcalls>>
  BY DEF atRaisePoint
<1> HIDE DEF e
<1>5. DepthInv'
  BY <1>1, <1>2, <1>3, <1>4, HandlerStep, BadHandlerStep, RaiseStep
<1>6. TypeInv'
  BY <1>1, <1>5 DEF DepthInv, atRaisePoint, StayCaught, TypeInv
<1> QED BY <1>5, <1>6 DEF IInv, DepthInv

\* Unwinding a call gives its count back.
LEMMA UnwindStep == ASSUME IInv, UnwindCall PROVE IInv'
<1>1. activations # <<>> /\ raised.live /\ raised \in ErrorType /\ TypeInv /\ Top.kind = "call"
  BY DEF UnwindCall, Unwinds, IInv, TypeInv
<1>2. /\ Below(1) # <<>> /\ StackInv(Below(1), Top.outerC)
      /\ Top.outerC \in Nat /\ nCcalls = After(Top) /\ Top.outerC <= nCcalls
  BY <1>1, TopFacts
<1>3. nCcalls - 1 = Top.outerC
  BY <1>1, <1>2 DEF After, Counts
<1>4. raised' \in ErrorType /\ raised'.cOverflow = raised.cOverflow
  <2> DEFINE again == KindBelow \notin Catching \cup {"handler"}
  <2> HIDE DEF again
  <2>1. again \in BOOLEAN
    BY DEF again
  <2>2. [raised EXCEPT !.point = again] \in ErrorType /\ [raised EXCEPT !.point = again].cOverflow = raised.cOverflow
    BY <1>1, <2>1, ErrorsTyped
  <2> QED BY <2>2 DEF UnwindCall, again
<1>5. activations' = Below(1) /\ nCcalls' = Top.outerC
  BY <1>3 DEF UnwindCall
<1>6. raised'.cOverflow => nCcalls' < MaxCCalls
  <2>1. raised'.cOverflow => nCcalls < MaxCCalls
    BY <1>1, <1>4 DEF IInv
  <2>2. nCcalls \in Nat
    BY DepthTyped
  <2> QED BY <1>2, <1>5, <2>1, <2>2, LimitsAssumption
<1>7. DepthInv'
  BY <1>2, <1>4, <1>5, <1>6, PopStep
<1>8. TypeInv'
  BY <1>1, <1>4 DEF UnwindCall, StayCaught, TypeInv
<1> QED BY <1>7, <1>8 DEF IInv, DepthInv

\* Catching an error keeps the invariant, after the handler or instead of it.
LEMMA CatchStep == ASSUME IInv, Catch PROVE IInv'
<1>1. /\ activations # <<>> /\ raised.live /\ raised \in ErrorType /\ TypeInv
      /\ Top.kind \in Catching
      /\ raised.cOverflow => nCcalls < MaxCCalls
  BY DEF Catch, Unwinds, IInv, TypeInv
<1>2. CASE (runErrFunc(raised) \/ badErrFunc(raised)) /\ StayCaught
  <2>1. DepthInv'
    BY <1>1, <1>2, HandlerStep, BadHandlerStep
  <2>2. TypeInv'
    BY <1>1, <1>2, <2>1 DEF Catch, StayCaught, TypeInv, DepthInv
  <2> QED BY <2>1, <2>2 DEF IInv, DepthInv
<1>3. CASE activations' = Below(1) /\ raised' = NoError /\ LeaveCatch(Top) /\ UNCHANGED nCcalls
  <2>1. /\ StackInv(Below(1), Top.outerC) /\ nCcalls = After(Top) /\ Top \in ActivationType
        /\ nCcalls \in Nat
    BY <1>1, TopFacts, DepthTyped
  <2>2. nCcalls = Top.outerC
    BY <1>1, <2>1 DEF After, Counts, Catching
  <2>3. DepthInv'
    BY <1>3, <2>1, <2>2, ErrorsTyped, PopStep
  <2>4. Top.outerErrFunc \in Int
    BY <2>1 DEF ActivationType
  <2>5. TypeInv'
    BY <1>1, <1>3, <2>4, ErrorsTyped DEF Catch, LeaveCatch, TypeInv
  <2> QED BY <2>3, <2>5 DEF IInv, DepthInv
<1> QED BY <1>2, <1>3 DEF Catch

\* A failing handler gives back what it was entered with, or runs one level deeper.
LEMMA HandlerFailsStep == ASSUME IInv, HandlerFails PROVE IInv'
<1>1. /\ activations # <<>> /\ raised.live /\ raised \in ErrorType /\ TypeInv
      /\ Top.kind = "handler"
      /\ raised.cOverflow => nCcalls < MaxCCalls
  BY DEF HandlerFails, Unwinds, IInv, TypeInv
<1>2. CASE runErrFunc(raised)
  <2>1. DepthInv'
    BY <1>1, <1>2, HandlerStep
  <2>2. TypeInv'
    BY <1>1, <2>1 DEF HandlerFails, StayCaught, TypeInv, DepthInv
  <2> QED BY <2>1, <2>2 DEF IInv, DepthInv
<1>3. CASE activations' = Below(1) /\ nCcalls' = Top.outerC /\ raised' = Top.err
  <2>1. /\ StackInv(Below(1), Top.outerC) /\ Below(1) # <<>> /\ Top \in ActivationType
        /\ Top.outerC \in Nat /\ Top.outerC <= nCcalls
        /\ Top.err.cOverflow => Top.outerC < MaxCCalls
    BY <1>1, TopFacts
  <2>2. Top.err \in ErrorType
    BY <2>1 DEF ActivationType
  <2>3. DepthInv'
    BY <1>3, <2>1, <2>2, PopStep
  <2>4. TypeInv'
    BY <1>1, <1>3, <2>2 DEF HandlerFails, StayCaught, TypeInv
  <2> QED BY <2>3, <2>4 DEF IInv, DepthInv
<1> QED BY <1>2, <1>3 DEF HandlerFails

\* Steps on values and on the registry do not touch the depths.
LEMMA ControlUnchanged == ASSUME IInv, UNCHANGED control PROVE IInv'
<1>1. UNCHANGED <<activations, nCcalls, raised>>
  BY DEF control, depths
<1>2. DepthInv'
  BY <1>1, SameDepth
<1>3. TypeInv'
  BY DEF IInv, TypeInv, control, depths
<1> QED BY <1>2, <1>3 DEF IInv, DepthInv

\* A resume that is let through counts as one C call.
LEMMA ResumeStep == ASSUME IInv, NEW ref \in Refs, Resume(ref) PROVE IInv'
<1> DEFINE id == coOf(ref)
           a == [Activation("resume") EXCEPT !.co = id, !.resumer = findRunningCo,
                                             !.resumerTh = runningThread]
<1>1. activations # <<>> /\ nCcalls \in Nat /\ TypeInv /\ nCcalls < MaxCCalls
  BY DepthTyped DEF Resume, Runs, IInv
<1>2. id \in Int /\ findRunningCo \in Int
  BY <1>1 DEF coOf, findRunningCo, NoCo, Ids, TypeInv
<1>3. /\ a \in ActivationType /\ a.kind = "resume" /\ a.outerC = nCcalls
  <2>1. "resume" \in Kinds
    BY DEF Kinds
  <2>2. /\ Activation("resume") \in ActivationType /\ Activation("resume").kind = "resume"
        /\ Activation("resume").outerC = nCcalls
    BY <1>1, <2>1, ActivationTyped
  <2> HIDE DEF id
  <2>3. runningThread \in Int
    BY <1>1 DEF TypeInv
  <2> QED BY <1>2, <2>2, <2>3 DEF ActivationType
<1>4. /\ activations' = Append(activations, a) /\ nCcalls' = nCcalls + 1
      /\ runningThread' = id /\ catchDepth' = catchDepth + 1 /\ coDeathDepth' = catchDepth + 1
      /\ errFunc' = 0 /\ raised' \in {NoError, LuaError}
  BY DEF Resume
<1> HIDE DEF a, id
<1>5. After(a) = nCcalls + 1
  BY <1>3 DEF After, Counts
<1>6. raised' \in ErrorType /\ ~raised'.cOverflow
  BY <1>4, ErrorsTyped
<1>7. nCcalls + 1 < MaxCCalls + Room
  BY <1>1, LimitsAssumption
<1>8. DepthInv'
  <2>1. StackInv(activations', nCcalls') /\ activations' # <<>>
    <3>1. StackInv(activations, nCcalls) /\ activations # <<>> /\ a.kind # "handler"
      BY <1>1, <1>3 DEF IInv
    <3>2. StackInv(Append(activations, a), After(a)) /\ Append(activations, a) # <<>>
      BY <1>3, <3>1, Pushed
    <3> QED BY <1>4, <1>5, <3>2
  <2> QED BY <1>4, <1>6, <1>7, <2>1 DEF DepthInv
<1>9. TypeInv'
  BY <1>1, <1>2, <1>4, <1>6 DEF TypeInv
<1> QED BY <1>8, <1>9 DEF IInv, DepthInv

\* Leaving a resume, in whichever way, gives its count back.
LEMMA LeaveResumeStep ==
    ASSUME IInv, Runs \/ Unwinds, NEW left, LeaveResume(left),
           raised' \in {raised, NoError, LuaError}, raised' = raised => ~raised.live
    PROVE  IInv'
<1>1. activations # <<>> /\ raised \in ErrorType /\ TypeInv /\ Top.kind = "resume"
  BY DEF Runs, Unwinds, LeaveResume, IInv, TypeInv
<1>2. /\ StackInv(Below(1), Top.outerC) /\ Below(1) # <<>> /\ Top \in ActivationType
      /\ Top.outerC \in Nat /\ Top.outerC <= nCcalls /\ nCcalls = After(Top)
  BY <1>1, TopFacts
<1>3. /\ activations' = Below(1) /\ nCcalls' = nCcalls - 1 /\ runningThread' = Top.resumerTh
      /\ catchDepth' = catchDepth - 1 /\ coDeathDepth' = Top.outerDeathDepth
      /\ errFunc' = Top.outerErrFunc
  BY DEF LeaveResume
<1>4. nCcalls' = Top.outerC
  BY <1>1, <1>2, <1>3 DEF After, Counts
<1>5. raised' \in ErrorType /\ ~(raised'.live /\ raised'.cOverflow)
  BY <1>1, ErrorsTyped
<1>6. DepthInv'
  BY <1>2, <1>3, <1>4, <1>5, PopStep
<1>7. TypeInv'
  BY <1>1, <1>2, <1>3, <1>5 DEF TypeInv, ActivationType
<1> QED BY <1>6, <1>7 DEF IInv, DepthInv

\* An error starts with the depths as they are.
LEMMA RaiseInv == ASSUME IInv, Raise \/ YieldRefused PROVE IInv'
<1>1. /\ activations # <<>> /\ raised' = LuaError
      /\ UNCHANGED <<activations, nCcalls, runningThread, depths>>
  BY DEF Raise, YieldRefused, Runs, depths
<1> QED BY <1>1, ErrorsTyped, ErrorStep

\* A yield leaves its resume.
LEMMA YieldStep == ASSUME IInv, Yield PROVE IInv'
<1>1. PICK left : LeaveResume(left)
  BY DEF Yield
<1>2. Runs /\ raised' = raised /\ ~raised.live
  BY DEF Yield, Runs
<1> QED BY <1>1, <1>2, LeaveResumeStep

\* The end of a coroutine leaves its resume.
LEMMA FinishStep == ASSUME IInv, Finish PROVE IInv'
<1>1. PICK left : LeaveResume(left)
  BY DEF Finish
<1>2. Runs /\ raised' = raised /\ ~raised.live
  BY DEF Finish, Runs
<1> QED BY <1>1, <1>2, LeaveResumeStep

\* A coroutine dying of an error leaves its resume.
LEMMA DieStep == ASSUME IInv, DieByError PROVE IInv'
<1>1. PICK left : LeaveResume(left)
  BY DEF DieByError
<1>2. Unwinds /\ raised' \in {NoError, LuaError} /\ raised.live
  BY DEF DieByError, Unwinds
<1>3. CASE raised' = raised
  <2>1. raised = LuaError
    BY <1>2, <1>3, ErrorsTyped
  <2>2. ~raised.point
    BY DEF DieByError, Unwinds
  <2> QED BY <2>1, <2>2 DEF LuaError, NoError
<1>4. CASE raised' # raised
  BY <1>1, <1>2, <1>4, LeaveResumeStep
<1> QED BY <1>3, <1>4

----------------------------------------------------------------------------
(* The theorems *)

\* The invariant holds when nothing runs.
LEMMA InitInv == Init => IInv
<1> SUFFICES ASSUME Init PROVE IInv
  OBVIOUS
<1>1. activations = <<>> /\ nCcalls = 0 /\ raised = NoError
  BY DEF Init
<1>2. StackInv(activations, nCcalls)
  BY <1>1 DEF StackInv, Chained, OnChunk, HandlersFit
<1>3. TypeInv
  BY <1>1, ErrorsTyped DEF Init, TypeInv, NoThread
<1> QED BY <1>1, <1>2, <1>3, ErrorsTyped, LimitsAssumption DEF IInv

\* Every step keeps the invariant.
LEMMA NextInv == ASSUME IInv, [Next]_vars PROVE IInv'
<1>1. CASE callOnStack \/ EndChunk
  BY <1>1, ChunkStep
<1>2. CASE CallBack
  BY <1>2, CallBackStep
<1>3. CASE \E kind \in Catching : ProtectedCall(kind)
  BY <1>3, ProtectedCallStep
<1>4. CASE ReturnFromCall
  BY <1>4, ReturnStep
<1>5. CASE Raise \/ YieldRefused
  BY <1>5, RaiseInv
<1>6. CASE atRaisePoint
  BY <1>6, AtRaisePointStep
<1>7. CASE UnwindCall
  BY <1>7, UnwindStep
<1>8. CASE Catch
  BY <1>8, CatchStep
<1>9. CASE HandlerFails
  BY <1>9, HandlerFailsStep
<1>10. CASE \E ref \in Refs : NewCoroutine(ref) \/ ResumeRefused(ref) \/ Publish(ref) \/ Forget(ref)
  <2>1. UNCHANGED control
    BY <1>10 DEF NewCoroutine, ResumeRefused, Publish, Forget
  <2> QED BY <2>1, ControlUnchanged
<1>11. CASE \E ref \in Refs : Resume(ref)
  BY <1>11, ResumeStep
<1>12. CASE Yield
  BY <1>12, YieldStep
<1>13. CASE Finish
  BY <1>13, FinishStep
<1>14. CASE DieByError
  BY <1>14, DieStep
<1>15. CASE releaseCoroutines
  BY <1>15, ControlUnchanged DEF releaseCoroutines
<1>16. CASE UNCHANGED vars
  BY <1>16, ControlUnchanged DEF vars
<1> QED
  BY <1>1, <1>2, <1>3, <1>4, <1>5, <1>6, <1>7, <1>8, <1>9, <1>10, <1>11, <1>12, <1>13,
     <1>14, <1>15, <1>16 DEF Next

\* The invariant always holds.
LEMMA SpecInv == Spec => []IInv
<1>1. IInv /\ [Next]_vars => IInv'
  BY NextInv
<1> QED BY InitInv, <1>1, PTL DEF Spec

\* However calls, handlers, errors and coroutines are nested, the count of C
\* calls stays within the room reserved for handlers: a handler that fails
\* again and again is cut off before it (cCallCheck, runErrFunc, Resume).
THEOREM DepthBounded == Spec => []DepthIsBounded
<1>1. IInv => DepthIsBounded
  BY DEF IInv, DepthIsBounded
<1> QED BY SpecInv, <1>1, PTL

\* The count is the one the activations left account for, each entered at the
\* count the one below it leaves: no exit, by return, error, yield or death,
\* forgets a decrement (the deferred functions of call, resume and handler).
THEOREM CountsAreChained == Spec => []StackInv(activations, nCcalls)
<1>1. IInv => StackInv(activations, nCcalls)
  BY DEF IInv
<1> QED BY SpecInv, <1>1, PTL

----------------------------------------------------------------------------
(* Reading the first n activations *)

\* k is the last of the first n activations of a kind in K, or 0.
Latest(acts, n, K, k) ==
    /\ k \in 0 .. n
    /\ k # 0 => acts[k].kind \in K
    /\ \A i \in k + 1 .. n : acts[i].kind \notin K
Inner(acts, n, K) == CHOOSE k \in 0 .. n : Latest(acts, n, K, k)
CountAt(acts, n, K) == Cardinality({i \in 1 .. n : acts[i].kind \in K})
Agree(a, b, n) == \A i \in 1 .. n : a[i] = b[i]

\* There is exactly one innermost activation of the kinds, or none.
LEMMA InnerIs ==
    ASSUME NEW acts, NEW n \in Nat, NEW K
    PROVE  /\ Latest(acts, n, K, Inner(acts, n, K))
           /\ \A k : Latest(acts, n, K, k) => k = Inner(acts, n, K)
<1> DEFINE T == {m \in Nat : m <= n /\ (m = n \/ acts[n - m].kind \in K)}
<1>1. n \in T /\ T \in SUBSET Nat
  OBVIOUS
<1>2. PICK m \in T : \A l \in T : m <= l
  BY <1>1, Least
<1>3. Latest(acts, n, K, n - m)
  <2>1. n - m \in 0 .. n /\ (n - m # 0 => acts[n - m].kind \in K)
    BY <1>2
  <2>2. ASSUME NEW i \in n - m + 1 .. n, acts[i].kind \in K PROVE FALSE
    <3>1. n - i \in Nat /\ n - i <= n /\ n - (n - i) = i /\ n - i < m
      BY <1>2
    <3>2. n - i \in T
      BY <2>2, <3>1
    <3> QED BY <1>2, <3>1, <3>2
  <2> QED BY <2>1, <2>2 DEF Latest
<1>4. ASSUME NEW j, NEW k, Latest(acts, n, K, j), Latest(acts, n, K, k) PROVE j = k
  <2>1. j \in 0 .. n /\ k \in 0 .. n
    BY <1>4 DEF Latest
  <2>2. ~ (j < k) /\ ~ (k < j)
    BY <1>4, <2>1 DEF Latest
  <2> QED BY <2>1, <2>2
<1>5. Latest(acts, n, K, Inner(acts, n, K))
  <2>1. n - m \in 0 .. n
    BY <1>3 DEF Latest
  <2> QED BY <1>3, <2>1 DEF Inner
<1> QED BY <1>4, <1>5

\* The innermost activation of the kinds among n and one more.
LEMMA InnerStep ==
    ASSUME NEW acts, NEW n \in Nat, NEW K
    PROVE  /\ Inner(acts, 0, K) = 0
           /\ Inner(acts, n, K) \in 0 .. n
           /\ Inner(acts, n + 1, K) =
                IF acts[n + 1].kind \in K THEN n + 1 ELSE Inner(acts, n, K)
<1>1. Latest(acts, 0, K, Inner(acts, 0, K)) /\ Latest(acts, n, K, Inner(acts, n, K))
  BY InnerIs
<1>2. Inner(acts, 0, K) = 0 /\ Inner(acts, n, K) \in 0 .. n
  BY <1>1 DEF Latest
<1>3. CASE acts[n + 1].kind \in K
  <2>1. Latest(acts, n + 1, K, n + 1)
    BY <1>3 DEF Latest
  <2>2. n + 1 \in Nat
    OBVIOUS
  <2>3. n + 1 = Inner(acts, n + 1, K)
    BY <2>1, <2>2, InnerIs
  <2> QED BY <1>2, <1>3, <2>3
<1>4. CASE acts[n + 1].kind \notin K
  <2> DEFINE k == Inner(acts, n, K)
  <2>1. Latest(acts, n, K, k) /\ k \in 0 .. n
    BY <1>1, <1>2
  <2> HIDE DEF k
  <2>2. Latest(acts, n + 1, K, k)
    BY <1>4, <2>1 DEF Latest
  <2>3. n + 1 \in Nat
    OBVIOUS
  <2>4. k = Inner(acts, n + 1, K)
    BY <2>2, <2>3, InnerIs
  <2> QED BY <1>2, <1>4, <2>4 DEF k
<1> QED BY <1>3, <1>4

\* Stacks that agree on n activations have the same innermost ones among them.
LEMMA InnerSame ==
    ASSUME NEW a, NEW b, NEW n \in Nat, Agree(a, b, n), NEW K
    PROVE  Inner(a, n, K) = Inner(b, n, K)
<1> DEFINE k == Inner(a, n, K)
<1>1. Latest(a, n, K, k)
  BY InnerIs
<1> HIDE DEF k
<1>2. Latest(b, n, K, k)
  BY <1>1 DEF Latest, Agree
<1> QED BY <1>2, InnerIs DEF k

\* Counting among n and one more; the first ones count no more than all.
LEMMA CountStep ==
    ASSUME NEW acts, NEW n \in Nat, NEW K
    PROVE  /\ CountAt(acts, n, K) \in Nat
           /\ CountAt(acts, 0, K) = 0
           /\ CountAt(acts, n + 1, K) =
                IF acts[n + 1].kind \in K THEN CountAt(acts, n, K) + 1 ELSE CountAt(acts, n, K)
           /\ \A m \in 0 .. n : CountAt(acts, m, K) <= CountAt(acts, n, K)
<1> DEFINE S(m) == {i \in 1 .. m : acts[i].kind \in K}
<1>1. \A m \in Nat : IsFiniteSet(S(m)) /\ Cardinality(S(m)) \in Nat
  <2> SUFFICES ASSUME NEW m \in Nat PROVE IsFiniteSet(S(m)) /\ Cardinality(S(m)) \in Nat
    OBVIOUS
  <2>1. IsFiniteSet(1 .. m)
    BY FS_Interval
  <2>2. IsFiniteSet(S(m))
    BY <2>1, FS_Subset
  <2> QED BY <2>2, FS_CardinalityType
<1>2. Cardinality(S(0)) = 0
  <2>1. S(0) = {}
    OBVIOUS
  <2> HIDE DEF S
  <2> QED BY <2>1, FS_EmptySet
<1>3. Cardinality(S(n + 1)) = IF acts[n + 1].kind \in K THEN Cardinality(S(n)) + 1 ELSE Cardinality(S(n))
  <2>1. CASE acts[n + 1].kind \in K
    <3>1. S(n + 1) = S(n) \cup {n + 1} /\ n + 1 \notin S(n)
      BY <2>1
    <3> HIDE DEF S
    <3>2. Cardinality(S(n + 1)) = Cardinality(S(n)) + 1
      BY <1>1, <3>1, FS_AddElement
    <3> QED BY <2>1, <3>2
  <2>2. CASE acts[n + 1].kind \notin K
    <3>1. S(n + 1) = S(n)
      BY <2>2
    <3> HIDE DEF S
    <3> QED BY <2>2, <3>1
  <2> QED BY <2>1, <2>2
<1>5. ASSUME NEW m \in 0 .. n PROVE CountAt(acts, m, K) <= CountAt(acts, n, K)
  <2>1. S(m) \in SUBSET S(n)
    OBVIOUS
  <2>2. IsFiniteSet(S(n))
    BY <1>1
  <2> HIDE DEF S
  <2>3. Cardinality(S(m)) <= Cardinality(S(n))
    BY <2>1, <2>2, FS_Subset
  <2> QED BY <2>3 DEF S, CountAt
<1> QED BY <1>1, <1>2, <1>3, <1>5 DEF CountAt

\* The same, for all kinds at once.
LEMMA CountMore ==
    ASSUME NEW acts, NEW n \in Nat
    PROVE  \A K : /\ CountAt(acts, n, K) \in Nat
                 /\ CountAt(acts, n + 1, K) =
                      IF acts[n + 1].kind \in K THEN CountAt(acts, n, K) + 1 ELSE CountAt(acts, n, K)
<1>1. \A K : /\ CountAt(acts, n, K) \in Nat
             /\ CountAt(acts, 0, K) = 0
             /\ CountAt(acts, n + 1, K) =
                  IF acts[n + 1].kind \in K THEN CountAt(acts, n, K) + 1 ELSE CountAt(acts, n, K)
             /\ \A l \in 0 .. n : CountAt(acts, l, K) <= CountAt(acts, n, K)
  BY CountStep
<1> QED BY <1>1

\* Stacks that agree on n activations count the same among them.
LEMMA CountSame ==
    ASSUME NEW a, NEW b, NEW n \in Nat, Agree(a, b, n), NEW K
    PROVE  CountAt(a, n, K) = CountAt(b, n, K)
<1>1. {i \in 1 .. n : a[i].kind \in K} = {i \in 1 .. n : b[i].kind \in K}
  BY DEF Agree
<1> QED BY <1>1 DEF CountAt

----------------------------------------------------------------------------
(* What is in force, and what activations keep of it *)

Boundary == {"pcall", "xpcall", "resume"}
Caught == Catching \cup {"resume"}
LuaKinds == {"chunk", "call", "resume"}

\* errFunc, coDeathDepth and runningThread while n activations are left.
HandlerAt(acts, n) ==
    LET b == Inner(acts, n, Boundary) IN IF b # 0 /\ acts[b].kind = "xpcall" THEN b ELSE 0
DeathAt(acts, n) ==
    LET r == Inner(acts, n, {"resume"}) IN IF r = 0 THEN 0 ELSE CountAt(acts, r, Caught)
ThreadAt(acts, n) ==
    LET r == Inner(acts, n, {"resume"})
    IN  IF n = 0 THEN NoThread ELSE IF r = 0 THEN Main ELSE acts[r].co

\* Nothing inside the innermost coroutine catches.
Doomed(acts, n) == Inner(acts, n, Catching) < Inner(acts, n, {"resume"})

\* The activation keeps what was in force below it, and stands on what called it.
Fits(acts, n, a) ==
    /\ a.kind = "chunk" <=> n = 0
    /\ a.kind \in Boundary => a.outerErrFunc = HandlerAt(acts, n)
    /\ a.kind = "resume" =>
         /\ a.outerDeathDepth = DeathAt(acts, n)
         /\ a.resumerTh = ThreadAt(acts, n)
         /\ a.resumer = IF ThreadAt(acts, n) > Main THEN ThreadAt(acts, n) ELSE NoCo
    /\ a.kind \in Caught => acts[n].kind \in LuaKinds
    /\ a.kind = "handler" =>
         ~ Doomed(acts, n) /\ a.err.live /\ ~ a.err.point /\ ~ a.err.coSnap

Recorded(acts) ==
    /\ acts \in Seq(ActivationType)
    /\ \A i \in 1 .. Len(acts) : Fits(acts, i - 1, acts[i])

\* One more activation.
LEMMA AtStep ==
    ASSUME NEW acts, NEW n \in Nat
    PROVE  LET kind == acts[n + 1].kind
           IN  /\ HandlerAt(acts, n + 1) =
                    IF kind \in Boundary THEN IF kind = "xpcall" THEN n + 1 ELSE 0 ELSE HandlerAt(acts, n)
               /\ DeathAt(acts, n + 1) =
                    IF kind = "resume" THEN CountAt(acts, n, Caught) + 1 ELSE DeathAt(acts, n)
               /\ ThreadAt(acts, n + 1) =
                    IF kind = "resume" THEN acts[n + 1].co
                    ELSE IF n = 0 THEN Main ELSE ThreadAt(acts, n)
               /\ Doomed(acts, n + 1) <=> kind = "resume" \/ (kind \notin Caught /\ Doomed(acts, n))
<1> DEFINE kind == acts[n + 1].kind
<1>1. \A K : /\ Inner(acts, n, K) \in 0 .. n
             /\ Inner(acts, n + 1, K) = (IF acts[n + 1].kind \in K THEN n + 1 ELSE Inner(acts, n, K))
             /\ Inner(acts, 0, K) = 0
  BY InnerStep
<1>2. HandlerAt(acts, n + 1) =
        IF kind \in Boundary THEN IF kind = "xpcall" THEN n + 1 ELSE 0 ELSE HandlerAt(acts, n)
  <2>1. Inner(acts, n + 1, Boundary) = (IF kind \in Boundary THEN n + 1 ELSE Inner(acts, n, Boundary)) /\ n + 1 # 0
    BY <1>1
  <2> QED BY <2>1 DEF HandlerAt
<1>3. DeathAt(acts, n + 1) =
        IF kind = "resume" THEN CountAt(acts, n, Caught) + 1 ELSE DeathAt(acts, n)
  <2>1. Inner(acts, n + 1, {"resume"}) = (IF kind = "resume" THEN n + 1 ELSE Inner(acts, n, {"resume"})) /\ n + 1 # 0
    BY <1>1
  <2>2. kind = "resume" => CountAt(acts, n + 1, Caught) = CountAt(acts, n, Caught) + 1
    BY CountStep DEF Caught
  <2> QED BY <2>1, <2>2 DEF DeathAt
<1>4. ThreadAt(acts, n + 1) =
        IF kind = "resume" THEN acts[n + 1].co ELSE IF n = 0 THEN Main ELSE ThreadAt(acts, n)
  <2>1. /\ Inner(acts, n + 1, {"resume"}) = (IF kind = "resume" THEN n + 1 ELSE Inner(acts, n, {"resume"}))
        /\ n + 1 # 0 /\ (n = 0 => Inner(acts, n, {"resume"}) = 0)
    BY <1>1
  <2> QED BY <2>1 DEF ThreadAt
<1>5. Doomed(acts, n + 1) <=> kind = "resume" \/ (kind \notin Caught /\ Doomed(acts, n))
  <2>1. /\ Inner(acts, n + 1, {"resume"}) = (IF kind = "resume" THEN n + 1 ELSE Inner(acts, n, {"resume"}))
        /\ Inner(acts, n + 1, Catching) = (IF kind \in Catching THEN n + 1 ELSE Inner(acts, n, Catching))
        /\ Inner(acts, n, {"resume"}) \in 0 .. n /\ Inner(acts, n, Catching) \in 0 .. n
    BY <1>1
  <2>2. kind \in Catching => kind # "resume"
    BY DEF Catching
  <2> QED BY <2>1, <2>2 DEF Doomed, Caught
<1> QED BY <1>2, <1>3, <1>4, <1>5

\* Nothing is in force when no activation is left.
LEMMA AtNone ==
    ASSUME NEW acts
    PROVE  /\ HandlerAt(acts, 0) = 0 /\ DeathAt(acts, 0) = 0 /\ ThreadAt(acts, 0) = NoThread
           /\ ~ Doomed(acts, 0)
<1>1. \A K : Inner(acts, 0, K) = 0
  BY InnerStep
<1> QED BY <1>1 DEF HandlerAt, DeathAt, ThreadAt, Doomed

\* What is in force depends on the activations left only.
LEMMA AtSame ==
    ASSUME NEW a, NEW b, NEW n \in Nat, Agree(a, b, n)
    PROVE  /\ HandlerAt(a, n) = HandlerAt(b, n) /\ DeathAt(a, n) = DeathAt(b, n)
           /\ ThreadAt(a, n) = ThreadAt(b, n) /\ (Doomed(a, n) <=> Doomed(b, n))
<1>1. \A K : Inner(a, n, K) = Inner(b, n, K) /\ Inner(a, n, K) \in 0 .. n
  BY InnerSame, InnerStep
<1>2. \A m \in 1 .. n : a[m] = b[m]
  BY DEF Agree
<1>3. \A m \in 1 .. n : CountAt(a, m, Caught) = CountAt(b, m, Caught)
  <2> SUFFICES ASSUME NEW m \in 1 .. n PROVE CountAt(a, m, Caught) = CountAt(b, m, Caught)
    OBVIOUS
  <2>1. m \in Nat /\ Agree(a, b, m)
    BY <1>2 DEF Agree
  <2> QED BY <2>1, CountSame
<1>4. HandlerAt(a, n) = HandlerAt(b, n)
  <2>1. Inner(a, n, Boundary) = Inner(b, n, Boundary) /\ Inner(a, n, Boundary) \in 0 .. n
    BY <1>1
  <2> QED BY <1>2, <2>1 DEF HandlerAt
<1>5. Inner(a, n, {"resume"}) = Inner(b, n, {"resume"}) /\ Inner(a, n, {"resume"}) \in 0 .. n
  BY <1>1
<1>6. DeathAt(a, n) = DeathAt(b, n) /\ ThreadAt(a, n) = ThreadAt(b, n)
  BY <1>2, <1>3, <1>5 DEF DeathAt, ThreadAt
<1>7. Doomed(a, n) <=> Doomed(b, n)
  BY <1>1 DEF Doomed
<1> QED BY <1>4, <1>6, <1>7

\* An activation that fits keeps fitting while the ones below it stay.
LEMMA FitsSame ==
    ASSUME NEW a, NEW b, NEW n \in Nat, Agree(a, b, n), NEW x, Fits(a, n, x)
    PROVE  Fits(b, n, x)
<1>1. n # 0 => a[n] = b[n]
  BY DEF Agree
<1>2. x.kind = "chunk" => x.kind \notin Caught
  BY DEF Caught, Catching
<1>3. /\ HandlerAt(a, n) = HandlerAt(b, n) /\ DeathAt(a, n) = DeathAt(b, n)
      /\ ThreadAt(a, n) = ThreadAt(b, n) /\ (Doomed(a, n) <=> Doomed(b, n))
  BY AtSame
<1> QED BY <1>1, <1>2, <1>3 DEF Fits

\* One more activation that fits.
LEMMA RecordedPush ==
    ASSUME NEW acts, Recorded(acts), NEW a \in ActivationType, Fits(acts, Len(acts), a)
    PROVE  LET new == Append(acts, a)
           IN  /\ Recorded(new) /\ Len(acts) \in Nat /\ Len(new) = Len(acts) + 1
               /\ new[Len(acts) + 1] = a /\ Agree(acts, new, Len(acts))
<1> DEFINE new == Append(acts, a)
           n == Len(acts)
<1>1. /\ n \in Nat /\ new \in Seq(ActivationType) /\ Len(new) = n + 1 /\ new[n + 1] = a
      /\ \A i \in 1 .. n : new[i] = acts[i]
  BY DEF Recorded
<1> HIDE DEF new
<1>2. \A i \in 0 .. n : Agree(acts, new, i)
  BY <1>1 DEF Agree
<1>3. ASSUME NEW i \in 1 .. Len(new) PROVE Fits(new, i - 1, new[i])
  <2>1. i - 1 \in Nat /\ i - 1 \in 0 .. n /\ Agree(acts, new, i - 1)
    BY <1>1, <1>2
  <2>2. Fits(acts, i - 1, new[i])
    <3>1. CASE i = n + 1
      BY <1>1, <3>1
    <3>2. CASE i # n + 1
      BY <1>1, <3>2 DEF Recorded
    <3> QED BY <3>1, <3>2
  <2> QED BY <2>1, <2>2, FitsSame
<1> QED BY <1>1, <1>2, <1>3 DEF Recorded, new

\* The last activation goes.
LEMMA RecordedPop ==
    ASSUME NEW acts, Recorded(acts), acts # <<>>
    PROVE  LET left == SubSeq(acts, 1, Len(acts) - 1)
           IN  /\ Recorded(left) /\ Len(acts) \in Nat \ {0} /\ Len(left) = Len(acts) - 1
               /\ Agree(acts, left, Len(left)) /\ Fits(acts, Len(left), acts[Len(acts)])
<1> DEFINE n == Len(acts) - 1
           left == SubSeq(acts, 1, n)
<1>1. /\ Len(acts) \in Nat \ {0} /\ n \in Nat /\ left \in Seq(ActivationType) /\ Len(left) = n
      /\ \A i \in 1 .. n : left[i] = acts[i]
  <2>1. acts \in Seq(ActivationType) /\ Len(acts) \in Nat \ {0}
    BY DEF Recorded
  <2>2. n \in Nat /\ n <= Len(acts)
    BY <2>1
  <2>3. left \in Seq(ActivationType) /\ Len(left) = n
    <3> HIDE DEF n
    <3> QED BY <2>1, <2>2
  <2>4. \A i \in 1 .. n : left[i] = acts[i]
    <3> HIDE DEF n
    <3> QED BY <2>1, <2>2
  <2> QED BY <2>1, <2>2, <2>3, <2>4
<1> HIDE DEF left
<1>2. \A i \in 0 .. n : Agree(acts, left, i)
  BY <1>1 DEF Agree
<1>3. ASSUME NEW i \in 1 .. n PROVE Fits(left, i - 1, left[i])
  <2>1. i - 1 \in Nat /\ i - 1 \in 0 .. n /\ Agree(acts, left, i - 1)
    BY <1>1, <1>2
  <2>2. Fits(acts, i - 1, left[i])
    BY <1>1 DEF Recorded
  <2> QED BY <2>1, <2>2, FitsSame
<1>4. Fits(acts, n, acts[Len(acts)])
  <2>1. Len(acts) \in 1 .. Len(acts)
    BY <1>1
  <2> QED BY <2>1 DEF Recorded
<1> QED BY <1>1, <1>2, <1>3, <1>4 DEF Recorded, left

----------------------------------------------------------------------------
(* What the chained counts say *)

\* The chained counts count the activations that take part in the count.
LEMMA ChainedCount ==
    ASSUME NEW acts, NEW c, StackInv(acts, c)
    PROVE  c = Cardinality({i \in 1 .. Len(acts) : Counts(acts[i])})
<1> DEFINE S(n) == {i \in 1 .. n : Counts(acts[i])}
           Left(n) == IF n = 0 THEN 0 ELSE After(acts[n])
           Bad == {n \in 0 .. Len(acts) : Cardinality(S(n)) # Left(n)}
<1>1. /\ acts \in Seq(ActivationType) /\ Len(acts) \in Nat /\ Chained(acts)
      /\ c = Left(Len(acts))
  BY DEF StackInv
<1>2. ASSUME NEW n \in Bad, \A m \in Bad : n <= m PROVE FALSE
  <2>1. n \in 0 .. Len(acts) /\ Cardinality(S(n)) # Left(n)
    OBVIOUS
  <2>2. CASE n = 0
    <3>1. S(0) = {}
      OBVIOUS
    <3> HIDE DEF S
    <3> QED BY <2>1, <2>2, <3>1, FS_EmptySet
  <2>3. CASE n # 0
    <3>1. n - 1 \in Nat /\ n - 1 \in 0 .. Len(acts) /\ n \in 1 .. Len(acts) /\ n - 1 < n
      BY <1>1, <2>1, <2>3
    <3>2. Cardinality(S(n - 1)) = Left(n - 1)
      BY <1>2, <3>1
    <3>3. acts[n].outerC = Left(n - 1) /\ acts[n].outerC \in Nat
      <4>1. acts[n] \in ActivationType
        BY <1>1, <3>1
      <4>2. acts[n].outerC = IF n = 1 THEN 0 ELSE After(acts[n - 1])
        BY <1>1, <3>1 DEF Chained
      <4> QED BY <3>1, <4>1, <4>2 DEF ActivationType
    <3>4. IsFiniteSet(S(n - 1))
      <4>1. IsFiniteSet(1 .. n - 1)
        BY <3>1, FS_Interval
      <4>2. S(n - 1) \in SUBSET (1 .. n - 1)
        OBVIOUS
      <4> HIDE DEF S
      <4> QED BY <4>1, <4>2, FS_Subset
    <3>5. CASE Counts(acts[n])
      <4>1. S(n) = S(n - 1) \cup {n} /\ n \notin S(n - 1)
        BY <3>1, <3>5
      <4> HIDE DEF S
      <4>2. Cardinality(S(n)) = Cardinality(S(n - 1)) + 1
        BY <3>4, <4>1, FS_AddElement
      <4>3. After(acts[n]) = acts[n].outerC + 1
        BY <3>5 DEF After
      <4> QED BY <2>1, <2>3, <3>2, <3>3, <4>2, <4>3
    <3>6. CASE ~ Counts(acts[n])
      <4>1. S(n) = S(n - 1)
        BY <3>1, <3>6
      <4>2. After(acts[n]) = acts[n].outerC
        BY <3>6 DEF After
      <4> HIDE DEF S
      <4> QED BY <2>1, <2>3, <3>2, <3>3, <4>1, <4>2
    <3> QED BY <3>5, <3>6
  <2> QED BY <2>2, <2>3
<1>3. Bad = {}
  <2>1. Bad \in SUBSET Nat
    BY <1>1
  <2> HIDE DEF Bad
  <2> QED BY <1>2, <2>1, Least
<1>4. Len(acts) \in 0 .. Len(acts)
  BY <1>1
<1>5. Cardinality(S(Len(acts))) = Left(Len(acts))
  BY <1>3, <1>4
<1> QED BY <1>1, <1>5

\* An activation was entered with no less than any below it leaves.
LEMMA ChainedGrows ==
    ASSUME NEW acts, NEW c, StackInv(acts, c), NEW j \in 1 .. Len(acts)
    PROVE  \A i \in j + 1 .. Len(acts) : After(acts[j]) <= acts[i].outerC
<1> DEFINE Bad == {i \in j + 1 .. Len(acts) : ~ (After(acts[j]) <= acts[i].outerC)}
<1>1. acts \in Seq(ActivationType) /\ Len(acts) \in Nat /\ Chained(acts)
  BY DEF StackInv
<1>2. ASSUME NEW i \in Bad, \A m \in Bad : i <= m PROVE FALSE
  <2>1. /\ i - 1 \in 1 .. Len(acts) /\ i \in 1 .. Len(acts) /\ i # 1 /\ j <= i - 1 /\ i - 1 < i
        /\ ~ (After(acts[j]) <= acts[i].outerC)
    BY <1>1
  <2>2. acts[i].outerC = After(acts[i - 1])
    BY <1>1, <2>1 DEF Chained
  <2>3. /\ acts[j] \in ActivationType /\ acts[i - 1] \in ActivationType
        /\ acts[i - 1].outerC <= After(acts[i - 1])
        /\ After(acts[i - 1]) \in Nat /\ acts[i - 1].outerC \in Nat /\ After(acts[j]) \in Nat
    <3>1. acts[j] \in ActivationType /\ acts[i - 1] \in ActivationType
      BY <1>1, <2>1
    <3> QED BY <3>1, AfterType
  <2>4. CASE i - 1 = j
    BY <2>1, <2>2, <2>3, <2>4
  <2>5. CASE i - 1 # j
    <3>1. i - 1 \in j + 1 .. Len(acts) /\ ~ (i <= i - 1)
      BY <1>1, <2>1, <2>5
    <3>2. After(acts[j]) <= acts[i - 1].outerC
      BY <1>2, <3>1
    <3> QED BY <2>1, <2>2, <2>3, <3>2
  <2> QED BY <2>4, <2>5
<1>3. Bad = {}
  <2>1. Bad \in SUBSET Nat
    BY <1>1
  <2> HIDE DEF Bad
  <2> QED BY <1>2, <2>1, Least
<1> QED BY <1>3

----------------------------------------------------------------------------
(* The depths *)

\* The depths and the handler are those of the activations.
InForce(acts, p, k, e, d) ==
    LET n == Len(acts)
    IN  /\ p = CountAt(acts, n, Boundary)
        /\ k = CountAt(acts, n, Caught)
        /\ e = HandlerAt(acts, n)
        /\ d = DeathAt(acts, n)

\* One more activation that fits, and what is in force on it.
LEMMA InForcePush ==
    ASSUME NEW acts, Recorded(acts), NEW a \in ActivationType, Fits(acts, Len(acts), a),
           NEW p, NEW k, NEW e, NEW d, InForce(acts, p, k, e, d)
    PROVE  InForce(Append(acts, a),
                   IF a.kind \in Boundary THEN p + 1 ELSE p,
                   IF a.kind \in Caught THEN k + 1 ELSE k,
                   IF a.kind \in Boundary THEN IF a.kind = "xpcall" THEN Len(acts) + 1 ELSE 0 ELSE e,
                   IF a.kind = "resume" THEN k + 1 ELSE d)
<1> DEFINE new == Append(acts, a)
           n == Len(acts)
<1>1. /\ Recorded(new) /\ n \in Nat /\ Len(new) = n + 1 /\ new[n + 1] = a /\ Agree(acts, new, n)
  BY RecordedPush
<1> HIDE DEF new
<1>2. \A K : CountAt(new, n + 1, K) =
               IF a.kind \in K THEN CountAt(acts, n, K) + 1 ELSE CountAt(acts, n, K)
  <2>1. \A K : CountAt(new, n + 1, K) =
          IF new[n + 1].kind \in K THEN CountAt(new, n, K) + 1 ELSE CountAt(new, n, K)
    BY <1>1, CountMore
  <2>2. \A K : CountAt(acts, n, K) = CountAt(new, n, K)
    BY <1>1, CountSame
  <2> QED BY <1>1, <2>1, <2>2
<1>3. /\ HandlerAt(acts, n) = HandlerAt(new, n) /\ DeathAt(acts, n) = DeathAt(new, n)
  BY <1>1, AtSame
<1>4. CountAt(acts, n, Caught) = CountAt(new, n, Caught)
  BY <1>1, CountSame
<1>5. /\ HandlerAt(new, n + 1) =
           IF a.kind \in Boundary THEN IF a.kind = "xpcall" THEN n + 1 ELSE 0 ELSE HandlerAt(new, n)
      /\ DeathAt(new, n + 1) =
           IF a.kind = "resume" THEN CountAt(new, n, Caught) + 1 ELSE DeathAt(new, n)
  BY <1>1, AtStep
<1> QED BY <1>1, <1>2, <1>3, <1>4, <1>5 DEF InForce, new

\* The last activation goes, and what it kept is in force again.
LEMMA InForcePop ==
    ASSUME NEW acts, Recorded(acts), acts # <<>>,
           NEW p, NEW k, NEW e, NEW d, InForce(acts, p, k, e, d)
    PROVE  LET a == acts[Len(acts)]
               left == SubSeq(acts, 1, Len(acts) - 1)
           IN  InForce(left,
                       IF a.kind \in Boundary THEN p - 1 ELSE p,
                       IF a.kind \in Caught THEN k - 1 ELSE k,
                       IF a.kind \in Boundary THEN a.outerErrFunc ELSE e,
                       IF a.kind = "resume" THEN a.outerDeathDepth ELSE d)
<1> DEFINE a == acts[Len(acts)]
           left == SubSeq(acts, 1, Len(acts) - 1)
           n == Len(acts) - 1
<1>1. /\ n \in Nat /\ n + 1 = Len(acts) /\ Len(left) = n /\ acts[n + 1] = a
      /\ Agree(acts, left, n) /\ Fits(acts, n, a)
  <2>1. /\ Len(acts) \in Nat \ {0} /\ Len(left) = n
        /\ Agree(acts, left, Len(left)) /\ Fits(acts, Len(left), a)
    BY RecordedPop
  <2>2. n \in Nat /\ n + 1 = Len(acts)
    BY <2>1
  <2> QED BY <2>1, <2>2
<1> HIDE DEF left, n, a
<1>2. \A K : /\ CountAt(acts, n + 1, K) =
                  IF a.kind \in K THEN CountAt(left, n, K) + 1 ELSE CountAt(left, n, K)
             /\ CountAt(left, n, K) \in Nat
  <2>1. \A K : CountAt(acts, n + 1, K) =
          IF acts[n + 1].kind \in K THEN CountAt(acts, n, K) + 1 ELSE CountAt(acts, n, K)
    BY <1>1, CountMore
  <2>2. \A K : CountAt(acts, n, K) = CountAt(left, n, K)
    BY <1>1, CountSame
  <2>3. \A K : CountAt(left, n, K) \in Nat
    BY <1>1, CountStep
  <2> QED BY <1>1, <2>1, <2>2, <2>3
<1>3. /\ HandlerAt(acts, n) = HandlerAt(left, n) /\ DeathAt(acts, n) = DeathAt(left, n)
  BY <1>1, AtSame
<1>4. /\ HandlerAt(acts, n + 1) =
           IF a.kind \in Boundary THEN IF a.kind = "xpcall" THEN n + 1 ELSE 0 ELSE HandlerAt(acts, n)
      /\ DeathAt(acts, n + 1) =
           IF a.kind = "resume" THEN CountAt(acts, n, Caught) + 1 ELSE DeathAt(acts, n)
  BY <1>1, AtStep
<1>5. /\ a.kind \in Boundary => a.outerErrFunc = HandlerAt(acts, n)
      /\ a.kind = "resume" => a.outerDeathDepth = DeathAt(acts, n)
  BY <1>1 DEF Fits
<1>6. /\ p = IF a.kind \in Boundary THEN CountAt(left, n, Boundary) + 1 ELSE CountAt(left, n, Boundary)
      /\ k = IF a.kind \in Caught THEN CountAt(left, n, Caught) + 1 ELSE CountAt(left, n, Caught)
      /\ CountAt(left, n, Boundary) \in Nat /\ CountAt(left, n, Caught) \in Nat
      /\ e = HandlerAt(acts, n + 1) /\ d = DeathAt(acts, n + 1)
  BY <1>1, <1>2 DEF InForce
<1> QED BY <1>1, <1>3, <1>4, <1>5, <1>6 DEF InForce, a, left, n

----------------------------------------------------------------------------
(* Pushing and popping *)

\* What the activations say of the depths, the handler and the thread.
Good(acts, p, k, e, d, th) ==
    Recorded(acts) /\ InForce(acts, p, k, e, d) /\ th = ThreadAt(acts, Len(acts))

\* An activation that fits is pushed.
LEMMA PushGood ==
    ASSUME NEW acts, NEW p, NEW k, NEW e, NEW d, NEW th, Good(acts, p, k, e, d, th),
           NEW a \in ActivationType, Fits(acts, Len(acts), a)
    PROVE  LET new == Append(acts, a)
           IN  /\ Good(new,
                       IF a.kind \in Boundary THEN p + 1 ELSE p,
                       IF a.kind \in Caught THEN k + 1 ELSE k,
                       IF a.kind \in Boundary THEN IF a.kind = "xpcall" THEN Len(acts) + 1 ELSE 0 ELSE e,
                       IF a.kind = "resume" THEN k + 1 ELSE d,
                       IF a.kind = "resume" THEN a.co ELSE IF acts = <<>> THEN Main ELSE th)
               /\ Len(acts) \in Nat /\ Len(new) = Len(acts) + 1
               /\ new # <<>> /\ new[Len(new)] = a
               /\ Agree(acts, new, Len(acts))
               /\ Doomed(new, Len(new)) <=>
                    a.kind = "resume" \/ (a.kind \notin Caught /\ Doomed(acts, Len(acts)))
<1> DEFINE new == Append(acts, a)
           n == Len(acts)
<1>1. /\ Recorded(new) /\ n \in Nat /\ Len(new) = n + 1 /\ new[n + 1] = a /\ Agree(acts, new, n)
      /\ new # <<>> /\ (acts = <<>> <=> n = 0)
  <2>1. Recorded(acts)
    BY DEF Good
  <2>2. /\ Recorded(new) /\ n \in Nat /\ Len(new) = n + 1 /\ new[n + 1] = a /\ Agree(acts, new, n)
    BY <2>1, RecordedPush
  <2> QED BY <2>1, <2>2 DEF Recorded
<1>2. InForce(new,
              IF a.kind \in Boundary THEN p + 1 ELSE p,
              IF a.kind \in Caught THEN k + 1 ELSE k,
              IF a.kind \in Boundary THEN IF a.kind = "xpcall" THEN Len(acts) + 1 ELSE 0 ELSE e,
              IF a.kind = "resume" THEN k + 1 ELSE d)
  BY InForcePush DEF Good
<1> HIDE DEF new
<1>3. /\ ThreadAt(new, n + 1) =
           (IF a.kind = "resume" THEN a.co ELSE IF n = 0 THEN Main ELSE ThreadAt(new, n))
      /\ Doomed(new, n + 1) <=> a.kind = "resume" \/ (a.kind \notin Caught /\ Doomed(new, n))
  BY <1>1, AtStep
<1>4. ThreadAt(acts, n) = ThreadAt(new, n) /\ (Doomed(acts, n) <=> Doomed(new, n))
  BY <1>1, AtSame
<1> QED BY <1>1, <1>2, <1>3, <1>4 DEF Good, new

\* The last activation is popped.
LEMMA PopGood ==
    ASSUME NEW acts, NEW p, NEW k, NEW e, NEW d, NEW th, Good(acts, p, k, e, d, th), acts # <<>>
    PROVE  LET a == acts[Len(acts)]
               left == SubSeq(acts, 1, Len(acts) - 1)
           IN  /\ Good(left,
                       IF a.kind \in Boundary THEN p - 1 ELSE p,
                       IF a.kind \in Caught THEN k - 1 ELSE k,
                       IF a.kind \in Boundary THEN a.outerErrFunc ELSE e,
                       IF a.kind = "resume" THEN a.outerDeathDepth ELSE d,
                       IF a.kind = "resume" THEN a.resumerTh
                       ELSE IF left = <<>> THEN NoThread ELSE th)
               /\ Len(acts) \in Nat \ {0} /\ Len(left) = Len(acts) - 1 /\ Len(left) \in Nat
               /\ a \in ActivationType
               /\ Agree(acts, left, Len(left)) /\ Fits(left, Len(left), a)
               /\ left = <<>> <=> a.kind = "chunk"
               /\ Doomed(acts, Len(acts)) <=>
                    a.kind = "resume" \/ (a.kind \notin Caught /\ Doomed(left, Len(left)))
<1> DEFINE a == acts[Len(acts)]
           left == SubSeq(acts, 1, Len(acts) - 1)
           n == Len(acts) - 1
<1>1. /\ Len(acts) \in Nat \ {0} /\ n \in Nat /\ n + 1 = Len(acts) /\ Len(left) = n /\ acts[n + 1] = a
      /\ Recorded(left) /\ Agree(acts, left, n) /\ Fits(acts, n, a)
      /\ a \in ActivationType /\ (left = <<>> <=> n = 0)
  <2>1. Recorded(acts)
    BY DEF Good
  <2>2. /\ Len(acts) \in Nat \ {0} /\ Len(left) = n /\ Recorded(left)
        /\ Agree(acts, left, Len(left)) /\ Fits(acts, Len(left), a)
    BY <2>1, RecordedPop
  <2>3. n \in Nat /\ n + 1 = Len(acts)
    BY <2>2
  <2>4. a \in ActivationType
    BY <2>1, <2>2 DEF Recorded
  <2>5. left = <<>> <=> n = 0
    <3> HIDE DEF left
    <3> QED BY <2>2 DEF Recorded
  <2> QED BY <2>2, <2>3, <2>4, <2>5
<1>2. InForce(left,
              IF a.kind \in Boundary THEN p - 1 ELSE p,
              IF a.kind \in Caught THEN k - 1 ELSE k,
              IF a.kind \in Boundary THEN a.outerErrFunc ELSE e,
              IF a.kind = "resume" THEN a.outerDeathDepth ELSE d)
  BY InForcePop DEF Good
<1> HIDE DEF left, n, a
<1>3. Fits(left, n, a)
  BY <1>1, FitsSame
<1>4. /\ ThreadAt(acts, n + 1) =
           (IF a.kind = "resume" THEN a.co ELSE IF n = 0 THEN Main ELSE ThreadAt(acts, n))
      /\ Doomed(acts, n + 1) <=> a.kind = "resume" \/ (a.kind \notin Caught /\ Doomed(acts, n))
  BY <1>1, AtStep
<1>5. ThreadAt(acts, n) = ThreadAt(left, n) /\ (Doomed(acts, n) <=> Doomed(left, n))
  BY <1>1, AtSame
<1>6. n = 0 => ThreadAt(left, n) = NoThread
  BY AtNone
<1>7. th = ThreadAt(acts, n + 1)
  BY <1>1 DEF Good
<1>8. a.kind = "resume" => a.resumerTh = ThreadAt(left, n)
  BY <1>3 DEF Fits
<1>9. left = <<>> <=> a.kind = "chunk"
  BY <1>1, <1>3 DEF Fits
<1>10. ThreadAt(left, n) =
         IF a.kind = "resume" THEN a.resumerTh ELSE IF left = <<>> THEN NoThread ELSE th
  BY <1>1, <1>4, <1>5, <1>6, <1>7, <1>8
<1>11. Good(left,
            IF a.kind \in Boundary THEN p - 1 ELSE p,
            IF a.kind \in Caught THEN k - 1 ELSE k,
            IF a.kind \in Boundary THEN a.outerErrFunc ELSE e,
            IF a.kind = "resume" THEN a.outerDeathDepth ELSE d,
            IF a.kind = "resume" THEN a.resumerTh ELSE IF left = <<>> THEN NoThread ELSE th)
  BY <1>1, <1>2, <1>10 DEF Good
<1>12. Doomed(acts, Len(acts)) <=> a.kind = "resume" \/ (a.kind \notin Caught /\ Doomed(left, Len(left)))
  BY <1>1, <1>4, <1>5
<1> QED BY <1>1, <1>3, <1>9, <1>11, <1>12 DEF a, left, n

\* A handler is in force only where something inside the coroutine catches.
LEMMA HandlerNeedsCatch ==
    ASSUME NEW acts, NEW n \in Nat,
           Inner(acts, n, Catching) < Inner(acts, n, {"resume"})
    PROVE  HandlerAt(acts, n) = 0
<1> DEFINE r == Inner(acts, n, {"resume"})
           c == Inner(acts, n, Catching)
           b == Inner(acts, n, Boundary)
<1>1. /\ Latest(acts, n, {"resume"}, r) /\ Latest(acts, n, Catching, c)
      /\ Latest(acts, n, Boundary, b)
  BY InnerIs
<1>2. r \in 0 .. n /\ c \in 0 .. n /\ b \in 0 .. n /\ c < r
  BY <1>1 DEF Latest
<1> HIDE DEF r, c, b
<1>3. r <= b
  <2>1. acts[r].kind \in Boundary
    BY <1>1, <1>2 DEF Latest, Boundary
  <2> QED BY <1>1, <1>2, <2>1 DEF Latest
<1>4. b # 0 /\ acts[b].kind = "xpcall" => b <= c
  BY <1>1, <1>2 DEF Latest, Catching
<1> QED BY <1>2, <1>3, <1>4 DEF HandlerAt, b

\* The test for an error that nothing inside the coroutine catches is a test of
\* depths; a handler is in force only where something catches.
LEMMA DoomedIs ==
    ASSUME NEW acts, NEW n \in Nat
    PROVE  /\ Doomed(acts, n) <=>
                /\ CountAt(acts, n, Boundary) > 0 /\ DeathAt(acts, n) > 0
                /\ CountAt(acts, n, Caught) = DeathAt(acts, n)
           /\ HandlerAt(acts, n) # 0 => ~ Doomed(acts, n)
<1> DEFINE r == Inner(acts, n, {"resume"})
           c == Inner(acts, n, Catching)
           b == Inner(acts, n, Boundary)
           m == Inner(acts, n, Caught)
<1>1. /\ Latest(acts, n, {"resume"}, r) /\ Latest(acts, n, Catching, c)
      /\ Latest(acts, n, Boundary, b) /\ Latest(acts, n, Caught, m)
  BY InnerIs
<1>2. r \in 0 .. n /\ c \in 0 .. n /\ b \in 0 .. n /\ m \in 0 .. n
  BY <1>1 DEF Latest
<1> HIDE DEF r, c, b, m
<1>3. c = r => r = 0
  <2>1. r # 0 => acts[r].kind = "resume"
    BY <1>1 DEF Latest
  <2>2. c # 0 => acts[c].kind \in Catching
    BY <1>1 DEF Latest
  <2> QED BY <2>1, <2>2 DEF Catching
<1>4. c < r => m = r
  <2> SUFFICES ASSUME c < r PROVE m = r
    OBVIOUS
  <2>1. Latest(acts, n, Caught, r)
    BY <1>1, <1>2 DEF Latest, Caught
  <2> QED BY <2>1, InnerIs DEF m
<1>5. r < c => r < m
  BY <1>1, <1>2 DEF Latest, Caught
<1>6. CountAt(acts, n, Caught) = CountAt(acts, m, Caught)
  <2>1. {i \in 1 .. n : acts[i].kind \in Caught} = {i \in 1 .. m : acts[i].kind \in Caught}
    BY <1>1, <1>2 DEF Latest
  <2> QED BY <2>1 DEF CountAt
<1>7. r < m => CountAt(acts, r, Caught) < CountAt(acts, m, Caught)
  <2> SUFFICES ASSUME r < m PROVE CountAt(acts, r, Caught) < CountAt(acts, m, Caught)
    OBVIOUS
  <2> DEFINE l == m - 1
  <2>1. l \in Nat /\ r \in 0 .. l /\ m = l + 1 /\ m # 0
    BY <1>2
  <2>2. acts[m].kind \in Caught
    BY <1>1, <2>1 DEF Latest
  <2> HIDE DEF l
  <2>3. /\ CountAt(acts, l, Caught) \in Nat
        /\ CountAt(acts, l + 1, Caught) =
             (IF acts[l + 1].kind \in Caught THEN CountAt(acts, l, Caught) + 1 ELSE CountAt(acts, l, Caught))
    BY <2>1, CountMore
  <2>4. CountAt(acts, r, Caught) <= CountAt(acts, l, Caught) /\ CountAt(acts, r, Caught) \in Nat
    <3>1. r \in Nat
      BY <1>2
    <3> QED BY <2>1, <3>1, CountStep
  <2> QED BY <2>1, <2>2, <2>3, <2>4
<1>8. \A K : r # 0 /\ "resume" \in K => CountAt(acts, n, K) > 0 /\ CountAt(acts, r, K) > 0
  <2> SUFFICES ASSUME r # 0, NEW K, "resume" \in K
               PROVE  CountAt(acts, n, K) > 0 /\ CountAt(acts, r, K) > 0
    OBVIOUS
  <2> DEFINE l == r - 1
  <2>1. l \in Nat /\ r = l + 1 /\ r \in 0 .. n /\ r \in Nat
    BY <1>2
  <2>2. acts[r].kind = "resume"
    BY <1>1 DEF Latest
  <2> HIDE DEF l
  <2>3. \A L : /\ CountAt(acts, l, L) \in Nat
               /\ CountAt(acts, l + 1, L) =
                    (IF acts[l + 1].kind \in L THEN CountAt(acts, l, L) + 1 ELSE CountAt(acts, l, L))
    BY <2>1, CountMore
  <2>4. CountAt(acts, r, K) > 0 /\ CountAt(acts, r, K) \in Nat
    BY <2>1, <2>2, <2>3
  <2>5. \A L : CountAt(acts, n, L) \in Nat /\ \A j \in 0 .. n : CountAt(acts, j, L) <= CountAt(acts, n, L)
    BY CountStep
  <2> QED BY <2>1, <2>4, <2>5
<1>9. "resume" \in Boundary /\ "resume" \in Caught
  BY DEF Boundary, Caught
<1>10. DeathAt(acts, n) = IF r = 0 THEN 0 ELSE CountAt(acts, r, Caught)
  BY DEF DeathAt, r
<1>11. \A j \in Nat : CountAt(acts, j, Caught) \in Nat
  BY CountStep
<1>12. Doomed(acts, n) <=> c < r
  BY DEF Doomed, c, r
<1>13. CASE c < r
  BY <1>2, <1>4, <1>6, <1>8, <1>9, <1>10, <1>12, <1>13, HandlerNeedsCatch DEF r, c
<1>14. CASE ~ (c < r)
  <2>1. ~ (DeathAt(acts, n) > 0 /\ CountAt(acts, n, Caught) = DeathAt(acts, n))
    <3>1. CASE r = 0
      BY <1>10, <3>1
    <3>2. CASE r # 0
      <4>1. r < c
        BY <1>2, <1>3, <1>14, <3>2
      <4>2. CountAt(acts, r, Caught) < CountAt(acts, m, Caught)
        BY <1>5, <1>7, <4>1
      <4>3. CountAt(acts, r, Caught) \in Nat /\ CountAt(acts, m, Caught) \in Nat
        BY <1>2, <1>11
      <4> QED BY <1>6, <1>10, <3>2, <4>2, <4>3
    <3> QED BY <3>1, <3>2
  <2> QED BY <1>12, <1>14, <2>1
<1> QED BY <1>13, <1>14

----------------------------------------------------------------------------
(* The invariant *)

\* Only code that runs raises errors anew, and an error that is on its way
\* past its raise point knows whether the coroutine dies of it.
ErrorFits(acts, r) ==
    /\ acts # <<>> /\ (r.live => r.point) => acts[Len(acts)].kind \in LuaKinds
    /\ r.live /\ r.coSnap => Doomed(acts, Len(acts))
    /\ r.live /\ ~ r.point /\ Doomed(acts, Len(acts)) => r.coSnap

CoType ==
    [ref : Refs \cup {Null}, status : {"suspended", "running", "normal", "dead", "none"},
     started : BOOLEAN, baseCcalls : Nat, pendingResume : BOOLEAN, deathLines : BOOLEAN]

\* threadChain holds the thread each resume left.
Linked(acts, chain) ==
    /\ chain \in Seq(Int)
    /\ Len(chain) = CountAt(acts, Len(acts), {"resume"})
    /\ \A i \in 1 .. Len(acts) :
          acts[i].kind = "resume" => chain[CountAt(acts, i, {"resume"})] = acts[i].resumerTh

\* A resume on the stack owns a coroutine in use, and no other resume does.
Owned(acts, reg) ==
    /\ \A i \in 1 .. Len(acts) : acts[i].kind = "resume" =>
          /\ acts[i].co \in 1 .. Len(reg)
          /\ reg[acts[i].co].status \in {"running", "normal"}
          /\ reg[acts[i].co].baseCcalls = acts[i].outerC + 1
    /\ \A i, j \in 1 .. Len(acts) :
          acts[i].kind = "resume" /\ acts[j].kind = "resume" /\ acts[i].co = acts[j].co => i = j

\* The chain is the main thread, then coroutines, each of them once.
OneEach(chain, th, n) ==
    /\ th \in Int /\ chain \in Seq(Int)
    /\ IF chain = <<>> THEN th \in {NoThread, Main} ELSE chain[1] = Main /\ th \in 1 .. n
    /\ \A k \in 2 .. Len(chain) : chain[k] \in 1 .. n
    /\ \A k, l \in 1 .. Len(chain) : chain[k] = chain[l] => k = l
    /\ \A k \in 1 .. Len(chain) : chain[k] # th

\* What each status stands for.
Statuses(reg, chain, th) ==
    /\ reg \in Seq(CoType) /\ Len(reg) <= MaxCos
    /\ \A id \in 1 .. Len(reg) :
          /\ reg[id].status = "running" <=> id = th
          /\ reg[id].status = "normal" <=> \E k \in 1 .. Len(chain) : chain[k] = id
          /\ reg[id].status = "suspended" => (reg[id].started <=> reg[id].pendingResume)
          /\ reg[id].status \in {"running", "normal"} => reg[id].started

\* A free id is on the list once; a thread object has one id.
Registered(reg, free) ==
    /\ free \in Seq(1 .. Len(reg))
    /\ \A k, l \in 1 .. Len(free) : free[k] = free[l] => k = l
    /\ \A id \in 1 .. Len(reg) :
          /\ reg[id].status = "none" <=> \E k \in 1 .. Len(free) : free[k] = id
          /\ reg[id].status = "none" <=> reg[id].ref = Null
    /\ \A id, jd \in 1 .. Len(reg) : reg[id].ref = reg[jd].ref /\ reg[id].ref # Null => id = jd

DyingFits == raised.live /\ raised.coSnap => runningThread \in Ids /\ cos[runningThread].deathLines

ValuesTyped == globals \in SUBSET Refs /\ stacks \in [0 .. MaxCos -> SUBSET Refs]

----------------------------------------------------------------------------
(* The chain of threads beside the activations *)

Frames(acts, p, k, e, d, th, chain, reg) ==
    Good(acts, p, k, e, d, th) /\ Linked(acts, chain) /\ Owned(acts, reg)

\* Counting one kind, for the activations that stay.
LEMMA CountKept ==
    ASSUME NEW a, NEW b, NEW n \in Nat, Agree(a, b, n), NEW K
    PROVE  \A i \in 1 .. n : CountAt(a, i, K) = CountAt(b, i, K)
<1> SUFFICES ASSUME NEW i \in 1 .. n PROVE CountAt(a, i, K) = CountAt(b, i, K)
  OBVIOUS
<1>1. i \in Nat /\ Agree(a, b, i)
  BY DEF Agree
<1> QED BY <1>1, CountSame

\* A resume counts itself, and no more than all of them.
LEMMA CountBounds ==
    ASSUME NEW acts, NEW n \in Nat, NEW K, NEW i \in 1 .. n, acts[i].kind \in K
    PROVE  CountAt(acts, i, K) \in 1 .. CountAt(acts, n, K)
<1> DEFINE l == i - 1
<1>1. l \in Nat /\ i = l + 1 /\ i \in 0 .. n
  OBVIOUS
<1> HIDE DEF l
<1>2. \A L : /\ CountAt(acts, l, L) \in Nat
             /\ CountAt(acts, l + 1, L) =
                  (IF acts[l + 1].kind \in L THEN CountAt(acts, l, L) + 1 ELSE CountAt(acts, l, L))
  BY <1>1, CountMore
<1>3. CountAt(acts, i, K) = CountAt(acts, l, K) + 1 /\ CountAt(acts, l, K) \in Nat
  BY <1>1, <1>2
<1>4. CountAt(acts, n, K) \in Nat /\ CountAt(acts, i, K) <= CountAt(acts, n, K)
  BY <1>1, CountStep
<1> QED BY <1>3, <1>4

\* An activation that is no resume is pushed.
LEMMA FramesPush ==
    ASSUME NEW acts, NEW p, NEW k, NEW e, NEW d, NEW th, NEW chain, NEW reg,
           Frames(acts, p, k, e, d, th, chain, reg),
           NEW a \in ActivationType, Fits(acts, Len(acts), a), a.kind # "resume"
    PROVE  LET new == Append(acts, a)
           IN  /\ Frames(new,
                         IF a.kind \in Boundary THEN p + 1 ELSE p,
                         IF a.kind \in Caught THEN k + 1 ELSE k,
                         IF a.kind \in Boundary THEN IF a.kind = "xpcall" THEN Len(acts) + 1 ELSE 0 ELSE e,
                         d, IF acts = <<>> THEN Main ELSE th, chain, reg)
               /\ Len(acts) \in Nat /\ Len(new) = Len(acts) + 1
               /\ new # <<>> /\ new[Len(new)] = a
               /\ Doomed(new, Len(new)) <=> a.kind \notin Caught /\ Doomed(acts, Len(acts))
<1> DEFINE new == Append(acts, a)
           n == Len(acts)
<1>1. /\ Good(new,
              IF a.kind \in Boundary THEN p + 1 ELSE p,
              IF a.kind \in Caught THEN k + 1 ELSE k,
              IF a.kind \in Boundary THEN IF a.kind = "xpcall" THEN Len(acts) + 1 ELSE 0 ELSE e,
              d, IF acts = <<>> THEN Main ELSE th)
      /\ n \in Nat /\ Len(new) = n + 1 /\ new # <<>> /\ new[n + 1] = a
      /\ Agree(acts, new, n)
      /\ Doomed(new, Len(new)) <=> a.kind \notin Caught /\ Doomed(acts, n)
  BY PushGood DEF Frames
<1> HIDE DEF new
<1>2. \A i \in 1 .. n : new[i] = acts[i]
  BY <1>1 DEF Agree
<1>3. \A i \in 1 .. n + 1 : new[i].kind = "resume" => i \in 1 .. n
  BY <1>1
<1>4. Linked(new, chain)
  <2>1. CountAt(new, n + 1, {"resume"}) = CountAt(new, n, {"resume"})
    <3>1. \A K : CountAt(new, n + 1, K) =
                   (IF new[n + 1].kind \in K THEN CountAt(new, n, K) + 1 ELSE CountAt(new, n, K))
      BY <1>1, CountMore
    <3> QED BY <1>1, <3>1
  <2>2. CountAt(new, n, {"resume"}) = CountAt(acts, n, {"resume"})
    BY <1>1, CountSame
  <2>3. \A i \in 1 .. n : CountAt(acts, i, {"resume"}) = CountAt(new, i, {"resume"})
    BY <1>1, CountKept
  <2>4. /\ Len(chain) = CountAt(new, Len(new), {"resume"}) /\ chain \in Seq(Int)
    BY <1>1, <2>1, <2>2 DEF Frames, Linked
  <2>5. ASSUME NEW i \in 1 .. Len(new), new[i].kind = "resume"
        PROVE  chain[CountAt(new, i, {"resume"})] = new[i].resumerTh
    <3>1. i \in 1 .. n /\ new[i] = acts[i]
      BY <1>1, <1>2, <1>3, <2>5
    <3> QED BY <2>3, <2>5, <3>1 DEF Frames, Linked
  <2> QED BY <2>4, <2>5 DEF Linked
<1>5. Owned(new, reg)
  BY <1>1, <1>2, <1>3 DEF Frames, Owned
<1> QED BY <1>1, <1>4, <1>5 DEF Frames, new

\* An activation that is no resume is popped.
LEMMA FramesPop ==
    ASSUME NEW acts, NEW p, NEW k, NEW e, NEW d, NEW th, NEW chain, NEW reg,
           Frames(acts, p, k, e, d, th, chain, reg), acts # <<>>,
           acts[Len(acts)].kind # "resume"
    PROVE  LET a == acts[Len(acts)]
               left == SubSeq(acts, 1, Len(acts) - 1)
           IN  /\ Frames(left,
                         IF a.kind \in Boundary THEN p - 1 ELSE p,
                         IF a.kind \in Caught THEN k - 1 ELSE k,
                         IF a.kind \in Boundary THEN a.outerErrFunc ELSE e,
                         d, IF left = <<>> THEN NoThread ELSE th, chain, reg)
               /\ Len(acts) \in Nat \ {0} /\ Len(left) = Len(acts) - 1 /\ Len(left) \in Nat
               /\ a \in ActivationType /\ Fits(left, Len(left), a)
               /\ Agree(acts, left, Len(left))
               /\ left = <<>> <=> a.kind = "chunk"
               /\ Doomed(acts, Len(acts)) <=> a.kind \notin Caught /\ Doomed(left, Len(left))
<1> DEFINE a == acts[Len(acts)]
           left == SubSeq(acts, 1, Len(acts) - 1)
           n == Len(acts) - 1
<1>1. /\ Good(left,
              IF a.kind \in Boundary THEN p - 1 ELSE p,
              IF a.kind \in Caught THEN k - 1 ELSE k,
              IF a.kind \in Boundary THEN a.outerErrFunc ELSE e,
              d, IF left = <<>> THEN NoThread ELSE th)
      /\ Len(acts) \in Nat \ {0} /\ Len(left) = n /\ n \in Nat /\ a \in ActivationType
      /\ Agree(acts, left, n) /\ Fits(left, n, a)
      /\ left = <<>> <=> a.kind = "chunk"
      /\ Doomed(acts, Len(acts)) <=> a.kind \notin Caught /\ Doomed(left, n)
  BY PopGood DEF Frames
<1>2. n + 1 = Len(acts) /\ a = acts[n + 1]
  BY <1>1
<1> HIDE DEF left, n
<1>3. \A i \in 1 .. n : left[i] = acts[i] /\ i \in 1 .. Len(acts)
  BY <1>1, <1>2 DEF Agree
<1>4. Linked(left, chain)
  <2>1. CountAt(acts, n + 1, {"resume"}) = CountAt(acts, n, {"resume"})
    <3>1. \A K : CountAt(acts, n + 1, K) =
                   (IF acts[n + 1].kind \in K THEN CountAt(acts, n, K) + 1 ELSE CountAt(acts, n, K))
      BY <1>1, CountMore
    <3> QED BY <1>2, <3>1
  <2>2. CountAt(acts, n, {"resume"}) = CountAt(left, n, {"resume"})
    BY <1>1, CountSame
  <2>3. \A i \in 1 .. n : CountAt(acts, i, {"resume"}) = CountAt(left, i, {"resume"})
    BY <1>1, CountKept
  <2> QED BY <1>1, <1>2, <1>3, <2>1, <2>2, <2>3 DEF Frames, Linked
<1>5. Owned(left, reg)
  BY <1>1, <1>2, <1>3 DEF Frames, Owned
<1> QED BY <1>1, <1>4, <1>5 DEF Frames, left, n

InUseIn(reg, id) == reg[id].status \in {"running", "normal"}

\* Coroutines in use stay in use, entered at the same count, but for one.
KeepsUse(reg, new, co) ==
    /\ Len(new) = Len(reg)
    /\ \A id \in 1 .. Len(reg) : id # co /\ InUseIn(reg, id) =>
          InUseIn(new, id) /\ new[id].baseCcalls = reg[id].baseCcalls

\* A resume is pushed: the thread it leaves joins the chain.
LEMMA FramesResume ==
    ASSUME NEW acts, NEW p, NEW k, NEW e, NEW d, NEW th, NEW chain, NEW reg,
           Frames(acts, p, k, e, d, th, chain, reg),
           NEW a \in ActivationType, Fits(acts, Len(acts), a), a.kind = "resume",
           NEW reg2, KeepsUse(reg, reg2, a.co), Len(reg) \in Nat,
           a.co \in 1 .. Len(reg), ~ InUseIn(reg, a.co),
           InUseIn(reg2, a.co), reg2[a.co].baseCcalls = a.outerC + 1
    PROVE  LET new == Append(acts, a)
           IN  /\ Frames(new, p + 1, k + 1, 0, k + 1, a.co, Append(chain, th), reg2)
               /\ new # <<>> /\ new[Len(new)] = a /\ Doomed(new, Len(new))
<1> DEFINE new == Append(acts, a)
           more == Append(chain, th)
           n == Len(acts)
<1>1. /\ Good(new, p + 1, k + 1, 0, k + 1, a.co)
      /\ n \in Nat /\ Len(new) = n + 1 /\ new # <<>> /\ new[n + 1] = a
      /\ Agree(acts, new, n) /\ Doomed(new, Len(new))
  <2>1. a.kind \in Boundary /\ a.kind \in Caught /\ a.kind # "xpcall"
    BY DEF Boundary, Caught
  <2>2. Good(acts, p, k, e, d, th)
    BY DEF Frames
  <2> QED BY <2>1, <2>2, PushGood
<1> HIDE DEF new
<1>2. \A i \in 1 .. n : new[i] = acts[i]
  BY <1>1 DEF Agree
<1>3. a.resumerTh = th /\ th \in Int
  BY DEF Frames, Good, Fits, ActivationType
<1>4. Linked(new, more)
  <2> DEFINE m == Len(chain)
  <2>1. CountAt(new, n + 1, {"resume"}) = CountAt(new, n, {"resume"}) + 1
    <3>1. \A K : CountAt(new, n + 1, K) =
                   (IF new[n + 1].kind \in K THEN CountAt(new, n, K) + 1 ELSE CountAt(new, n, K))
      BY <1>1, CountMore
    <3> QED BY <1>1, <3>1
  <2>2. CountAt(new, n, {"resume"}) = CountAt(acts, n, {"resume"})
    BY <1>1, CountSame
  <2>3. \A i \in 1 .. n : CountAt(acts, i, {"resume"}) = CountAt(new, i, {"resume"})
    BY <1>1, CountKept
  <2>4. /\ chain \in Seq(Int) /\ m \in Nat /\ m = CountAt(acts, n, {"resume"})
        /\ more \in Seq(Int) /\ Len(more) = m + 1 /\ more[m + 1] = th
        /\ \A i \in 1 .. m : more[i] = chain[i]
    BY <1>3 DEF Frames, Linked
  <2> HIDE DEF more, m
  <2>5. ASSUME NEW i \in 1 .. Len(new), new[i].kind = "resume"
        PROVE  more[CountAt(new, i, {"resume"})] = new[i].resumerTh
    <3>1. CASE i = n + 1
      BY <1>1, <1>3, <2>1, <2>2, <2>4, <3>1
    <3>2. CASE i # n + 1
      <4>1. i \in 1 .. n /\ new[i] = acts[i]
        BY <1>1, <1>2, <3>2
      <4>2. CountAt(acts, i, {"resume"}) \in 1 .. m
        BY <1>1, <2>4, <2>5, <4>1, CountBounds
      <4>3. chain[CountAt(acts, i, {"resume"})] = new[i].resumerTh
        BY <2>5, <4>1 DEF Frames, Linked
      <4> QED BY <2>3, <2>4, <4>1, <4>2, <4>3
    <3> QED BY <3>1, <3>2
  <2> QED BY <1>1, <2>1, <2>2, <2>4, <2>5 DEF Linked
<1>5. Owned(new, reg2)
  <2>1. ASSUME NEW i \in 1 .. n, acts[i].kind = "resume"
        PROVE  /\ acts[i].co \in 1 .. Len(reg) /\ InUseIn(reg, acts[i].co) /\ acts[i].co # a.co
               /\ reg[acts[i].co].baseCcalls = acts[i].outerC + 1
    BY <2>1 DEF Frames, Owned, InUseIn
  <2>2. ASSUME NEW i \in 1 .. Len(new), new[i].kind = "resume"
        PROVE  /\ new[i].co \in 1 .. Len(reg2)
               /\ reg2[new[i].co].status \in {"running", "normal"}
               /\ reg2[new[i].co].baseCcalls = new[i].outerC + 1
    <3>1. CASE i = n + 1
      BY <1>1, <3>1 DEF KeepsUse, InUseIn
    <3>2. CASE i # n + 1
      <4>1. i \in 1 .. n /\ new[i] = acts[i]
        BY <1>1, <1>2, <3>2
      <4> QED BY <2>1, <2>2, <4>1 DEF KeepsUse, InUseIn
    <3> QED BY <3>1, <3>2
  <2>3. ASSUME NEW i \in 1 .. Len(new), NEW j \in 1 .. Len(new),
               new[i].kind = "resume", new[j].kind = "resume", new[i].co = new[j].co
        PROVE  i = j
    <3>1. \A l \in 1 .. Len(new) : l # n + 1 => l \in 1 .. n /\ new[l] = acts[l]
      BY <1>1, <1>2
    <3>2. CASE i = n + 1
      BY <1>1, <2>1, <2>3, <3>1, <3>2
    <3>3. CASE j = n + 1
      BY <1>1, <2>1, <2>3, <3>1, <3>3
    <3>4. CASE i # n + 1 /\ j # n + 1
      BY <2>3, <3>1, <3>4 DEF Frames, Owned
    <3> QED BY <3>2, <3>3, <3>4
  <2> QED BY <2>2, <2>3 DEF Owned
<1> QED BY <1>1, <1>4, <1>5 DEF Frames, new

\* A resume is left: the thread it left runs again.
LEMMA FramesLeave ==
    ASSUME NEW acts, NEW p, NEW k, NEW e, NEW d, NEW th, NEW chain, NEW reg,
           Frames(acts, p, k, e, d, th, chain, reg), acts # <<>>,
           acts[Len(acts)].kind = "resume",
           NEW reg2, KeepsUse(reg, reg2, acts[Len(acts)].co)
    PROVE  LET a == acts[Len(acts)]
               left == SubSeq(acts, 1, Len(acts) - 1)
           IN  /\ Frames(left, p - 1, k - 1, a.outerErrFunc, a.outerDeathDepth, a.resumerTh,
                         Front(chain), reg2)
               /\ a \in ActivationType /\ Fits(left, Len(left), a)
               /\ left # <<>> /\ left[Len(left)].kind \in LuaKinds
               /\ chain # <<>> /\ chain[Len(chain)] = a.resumerTh
               /\ th = a.co /\ Doomed(acts, Len(acts))
<1> DEFINE a == acts[Len(acts)]
           left == SubSeq(acts, 1, Len(acts) - 1)
           n == Len(acts) - 1
<1>1. /\ Good(left, p - 1, k - 1, a.outerErrFunc, a.outerDeathDepth, a.resumerTh)
      /\ Len(acts) \in Nat \ {0} /\ Len(left) = n /\ n \in Nat /\ a \in ActivationType
      /\ Agree(acts, left, n) /\ Fits(left, n, a) /\ left # <<>>
      /\ Doomed(acts, Len(acts))
  <2>1. a.kind \in Boundary /\ a.kind \in Caught /\ a.kind # "chunk"
    BY DEF Boundary, Caught
  <2>2. Good(acts, p, k, e, d, th)
    BY DEF Frames
  <2> QED BY <2>1, <2>2, PopGood
<1>2. n + 1 = Len(acts) /\ a = acts[n + 1]
  BY <1>1
<1> HIDE DEF left, n
<1>3. \A i \in 1 .. n : left[i] = acts[i] /\ i \in 1 .. Len(acts) /\ i # Len(acts)
  BY <1>1, <1>2 DEF Agree
<1>4. left[Len(left)].kind \in LuaKinds
  BY <1>1 DEF Fits, Caught
<1>5. th = a.co
  <2>1. ThreadAt(acts, n + 1) =
          (IF acts[n + 1].kind = "resume" THEN acts[n + 1].co ELSE IF n = 0 THEN Main ELSE ThreadAt(acts, n))
    BY <1>1, AtStep
  <2> QED BY <1>2, <2>1 DEF Frames, Good
<1>6. /\ Linked(left, Front(chain)) /\ chain # <<>> /\ chain[Len(chain)] = a.resumerTh
  <2> DEFINE m == CountAt(acts, n, {"resume"})
  <2>1. CountAt(acts, n + 1, {"resume"}) = m + 1 /\ m \in Nat
    <3>1. \A K : /\ CountAt(acts, n, K) \in Nat
                 /\ CountAt(acts, n + 1, K) =
                      (IF acts[n + 1].kind \in K THEN CountAt(acts, n, K) + 1 ELSE CountAt(acts, n, K))
      BY <1>1, CountMore
    <3> QED BY <1>2, <3>1
  <2>2. m = CountAt(left, n, {"resume"})
    BY <1>1, CountSame
  <2>3. \A i \in 1 .. n : CountAt(acts, i, {"resume"}) = CountAt(left, i, {"resume"})
    BY <1>1, CountKept
  <2>4. \A i \in 1 .. n : acts[i].kind = "resume" => CountAt(acts, i, {"resume"}) \in 1 .. m
    BY <1>1, CountBounds
  <2> HIDE DEF m
  <2>5. chain \in Seq(Int) /\ Len(chain) = m + 1 /\ chain[m + 1] = a.resumerTh
    BY <1>1, <1>2, <2>1 DEF Frames, Linked
  <2>6. /\ Front(chain) \in Seq(Int) /\ Len(Front(chain)) = m
        /\ \A i \in 1 .. m : Front(chain)[i] = chain[i]
    <3>1. Front(chain) = SubSeq(chain, 1, m)
      BY <2>1, <2>5 DEF Front
    <3> QED BY <2>1, <2>5, <3>1
  <2>7. ASSUME NEW i \in 1 .. n, left[i].kind = "resume"
        PROVE  Front(chain)[CountAt(left, i, {"resume"})] = left[i].resumerTh
    BY <1>3, <2>3, <2>4, <2>6, <2>7 DEF Frames, Linked
  <2>8. chain # <<>> /\ chain[Len(chain)] = a.resumerTh
    BY <2>1, <2>5
  <2> QED BY <1>1, <2>2, <2>6, <2>7, <2>8 DEF Linked
<1>7. Owned(left, reg2)
  <2>1. \A i \in 1 .. n : left[i].kind = "resume" => acts[i].co # a.co
    BY <1>1, <1>2, <1>3 DEF Frames, Owned
  <2>2. ASSUME NEW i \in 1 .. Len(left), left[i].kind = "resume"
        PROVE  /\ left[i].co \in 1 .. Len(reg2)
               /\ reg2[left[i].co].status \in {"running", "normal"}
               /\ reg2[left[i].co].baseCcalls = left[i].outerC + 1
    <3>1. i \in 1 .. n /\ left[i] = acts[i] /\ i \in 1 .. Len(acts) /\ left[i].co # a.co
      BY <1>1, <1>3, <2>1, <2>2
    <3>2. left[i].co \in 1 .. Len(reg) /\ InUseIn(reg, left[i].co) /\ reg[left[i].co].baseCcalls = left[i].outerC + 1
      BY <2>2, <3>1 DEF Frames, Owned, InUseIn
    <3> QED BY <3>1, <3>2 DEF KeepsUse, InUseIn, a
  <2>3. ASSUME NEW i \in 1 .. Len(left), NEW j \in 1 .. Len(left),
               left[i].kind = "resume", left[j].kind = "resume", left[i].co = left[j].co
        PROVE  i = j
    BY <1>1, <1>3, <2>3 DEF Frames, Owned
  <2> QED BY <2>2, <2>3 DEF Owned
<1> QED BY <1>1, <1>4, <1>5, <1>6, <1>7 DEF Frames, left, n

----------------------------------------------------------------------------
(* Calls, errors and handlers *)

FramesNow ==
    Frames(activations, protectDepth, catchDepth, errFunc, coDeathDepth, runningThread, threadChain, cos)
RaisedFits == ErrorFits(activations, raised)

\* Whether errors are live, at their raise point, and dying ones.
LEMMA ErrorMarks ==
    /\ ~ NoError.live /\ ~ NoError.coSnap
    /\ LuaError.live /\ LuaError.point /\ ~ LuaError.coSnap
    /\ \A n : cCallError(n).live /\ cCallError(n).point /\ ~ cCallError(n).coSnap
    /\ \A n : LET over == [cCallError(n) EXCEPT !.point = FALSE]
              IN  over.live /\ ~ over.point /\ ~ over.coSnap
    /\ \A x \in ErrorType : LET h == [x EXCEPT !.handled = TRUE]
                            IN  /\ h \in ErrorType /\ h.live = x.live /\ h.point = x.point
                                /\ h.coSnap = x.coSnap
<1>1. /\ NoError \in ErrorType /\ ~ NoError.live /\ ~ NoError.coSnap
      /\ LuaError \in ErrorType /\ LuaError.live /\ LuaError.point /\ ~ LuaError.coSnap
  BY DEF NoError, LuaError, ErrorType
<1>2. ASSUME NEW n
      PROVE  /\ cCallError(n).live /\ cCallError(n).point /\ ~ cCallError(n).coSnap
             /\ LET over == [cCallError(n) EXCEPT !.point = FALSE]
                IN  over.live /\ ~ over.point /\ ~ over.coSnap
  <2> DEFINE x == n = MaxCCalls
             y == n >= MaxCCalls + Room
             z == [LuaError EXCEPT !.cOverflow = x, !.errErr = y]
  <2> HIDE DEF x, y
  <2>1. z.live /\ z.point /\ ~ z.coSnap /\ z = [z EXCEPT !.live = TRUE]
    BY <1>1 DEF ErrorType
  <2>2. LET over == [z EXCEPT !.point = FALSE] IN over.live /\ ~ over.point /\ ~ over.coSnap
    BY <1>1 DEF ErrorType
  <2> QED BY <2>1, <2>2 DEF cCallError, x, y
<1>3. ASSUME NEW x \in ErrorType
      PROVE  LET h == [x EXCEPT !.handled = TRUE]
             IN  /\ h \in ErrorType /\ h.live = x.live /\ h.point = x.point /\ h.coSnap = x.coSnap
  BY DEF ErrorType
<1> QED BY <1>1, <1>2, <1>3

\* What a new activation keeps.
LEMMA ActivationKeeps ==
    ASSUME IInv, NEW kind \in Kinds
    PROVE  /\ Activation(kind) \in ActivationType /\ Activation(kind).kind = kind
           /\ Activation(kind).outerErrFunc = errFunc
           /\ Activation(kind).outerDeathDepth = coDeathDepth
<1>1. nCcalls \in Nat /\ TypeInv
  BY DepthTyped DEF IInv
<1> QED BY <1>1, ActivationTyped DEF Activation

\* A call fits on anything but an empty stack.
LEMMA CallFits ==
    ASSUME NEW acts, acts \in Seq(ActivationType), acts # <<>>,
           NEW a \in ActivationType, a.kind = "call"
    PROVE  Fits(acts, Len(acts), a)
<1>1. Len(acts) # 0
  OBVIOUS
<1> QED BY <1>1 DEF Fits, Boundary, Caught, Catching

\* What fits the stack, and what runs on it.
LEMMA FramesFacts ==
    ASSUME IInv, FramesNow
    PROVE  /\ activations \in Seq(ActivationType) /\ raised \in ErrorType
           /\ Recorded(activations)
           /\ InForce(activations, protectDepth, catchDepth, errFunc, coDeathDepth)
           /\ runningThread = ThreadAt(activations, Len(activations))
           /\ Len(activations) \in Nat
  BY DEF IInv, TypeInv, StackInv, FramesNow, Frames, Good, Recorded

\* The call of a host function, a metamethod or a handler is pushed.
LEMMA CallBackFrames == ASSUME IInv, FramesNow, RaisedFits, CallBack PROVE FramesNow' /\ RaisedFits'
<1>1. /\ activations # <<>> /\ ~ raised.live
      /\ UNCHANGED <<runningThread, threadChain, cos, protectDepth, catchDepth, coDeathDepth, errFunc>>
  BY DEF CallBack, Runs, registry
<1>2. CASE /\ activations' = Append(activations, Activation("call")) /\ raised' = raised
  <2>1. "call" \in Kinds
    BY DEF Kinds
  <2>2. Activation("call") \in ActivationType /\ Activation("call").kind = "call"
    BY <2>1, ActivationKeeps
  <2> DEFINE a == Activation("call")
  <2> HIDE DEF a
  <2>3. Fits(activations, Len(activations), a)
    BY <1>1, <2>2, CallFits, FramesFacts DEF a
  <2>4. a.kind \notin Boundary /\ a.kind \notin Caught /\ a.kind # "resume" /\ a.kind \in LuaKinds
    BY <2>2 DEF a, Boundary, Caught, Catching, LuaKinds
  <2>5. /\ Frames(Append(activations, a), protectDepth, catchDepth, errFunc, coDeathDepth,
                  runningThread, threadChain, cos)
        /\ Append(activations, a)[Len(Append(activations, a))] = a
    BY <1>1, <2>2, <2>3, <2>4, FramesPush DEF FramesNow, a
  <2> QED BY <1>1, <1>2, <2>4, <2>5 DEF FramesNow, RaisedFits, ErrorFits, a
<1>3. CASE UNCHANGED activations /\ raised' = cCallError(nCcalls + 1)
  <2>1. FramesNow'
    BY <1>1, <1>3 DEF FramesNow
  <2>2. RaisedFits'
    BY <1>1, <1>3, ErrorMarks DEF RaisedFits, ErrorFits
  <2> QED BY <2>1, <2>2
<1> QED BY <1>2, <1>3 DEF CallBack

\* A protected call is pushed where Lua code runs, with or without its call.
LEMMA ProtectedCallFrames ==
    ASSUME IInv, FramesNow, RaisedFits, NEW kind \in Catching, ProtectedCall(kind)
    PROVE  FramesNow' /\ RaisedFits'
<1> DEFINE g == Activation(kind)
           guarded == Append(activations, g)
           a == Activation("call")
<1>1. /\ activations # <<>> /\ ~ raised.live
      /\ UNCHANGED <<runningThread, threadChain, cos, coDeathDepth>>
      /\ protectDepth' = (IF kind = "load" THEN protectDepth ELSE protectDepth + 1)
      /\ catchDepth' = catchDepth + 1
      /\ errFunc' = CASE kind = "pcall" -> 0 [] kind = "xpcall" -> Len(guarded) [] OTHER -> errFunc
  BY DEF ProtectedCall, Runs, registry
<1>2. /\ g \in ActivationType /\ g.kind = kind /\ g.outerErrFunc = errFunc
      /\ a \in ActivationType /\ a.kind = "call"
  <2>1. "call" \in Kinds /\ kind \in Kinds
    BY DEF Kinds, Catching
  <2> QED BY <2>1, ActivationKeeps
<1>3. \/ activations' = Append(guarded, a) /\ UNCHANGED raised
      \/ activations' = guarded /\ raised' = [cCallError(nCcalls + 1) EXCEPT !.point = FALSE]
  BY DEF ProtectedCall
<1> HIDE DEF g, a
<1>4. Fits(activations, Len(activations), g)
  <2>1. activations[Len(activations)].kind \in LuaKinds
    BY <1>1 DEF RaisedFits, ErrorFits
  <2>2. Len(activations) # 0 /\ errFunc = HandlerAt(activations, Len(activations))
    BY <1>1, FramesFacts DEF InForce
  <2> QED BY <1>2, <2>1, <2>2 DEF Fits, Catching
<1>5. /\ g.kind \in Boundary <=> kind # "load"
      /\ g.kind \in Caught /\ g.kind # "resume"
      /\ a.kind \notin Boundary /\ a.kind \notin Caught /\ a.kind # "resume" /\ a.kind \in LuaKinds
  BY <1>2 DEF Boundary, Caught, Catching, LuaKinds
<1>6. /\ Frames(guarded, protectDepth', catchDepth', errFunc', coDeathDepth',
                runningThread', threadChain', cos')
      /\ guarded # <<>> /\ ~ Doomed(guarded, Len(guarded))
  <2>1. Len(guarded) = Len(activations) + 1
    BY <1>2, <1>4, <1>5, FramesPush DEF FramesNow
  <2>2. errFunc' = IF g.kind \in Boundary THEN IF g.kind = "xpcall" THEN Len(activations) + 1 ELSE 0 ELSE errFunc
    BY <1>1, <1>2, <1>5, <2>1 DEF Catching
  <2>3. /\ Frames(guarded,
                  IF g.kind \in Boundary THEN protectDepth + 1 ELSE protectDepth,
                  IF g.kind \in Caught THEN catchDepth + 1 ELSE catchDepth,
                  IF g.kind \in Boundary THEN IF g.kind = "xpcall" THEN Len(activations) + 1 ELSE 0 ELSE errFunc,
                  coDeathDepth, IF activations = <<>> THEN Main ELSE runningThread, threadChain, cos)
        /\ guarded # <<>> /\ ~ Doomed(guarded, Len(guarded))
    BY <1>2, <1>4, <1>5, FramesPush DEF FramesNow
  <2> HIDE DEF guarded
  <2> QED BY <1>1, <1>5, <2>2, <2>3
<1>7. CASE activations' = Append(guarded, a) /\ UNCHANGED raised
  <2>1. guarded \in Seq(ActivationType)
    BY <1>6 DEF Frames, Good, Recorded
  <2>2. Fits(guarded, Len(guarded), a)
    BY <1>2, <1>6, <2>1, CallFits
  <2> HIDE DEF guarded
  <2>3. /\ Frames(Append(guarded, a), protectDepth', catchDepth', errFunc', coDeathDepth',
                  runningThread', threadChain', cos')
        /\ Append(guarded, a)[Len(Append(guarded, a))] = a
    BY <1>2, <1>5, <1>6, <2>2, FramesPush
  <2> QED BY <1>1, <1>5, <1>7, <2>3 DEF FramesNow, RaisedFits, ErrorFits
<1>8. CASE activations' = guarded /\ raised' = [cCallError(nCcalls + 1) EXCEPT !.point = FALSE]
  <2>1. raised'.live /\ ~ raised'.point /\ ~ raised'.coSnap
    BY <1>8, ErrorMarks
  <2> HIDE DEF guarded
  <2> QED BY <1>6, <1>8, <2>1 DEF FramesNow, RaisedFits, ErrorFits
<1> QED BY <1>3, <1>7, <1>8

\* Taking away two activations is taking away one twice.
LEMMA TwoBelow ==
    ASSUME activations \in Seq(ActivationType), Len(activations) >= 2
    PROVE  LET one == Below(1)
           IN  /\ SubSeq(one, 1, Len(one) - 1) = Below(2)
               /\ one[Len(one)] = activations[Len(activations) - 1]
               /\ one # <<>>
<1> DEFINE n == Len(activations)
           one == SubSeq(activations, 1, n - 1)
           two == SubSeq(activations, 1, n - 2)
<1>1. n \in Nat /\ n >= 2 /\ n - 1 \in Nat /\ n - 2 \in Nat /\ (n - 1) - 1 = n - 2
  OBVIOUS
<1>2. /\ one \in Seq(ActivationType) /\ Len(one) = n - 1
      /\ \A i \in 1 .. n - 1 : one[i] = activations[i]
  <2> HIDE DEF n
  <2>1. n = Len(activations)
    BY DEF n
  <2> QED BY <1>1, <2>1
<1>3. /\ two \in Seq(ActivationType) /\ Len(two) = n - 2
      /\ \A i \in 1 .. n - 2 : two[i] = activations[i]
  <2> HIDE DEF n
  <2>1. n = Len(activations)
    BY DEF n
  <2> QED BY <1>1, <2>1
<1>4. SubSeq(one, 1, n - 2) = two
  <2> DEFINE again == SubSeq(one, 1, n - 2)
  <2> HIDE DEF one, two, n
  <2>1. /\ again \in Seq(ActivationType) /\ Len(again) = n - 2
        /\ \A i \in 1 .. n - 2 : again[i] = one[i]
    BY <1>1, <1>2
  <2>2. \A i \in 1 .. n - 2 : again[i] = two[i]
    BY <1>1, <1>2, <1>3, <2>1
  <2> QED BY <1>1, <1>3, <2>1, <2>2, SeqEqual
<1>5. Below(1) = one /\ Below(2) = two
  BY DEF Below
<1>6. one[Len(one)] = activations[n - 1] /\ one # <<>>
  <2> HIDE DEF one
  <2> QED BY <1>1, <1>2
<1> HIDE DEF one, two
<1> QED BY <1>1, <1>2, <1>4, <1>5, <1>6

\* A call is taken away, and what it was called from lies open.
LEMMA PopCall ==
    ASSUME IInv, FramesNow, activations # <<>>, Top.kind = "call"
    PROVE  LET a == activations[Len(activations) - 1]
           IN  /\ Frames(Below(1), protectDepth, catchDepth, errFunc, coDeathDepth,
                         runningThread, threadChain, cos)
               /\ Below(1) # <<>> /\ Below(1)[Len(Below(1))] = a /\ a \in ActivationType
               /\ SubSeq(Below(1), 1, Len(Below(1)) - 1) = Below(2)
               /\ Doomed(activations, Len(activations)) <=> Doomed(Below(1), Len(Below(1)))
<1>1. /\ Top.kind \notin Boundary /\ Top.kind \notin Caught /\ Top.kind # "resume" /\ Top.kind # "chunk"
  BY DEF Boundary, Caught, Catching
<1>2. Top = activations[Len(activations)] /\ Below(1) = SubSeq(activations, 1, Len(activations) - 1)
  BY DEF Top, Below
<1>3. /\ Frames(Below(1), protectDepth, catchDepth, errFunc, coDeathDepth,
                runningThread, threadChain, cos)
      /\ Below(1) # <<>> /\ Len(Below(1)) = Len(activations) - 1
      /\ Doomed(activations, Len(activations)) <=> Doomed(Below(1), Len(Below(1)))
  BY <1>1, <1>2, FramesPop, ZenonT(30) DEF FramesNow
<1>4. Len(activations) - 1 \in 1 .. Len(activations)
  BY <1>1, TopFacts
<1>5. activations \in Seq(ActivationType) /\ Len(activations) >= 2
  BY <1>4, FramesFacts
<1> QED BY <1>3, <1>4, <1>5, TwoBelow

\* A call returns, out of what it was called from.
LEMMA ReturnFrames == ASSUME IInv, FramesNow, RaisedFits, ReturnFromCall PROVE FramesNow' /\ RaisedFits'
<1> DEFINE a == activations[Len(activations) - 1]
           one == Below(1)
           two == Below(2)
<1>1. /\ activations # <<>> /\ ~ raised.live /\ Top.kind = "call"
      /\ UNCHANGED <<runningThread, threadChain, cos, coDeathDepth>>
  BY DEF ReturnFromCall, Runs, registry
<1>2. /\ Frames(one, protectDepth, catchDepth, errFunc, coDeathDepth, runningThread, threadChain, cos)
      /\ one # <<>> /\ one[Len(one)] = a /\ a \in ActivationType
      /\ SubSeq(one, 1, Len(one) - 1) = two
  BY <1>1, PopCall
<1>3. \/ a.kind \in Catching /\ activations' = two /\ LeaveCatch(a) /\ UNCHANGED raised
      \/ a.kind = "handler" /\ activations' = two /\ raised' = a.err /\ StayCaught
      \/ a.kind \notin Catching \cup {"handler"} /\ activations' = one /\ StayCaught /\ UNCHANGED raised
  BY DEF ReturnFromCall
<1> HIDE DEF a, one, two
<1>4. ASSUME a.kind \in Catching \cup {"handler"}
      PROVE  /\ Frames(two,
                       IF a.kind \in Boundary THEN protectDepth - 1 ELSE protectDepth,
                       IF a.kind \in Caught THEN catchDepth - 1 ELSE catchDepth,
                       IF a.kind \in Boundary THEN a.outerErrFunc ELSE errFunc,
                       coDeathDepth, runningThread, threadChain, cos)
             /\ two # <<>> /\ Fits(two, Len(two), a)
  <2>1. a.kind # "resume" /\ a.kind # "chunk"
    BY <1>4 DEF Catching
  <2> QED BY <1>2, <2>1, FramesPop
<1>5. CASE a.kind \in Catching /\ activations' = two /\ LeaveCatch(a) /\ UNCHANGED raised
  <2>1. a.kind \in Caught /\ (a.kind \in Boundary <=> a.kind # "load")
    BY <1>5 DEF Boundary, Caught, Catching
  <2>2. two[Len(two)].kind \in LuaKinds
    BY <1>4, <1>5, <2>1 DEF Fits
  <2> QED BY <1>1, <1>4, <1>5, <2>1, <2>2 DEF LeaveCatch, FramesNow, RaisedFits, ErrorFits
<1>6. CASE a.kind = "handler" /\ activations' = two /\ raised' = a.err /\ StayCaught
  <2>1. a.kind \notin Caught /\ a.kind \notin Boundary
    BY <1>6 DEF Boundary, Caught, Catching
  <2>2. a.err.live /\ ~ a.err.point /\ ~ a.err.coSnap /\ ~ Doomed(two, Len(two))
    BY <1>4, <1>6 DEF Fits
  <2> QED BY <1>1, <1>4, <1>6, <2>1, <2>2 DEF StayCaught, FramesNow, RaisedFits, ErrorFits
<1>7. CASE /\ a.kind \notin Catching \cup {"handler"}
           /\ activations' = one /\ StayCaught /\ UNCHANGED raised
  <2>1. a.kind \in LuaKinds
    BY <1>2, <1>7 DEF ActivationType, Kinds, Catching, LuaKinds
  <2> QED BY <1>1, <1>2, <1>7, <2>1 DEF StayCaught, FramesNow, RaisedFits, ErrorFits
<1> QED BY <1>3, <1>5, <1>6, <1>7

\* A call unwinds, to the raise point of the Lua code around it or to who catches.
LEMMA UnwindFrames == ASSUME IInv, FramesNow, RaisedFits, UnwindCall PROVE FramesNow' /\ RaisedFits'
<1> DEFINE a == activations[Len(activations) - 1]
           one == Below(1)
           again == a.kind \notin Catching \cup {"handler"}
<1>1. /\ activations # <<>> /\ raised.live /\ ~ raised.point /\ Top.kind = "call"
      /\ UNCHANGED <<runningThread, threadChain, cos, protectDepth, catchDepth, coDeathDepth, errFunc>>
      /\ activations' = one
  BY DEF UnwindCall, Unwinds, StayCaught, registry, IInv
<1>2. raised' = [raised EXCEPT !.point = again]
  BY DEF UnwindCall, KindBelow
<1>3. /\ Frames(one, protectDepth, catchDepth, errFunc, coDeathDepth, runningThread, threadChain, cos)
      /\ one # <<>> /\ one[Len(one)] = a /\ a \in ActivationType
      /\ Doomed(activations, Len(activations)) <=> Doomed(one, Len(one))
  BY <1>1, PopCall
<1>4. again => a.kind \in LuaKinds
  BY <1>3 DEF ActivationType, Kinds, Catching, LuaKinds
<1>5. again \in BOOLEAN
  OBVIOUS
<1> HIDE DEF again, a, one
<1>6. raised'.live /\ raised'.point = again /\ raised'.coSnap = raised.coSnap
  BY <1>1, <1>2, <1>5, FramesFacts DEF ErrorType
<1>7. /\ raised.coSnap => Doomed(activations, Len(activations))
      /\ Doomed(activations, Len(activations)) => raised.coSnap
  BY <1>1 DEF RaisedFits, ErrorFits
<1> QED BY <1>1, <1>3, <1>4, <1>6, <1>7 DEF FramesNow, RaisedFits, ErrorFits

\* An error is raised where Lua code runs.
LEMMA RaiseFrames ==
    ASSUME IInv, FramesNow, RaisedFits, Raise \/ YieldRefused
    PROVE  FramesNow' /\ RaisedFits'
<1>1. /\ activations # <<>> /\ ~ raised.live /\ raised' = LuaError
      /\ UNCHANGED <<activations, runningThread, threadChain, cos,
                     protectDepth, catchDepth, coDeathDepth, errFunc>>
  BY DEF Raise, YieldRefused, Runs, registry, depths
<1> QED BY <1>1, ErrorMarks DEF FramesNow, RaisedFits, ErrorFits

\* A chunk starts on an empty stack, and leaves one.
LEMMA ChunkFrames ==
    ASSUME IInv, FramesNow, RaisedFits, callOnStack \/ EndChunk
    PROVE  FramesNow' /\ RaisedFits'
<1>1. CASE callOnStack
  <2> DEFINE a == Activation("chunk")
  <2>1. /\ activations = <<>> /\ activations' = <<a>> /\ runningThread' = Main /\ ~ raised.live
        /\ UNCHANGED <<raised, threadChain, cos, protectDepth, catchDepth, coDeathDepth, errFunc>>
    BY <1>1 DEF callOnStack, registry, IInv
  <2>2. a \in ActivationType /\ a.kind = "chunk"
    <3>1. "chunk" \in Kinds
      BY DEF Kinds
    <3> QED BY <3>1, ActivationKeeps
  <2> HIDE DEF a
  <2>3. /\ a.kind \notin Boundary /\ a.kind \notin Caught /\ a.kind # "resume" /\ a.kind \in LuaKinds
    BY <2>2 DEF Boundary, Caught, Catching, LuaKinds
  <2>4. Fits(activations, Len(activations), a)
    BY <2>1, <2>2, <2>3 DEF Fits
  <2>5. /\ Frames(Append(activations, a), protectDepth, catchDepth, errFunc, coDeathDepth,
                  Main, threadChain, cos)
        /\ Append(activations, a)[Len(Append(activations, a))] = a
    BY <2>1, <2>2, <2>3, <2>4, FramesPush DEF FramesNow
  <2>6. Append(activations, a) = activations'
    BY <2>1
  <2> QED BY <2>1, <2>3, <2>5, <2>6 DEF FramesNow, RaisedFits, ErrorFits
<1>2. CASE EndChunk
  <2>1. /\ activations # <<>> /\ Top.kind = "chunk" /\ activations' = Below(1)
        /\ runningThread' = NoThread /\ raised' = NoError
        /\ UNCHANGED <<threadChain, cos, protectDepth, catchDepth, coDeathDepth, errFunc>>
    BY <1>2 DEF EndChunk, LeaveChunk, Runs, Unwinds, registry, IInv
  <2>2. Top = activations[Len(activations)] /\ Below(1) = SubSeq(activations, 1, Len(activations) - 1)
    BY DEF Top, Below
  <2>3. Top.kind \notin Boundary /\ Top.kind \notin Caught /\ Top.kind # "resume"
    BY <2>1 DEF Boundary, Caught, Catching
  <2>4. /\ Frames(Below(1), protectDepth, catchDepth, errFunc, coDeathDepth,
                  IF Below(1) = <<>> THEN NoThread ELSE runningThread, threadChain, cos)
        /\ Below(1) = <<>>
    BY <2>1, <2>2, <2>3, FramesPop DEF FramesNow
  <2> QED BY <2>1, <2>4, ErrorMarks DEF FramesNow, RaisedFits, ErrorFits
<1> QED BY <1>1, <1>2

\* A handler is pushed where something inside the coroutine catches.
LEMMA HandlerFrames ==
    ASSUME IInv, FramesNow, activations # <<>>,
           NEW e \in ErrorType, e.live, ~ e.point, ~ e.coSnap,
           ~ Doomed(activations, Len(activations)), runErrFunc(e)
    PROVE  /\ Frames(activations', protectDepth, catchDepth, errFunc, coDeathDepth,
                     runningThread, threadChain, cos)
           /\ RaisedFits' /\ ~ (raised'.live /\ raised'.coSnap)
<1> DEFINE h == [Activation("handler") EXCEPT !.err = [e EXCEPT !.handled = TRUE]]
           c == IF e.cOverflow THEN nCcalls + 1 ELSE nCcalls
           run == Append(activations, h)
           a == [Activation("call") EXCEPT !.outerC = c]
<1>1. \/ activations' = Append(run, a) /\ raised' = NoError
      \/ activations' = run /\ raised' = [cCallError(c + 1) EXCEPT !.point = FALSE]
  BY DEF runErrFunc
<1>2. nCcalls \in Nat /\ c \in Nat
  BY DepthTyped
<1>3. /\ h \in ActivationType /\ h.kind = "handler"
      /\ h.err.live /\ ~ h.err.point /\ ~ h.err.coSnap
      /\ a \in ActivationType /\ a.kind = "call"
  <2>1. "handler" \in Kinds /\ "call" \in Kinds
    BY DEF Kinds
  <2>2. /\ Activation("handler") \in ActivationType /\ Activation("handler").kind = "handler"
        /\ Activation("call") \in ActivationType /\ Activation("call").kind = "call"
    BY <2>1, ActivationKeeps
  <2> DEFINE x == [e EXCEPT !.handled = TRUE]
  <2>3. x \in ErrorType /\ x.live = e.live /\ x.point = e.point /\ x.coSnap = e.coSnap
    BY ErrorMarks
  <2> HIDE DEF x, c
  <2>4. [Activation("handler") EXCEPT !.err = x] \in ActivationType
        /\ [Activation("handler") EXCEPT !.err = x].kind = "handler"
        /\ [Activation("handler") EXCEPT !.err = x].err = x
    BY <2>2, <2>3 DEF ActivationType
  <2>5. [Activation("call") EXCEPT !.outerC = c] \in ActivationType
        /\ [Activation("call") EXCEPT !.outerC = c].kind = "call"
    BY <1>2, <2>2 DEF ActivationType
  <2> QED BY <2>3, <2>4, <2>5 DEF x
<1> HIDE DEF h, c, a
<1>4. /\ h.kind \notin Boundary /\ h.kind \notin Caught /\ h.kind # "resume"
      /\ a.kind \notin Boundary /\ a.kind \notin Caught /\ a.kind # "resume" /\ a.kind \in LuaKinds
  BY <1>3 DEF Boundary, Caught, Catching, LuaKinds
<1>5. Fits(activations, Len(activations), h)
  <2>1. Len(activations) # 0
    BY FramesFacts
  <2> QED BY <1>3, <1>4, <2>1 DEF Fits
<1>6. /\ Frames(run, protectDepth, catchDepth, errFunc, coDeathDepth, runningThread, threadChain, cos)
      /\ run # <<>> /\ ~ Doomed(run, Len(run))
  BY <1>3, <1>4, <1>5, FramesPush DEF FramesNow
<1> HIDE DEF run
<1>7. CASE activations' = Append(run, a) /\ raised' = NoError
  <2>1. run \in Seq(ActivationType)
    BY <1>6 DEF Frames, Good, Recorded
  <2>2. Fits(run, Len(run), a)
    BY <1>3, <1>6, <2>1, CallFits
  <2>3. /\ Frames(Append(run, a), protectDepth, catchDepth, errFunc, coDeathDepth,
                  runningThread, threadChain, cos)
        /\ Append(run, a)[Len(Append(run, a))] = a
    BY <1>3, <1>4, <1>6, <2>2, FramesPush
  <2> QED BY <1>4, <1>7, <2>3, ErrorMarks DEF RaisedFits, ErrorFits
<1>8. CASE activations' = run /\ raised' = [cCallError(c + 1) EXCEPT !.point = FALSE]
  <2>1. raised'.live /\ ~ raised'.point /\ ~ raised'.coSnap
    BY <1>8, ErrorMarks
  <2> QED BY <1>6, <1>8, <2>1 DEF RaisedFits, ErrorFits
<1> QED BY <1>1, <1>7, <1>8

\* The handler is no function: the error goes on as it is.
LEMMA BadHandlerFrames ==
    ASSUME IInv, FramesNow, activations # <<>>,
           NEW e \in ErrorType, e.live, ~ e.point,
           e.coSnap <=> Doomed(activations, Len(activations)), badErrFunc(e)
    PROVE  UNCHANGED activations /\ RaisedFits'
<1>1. raised' = [e EXCEPT !.handled = TRUE] /\ UNCHANGED activations
  BY DEF badErrFunc
<1>2. raised'.live /\ ~ raised'.point /\ raised'.coSnap = e.coSnap
  BY <1>1, ErrorMarks
<1> QED BY <1>1, <1>2 DEF RaisedFits, ErrorFits

\* Who catches runs the handler, or goes on after the call.
LEMMA CatchFrames == ASSUME IInv, FramesNow, RaisedFits, Catch PROVE FramesNow' /\ RaisedFits'
<1>1. /\ activations # <<>> /\ raised.live /\ ~ raised.point /\ Top.kind \in Catching
      /\ raised \in ErrorType
      /\ UNCHANGED <<runningThread, threadChain, cos, coDeathDepth>>
  BY DEF Catch, Unwinds, registry, IInv, TypeInv
<1>2. Top = activations[Len(activations)] /\ Below(1) = SubSeq(activations, 1, Len(activations) - 1)
  BY DEF Top, Below
<1>3. Top.kind # "resume" /\ Top.kind # "chunk" /\ Top.kind \in Caught /\ (Top.kind \in Boundary <=> Top.kind # "load")
  BY <1>1 DEF Catching, Caught, Boundary
<1>4. /\ Frames(Below(1),
                IF Top.kind \in Boundary THEN protectDepth - 1 ELSE protectDepth,
                IF Top.kind \in Caught THEN catchDepth - 1 ELSE catchDepth,
                IF Top.kind \in Boundary THEN Top.outerErrFunc ELSE errFunc,
                coDeathDepth, IF Below(1) = <<>> THEN NoThread ELSE runningThread, threadChain, cos)
      /\ Fits(Below(1), Len(Below(1)), Top) /\ Below(1) # <<>>
      /\ ~ Doomed(activations, Len(activations))
  <2>1. activations[Len(activations)].kind # "resume"
    BY <1>2, <1>3
  <2>2. /\ Frames(Below(1),
                  IF Top.kind \in Boundary THEN protectDepth - 1 ELSE protectDepth,
                  IF Top.kind \in Caught THEN catchDepth - 1 ELSE catchDepth,
                  IF Top.kind \in Boundary THEN Top.outerErrFunc ELSE errFunc,
                  coDeathDepth, IF Below(1) = <<>> THEN NoThread ELSE runningThread, threadChain, cos)
    <3> DEFINE a == activations[Len(activations)]
               left == SubSeq(activations, 1, Len(activations) - 1)
    <3>1. Frames(left,
                 IF a.kind \in Boundary THEN protectDepth - 1 ELSE protectDepth,
                 IF a.kind \in Caught THEN catchDepth - 1 ELSE catchDepth,
                 IF a.kind \in Boundary THEN a.outerErrFunc ELSE errFunc,
                 coDeathDepth, IF left = <<>> THEN NoThread ELSE runningThread, threadChain, cos)
      BY <1>1, <2>1, FramesPop DEF FramesNow
    <3> HIDE DEF a, left
    <3>2. Top = a /\ Below(1) = left
      BY <1>2 DEF a, left
    <3> QED BY <3>1, <3>2
  <2>3. /\ Fits(Below(1), Len(Below(1)), Top)
        /\ Below(1) = <<>> <=> Top.kind = "chunk"
        /\ Doomed(activations, Len(activations)) <=>
             Top.kind \notin Caught /\ Doomed(Below(1), Len(Below(1)))
    BY <1>1, <1>2, <2>1, FramesPop, ZenonT(30) DEF FramesNow
  <2> QED BY <1>3, <2>2, <2>3
<1>5. CASE (runErrFunc(raised) \/ badErrFunc(raised)) /\ StayCaught
  <2>1. ~ raised.coSnap
    BY <1>1, <1>4 DEF RaisedFits, ErrorFits
  <2>2. CASE runErrFunc(raised)
    <3>1. /\ Frames(activations', protectDepth, catchDepth, errFunc, coDeathDepth,
                    runningThread, threadChain, cos)
          /\ RaisedFits'
      BY <1>1, <1>4, <2>1, <2>2, HandlerFrames
    <3> QED BY <1>1, <1>5, <3>1 DEF StayCaught, FramesNow
  <2>3. CASE badErrFunc(raised)
    <3>1. UNCHANGED activations /\ RaisedFits'
      BY <1>1, <1>4, <2>1, <2>3, BadHandlerFrames
    <3> QED BY <1>1, <1>5, <3>1 DEF StayCaught, FramesNow
  <2> QED BY <1>5, <2>2, <2>3
<1>6. CASE activations' = Below(1) /\ raised' = NoError /\ LeaveCatch(Top)
  <2>1. Below(1)[Len(Below(1))].kind \in LuaKinds
    BY <1>3, <1>4 DEF Fits
  <2> QED BY <1>1, <1>3, <1>4, <1>6, <2>1, ErrorMarks DEF LeaveCatch, FramesNow, RaisedFits, ErrorFits
<1> QED BY <1>5, <1>6 DEF Catch

\* A failing handler gives way to another, or to the error it was called for.
LEMMA HandlerFailsFrames == ASSUME IInv, FramesNow, RaisedFits, HandlerFails PROVE FramesNow' /\ RaisedFits'
<1>1. /\ activations # <<>> /\ raised.live /\ ~ raised.point /\ Top.kind = "handler"
      /\ raised \in ErrorType
      /\ UNCHANGED <<runningThread, threadChain, cos, protectDepth, catchDepth, coDeathDepth, errFunc>>
  BY DEF HandlerFails, Unwinds, StayCaught, registry, IInv, TypeInv
<1>2. Top = activations[Len(activations)] /\ Below(1) = SubSeq(activations, 1, Len(activations) - 1)
  BY DEF Top, Below
<1>3. Top.kind # "resume" /\ Top.kind # "chunk" /\ Top.kind \notin Caught /\ Top.kind \notin Boundary
  BY <1>1 DEF Catching, Caught, Boundary
<1>4. /\ Frames(Below(1), protectDepth, catchDepth, errFunc, coDeathDepth,
                IF Below(1) = <<>> THEN NoThread ELSE runningThread, threadChain, cos)
      /\ Fits(Below(1), Len(Below(1)), Top) /\ Below(1) # <<>>
      /\ Doomed(activations, Len(activations)) <=> Doomed(Below(1), Len(Below(1)))
  BY <1>1, <1>2, <1>3, FramesPop, ZenonT(30) DEF FramesNow
<1>5. /\ ~ Doomed(Below(1), Len(Below(1)))
      /\ Top.err.live /\ ~ Top.err.point /\ ~ Top.err.coSnap
  BY <1>1, <1>4 DEF Fits
<1>6. CASE runErrFunc(raised)
  <2>1. ~ raised.coSnap
    BY <1>1, <1>4, <1>5 DEF RaisedFits, ErrorFits
  <2>2. /\ Frames(activations', protectDepth, catchDepth, errFunc, coDeathDepth,
                  runningThread, threadChain, cos)
        /\ RaisedFits'
    BY <1>1, <1>4, <1>5, <1>6, <2>1, HandlerFrames
  <2> QED BY <1>1, <2>2 DEF FramesNow
<1>7. CASE activations' = Below(1) /\ raised' = Top.err
  BY <1>1, <1>4, <1>5, <1>7 DEF FramesNow, RaisedFits, ErrorFits
<1> QED BY <1>6, <1>7 DEF HandlerFails

----------------------------------------------------------------------------
(* The registry *)

RegistryNow ==
    /\ OneEach(threadChain, runningThread, Len(cos))
    /\ Statuses(cos, threadChain, runningThread)
    /\ Registered(cos, freeIds)

ControlInv == IInv /\ FramesNow /\ RaisedFits /\ RegistryNow /\ DyingFits

\* Who runs: the coroutine that owns the running thread, if one does.
LEMMA RunningIs ==
    ASSUME ControlInv
    PROVE  /\ findRunningCo = IF runningThread > Main THEN runningThread ELSE NoCo
           /\ runningThread > Main <=> runningThread \in Ids
           /\ runningThread \in Ids => cos[runningThread].status = "running"
           /\ Doomed(activations, Len(activations)) => runningThread \in Ids
           /\ activations # <<>> => runningThread \in {Main} \cup Ids
           /\ Len(cos) \in Nat /\ Len(cos) <= MaxCos /\ runningThread \in Int
<1>1. /\ cos \in Seq(CoType) /\ Len(cos) \in Nat /\ Len(cos) <= MaxCos
      /\ \A id \in Ids : cos[id].status = "running" <=> id = runningThread
  BY DEF ControlInv, RegistryNow, Statuses, Ids
<1>2. runningThread \in Int /\ runningThread \in {NoThread, Main} \cup Ids
  BY DEF ControlInv, RegistryNow, OneEach, Ids
<1>3. runningThread > Main <=> runningThread \in Ids
  BY <1>1, <1>2 DEF Ids, Main, NoThread
<1>4. runningThread \in Ids => cos[runningThread].status = "running"
  BY <1>1
<1>5. findRunningCo = IF runningThread > Main THEN runningThread ELSE NoCo
  BY <1>3, <1>4 DEF findRunningCo
<1> DEFINE n == Len(activations)
           r == Inner(activations, n, {"resume"})
<1>6. n \in Nat /\ runningThread = ThreadAt(activations, n)
  BY FramesFacts DEF ControlInv
<1>7. r \in 0 .. n /\ (r # 0 => r \in 1 .. n /\ activations[r].kind = "resume")
  <2>1. Latest(activations, n, {"resume"}, r)
    BY <1>6, InnerIs
  <2> QED BY <1>6, <2>1 DEF Latest
<1>8. r # 0 => runningThread \in Ids
  BY <1>6, <1>7 DEF ThreadAt, ControlInv, FramesNow, Frames, Owned, Ids
<1>9. Doomed(activations, n) => r # 0
  <2>1. Inner(activations, n, Catching) \in 0 .. n
    BY <1>6, InnerStep
  <2> QED BY <1>7, <2>1 DEF Doomed
<1>10. activations # <<>> => runningThread \in {Main} \cup Ids
  <2>1. activations # <<>> => n # 0
    BY <1>6, FramesFacts DEF ControlInv
  <2> QED BY <1>6, <1>8, <2>1 DEF ThreadAt
<1> QED BY <1>1, <1>2, <1>3, <1>4, <1>5, <1>8, <1>9, <1>10

\* Coroutines that look the same but for the lines they died at.
LooksSame(reg, reg2) ==
    /\ reg2 \in Seq(CoType) /\ Len(reg2) = Len(reg)
    /\ \A id \in 1 .. Len(reg) :
          /\ reg2[id].status = reg[id].status /\ reg2[id].ref = reg[id].ref
          /\ reg2[id].started = reg[id].started /\ reg2[id].baseCcalls = reg[id].baseCcalls
          /\ reg2[id].pendingResume = reg[id].pendingResume

\* What the registry says does not depend on those lines.
LEMMA LooksSameFits ==
    ASSUME NEW acts, NEW chain, NEW th, NEW free, NEW reg, NEW reg2, LooksSame(reg, reg2)
    PROVE  /\ Statuses(reg, chain, th) => Statuses(reg2, chain, th)
           /\ Registered(reg, free) => Registered(reg2, free)
           /\ Owned(acts, reg) => Owned(acts, reg2)
<1>1. Statuses(reg, chain, th) => Statuses(reg2, chain, th)
  BY DEF LooksSame, Statuses
<1>2. Registered(reg, free) => Registered(reg2, free)
  BY DEF LooksSame, Registered
<1>3. Owned(acts, reg) => Owned(acts, reg2)
  BY DEF LooksSame, Owned
<1> QED BY <1>1, <1>2, <1>3

\* Changing one coroutine to one of the type keeps the others.
LEMMA OneChanged ==
    ASSUME NEW reg, reg \in Seq(CoType), NEW id \in 1 .. Len(reg), NEW c \in CoType
    PROVE  LET new == [reg EXCEPT ![id] = c]
           IN  /\ new \in Seq(CoType) /\ Len(new) = Len(reg) /\ new[id] = c
               /\ \A jd \in 1 .. Len(reg) : jd # id => new[jd] = reg[jd]
  OBVIOUS

\* An error dies or is handled at its raise point, and the lines are kept for
\* an error the running coroutine dies of.
LEMMA AtRaisePointControl ==
    ASSUME ControlInv, atRaisePoint
    PROVE  FramesNow' /\ RaisedFits' /\ RegistryNow' /\ DyingFits'
<1> DEFINE e == [raised EXCEPT !.point = FALSE, !.coSnap = @ \/ Kills]
           n == Len(activations)
           co == runningThread
<1>1. /\ activations # <<>> /\ raised.live /\ raised.point /\ raised \in ErrorType /\ n \in Nat
      /\ UNCHANGED <<runningThread, threadChain, freeIds, protectDepth, catchDepth, coDeathDepth, errFunc>>
  BY FramesFacts DEF atRaisePoint, ControlInv, IInv, TypeInv, StayCaught
<1>2. /\ protectDepth = CountAt(activations, n, Boundary) /\ catchDepth = CountAt(activations, n, Caught)
      /\ errFunc = HandlerAt(activations, n) /\ coDeathDepth = DeathAt(activations, n)
  BY FramesFacts DEF ControlInv, InForce
<1>3. Kills <=> ~ raised.coSnap /\ Doomed(activations, n)
  BY <1>1, <1>2, DoomedIs DEF Kills
<1>4. raised.coSnap => Doomed(activations, n)
  BY <1>1 DEF ControlInv, RaisedFits, ErrorFits
<1>5. /\ e \in ErrorType /\ e.live /\ ~ e.point
      /\ e.coSnap <=> Doomed(activations, n)
  <2> DEFINE snap == raised.coSnap \/ Kills
  <2>1. snap \in BOOLEAN /\ (snap <=> Doomed(activations, n))
    BY <1>1, <1>3, <1>4 DEF ErrorType
  <2> HIDE DEF snap
  <2>2. LET x == [raised EXCEPT !.point = FALSE, !.coSnap = snap]
        IN  x \in ErrorType /\ x.live = raised.live /\ ~ x.point /\ x.coSnap = snap
    BY <1>1, <2>1 DEF ErrorType
  <2> QED BY <1>1, <2>1, <2>2 DEF snap
<1>6. \/ errFunc # 0 /\ (runErrFunc(e) \/ badErrFunc(e))
      \/ raised' = e /\ UNCHANGED activations
  BY DEF atRaisePoint
<1>7. IF Kills /\ findRunningCo # NoCo
      THEN cos' = [cos EXCEPT ![findRunningCo].deathLines = TRUE] ELSE cos' = cos
  BY DEF atRaisePoint
<1> HIDE DEF e
<1>8. /\ Frames(activations', protectDepth, catchDepth, errFunc, coDeathDepth,
                runningThread, threadChain, cos)
      /\ RaisedFits'
      /\ raised'.live /\ raised'.coSnap => Doomed(activations, n)
  <2>1. CASE errFunc # 0 /\ runErrFunc(e)
    <3>1. ~ Doomed(activations, n)
      BY <1>1, <1>2, <2>1, DoomedIs
    <3> QED BY <1>1, <1>5, <2>1, <3>1, HandlerFrames DEF ControlInv
  <2>2. CASE errFunc # 0 /\ badErrFunc(e)
    <3>1. ~ Doomed(activations, n)
      BY <1>1, <1>2, <2>2, DoomedIs
    <3>2. UNCHANGED activations /\ RaisedFits'
      BY <1>1, <1>5, <2>2, BadHandlerFrames DEF ControlInv
    <3>3. raised'.coSnap = e.coSnap
      BY <1>5, <2>2, ErrorMarks DEF badErrFunc
    <3> QED BY <1>5, <3>1, <3>2, <3>3 DEF ControlInv, FramesNow
  <2>3. CASE raised' = e /\ UNCHANGED activations
    BY <1>1, <1>5, <2>3 DEF ControlInv, FramesNow, RaisedFits, ErrorFits
  <2> QED BY <1>6, <2>1, <2>2, <2>3
<1>9. /\ LooksSame(cos, cos')
      /\ Doomed(activations, n) => co \in 1 .. Len(cos') /\ cos'[co].deathLines
  <2>1. cos \in Seq(CoType) /\ Len(cos) \in Nat
    BY DEF ControlInv, RegistryNow, Statuses
  <2>2. CASE Kills
    <3>1. co \in Ids /\ findRunningCo = co /\ co # NoCo
      BY <1>3, <2>2, RunningIs DEF Ids, NoCo
    <3>2. cos' = [cos EXCEPT ![co].deathLines = TRUE]
      BY <1>7, <2>2, <3>1
    <3> DEFINE c == [cos[co] EXCEPT !.deathLines = TRUE]
    <3>3. cos[co] \in CoType /\ co \in 1 .. Len(cos)
      BY <2>1, <3>1 DEF Ids
    <3>4. /\ c \in CoType /\ c.deathLines
          /\ c.status = cos[co].status /\ c.ref = cos[co].ref
          /\ c.started = cos[co].started /\ c.baseCcalls = cos[co].baseCcalls
          /\ c.pendingResume = cos[co].pendingResume
      BY <3>3 DEF CoType
    <3>5. cos' = [cos EXCEPT ![co] = c]
      BY <3>2
    <3> HIDE DEF c
    <3>6. /\ cos' \in Seq(CoType) /\ Len(cos') = Len(cos) /\ cos'[co] = c
          /\ \A jd \in 1 .. Len(cos) : jd # co => cos'[jd] = cos[jd]
      BY <2>1, <3>3, <3>4, <3>5, OneChanged
    <3> QED BY <2>1, <3>3, <3>4, <3>6 DEF LooksSame
  <2>3. CASE ~ Kills
    <3>1. cos' = cos
      BY <1>7, <2>3
    <3>2. Doomed(activations, n) => co \in Ids /\ cos[co].deathLines
      BY <1>1, <1>3, <2>3 DEF ControlInv, DyingFits
    <3> QED BY <2>1, <3>1, <3>2 DEF LooksSame, Ids
  <2> QED BY <2>2, <2>3
<1>10. FramesNow'
  <2>1. Owned(activations', cos')
    BY <1>8, <1>9, LooksSameFits DEF Frames
  <2> QED BY <1>1, <1>8, <2>1 DEF FramesNow, Frames
<1>11. RegistryNow'
  <2>1. Len(cos') = Len(cos)
    BY <1>9 DEF LooksSame
  <2> QED BY <1>1, <1>9, <2>1, LooksSameFits DEF ControlInv, RegistryNow
<1>12. DyingFits'
  BY <1>1, <1>8, <1>9 DEF DyingFits, Ids
<1> QED BY <1>8, <1>10, <1>11, <1>12

\* Two coroutines change, the others stay.
LEMMA TwoChanged ==
    ASSUME NEW reg, reg \in Seq(CoType), NEW id \in 1 .. Len(reg), NEW c \in CoType,
           NEW jd \in 1 .. Len(reg), jd # id, NEW c2 \in CoType
    PROVE  LET new == [[reg EXCEPT ![id] = c] EXCEPT ![jd] = c2]
           IN  /\ new \in Seq(CoType) /\ Len(new) = Len(reg) /\ new[id] = c /\ new[jd] = c2
               /\ \A kd \in 1 .. Len(reg) : kd # id /\ kd # jd => new[kd] = reg[kd]
<1> DEFINE one == [reg EXCEPT ![id] = c]
<1>1. /\ one \in Seq(CoType) /\ Len(one) = Len(reg) /\ one[id] = c
      /\ \A kd \in 1 .. Len(reg) : kd # id => one[kd] = reg[kd]
  BY OneChanged
<1> HIDE DEF one
<1>2. /\ [one EXCEPT ![jd] = c2] \in Seq(CoType) /\ Len([one EXCEPT ![jd] = c2]) = Len(one)
      /\ [one EXCEPT ![jd] = c2][jd] = c2
      /\ \A kd \in 1 .. Len(one) : kd # jd => [one EXCEPT ![jd] = c2][kd] = one[kd]
  BY <1>1, OneChanged
<1> QED BY <1>1, <1>2 DEF one

\* Ids stay free or not, and thread objects stay where they are.
LEMMA RegisteredSame ==
    ASSUME NEW reg, NEW reg2, NEW free, Registered(reg, free), Len(reg2) = Len(reg),
           \A id \in 1 .. Len(reg) : /\ reg2[id].ref = reg[id].ref
                                     /\ reg2[id].status = "none" <=> reg[id].status = "none"
    PROVE  Registered(reg2, free)
  BY DEF Registered

\* A coroutine is looked up by its thread object.
LEMMA CoOf ==
    ASSUME NEW ref, coOf(ref) # NoCo
    PROVE  coOf(ref) \in Ids /\ cos[coOf(ref)].ref = ref
<1> DEFINE S == {id \in Ids : cos[id].ref = ref}
<1>1. S # {} /\ coOf(ref) = CHOOSE id \in S : TRUE
  BY DEF coOf
<1>2. coOf(ref) \in S
  BY <1>1
<1> QED BY <1>2

\* No coroutine but the one that ran is suspended anew, and thread objects stay.
NoneSuspended ==
    /\ Len(cos') = Len(cos)
    /\ \A id \in 1 .. Len(cos) :
          /\ cos'[id].ref = cos[id].ref
          /\ cos'[id].status = "suspended" => cos[id].status = "suspended" \/ id = runningThread

\* One coroutine takes a status; the others are as suspended or dead as before.
Becomes(id, status) ==
    /\ id \in 1 .. Len(cos) /\ Len(cos') = Len(cos)
    /\ cos'[id].status = status
    /\ \A jd \in 1 .. Len(cos) : jd # id =>
          \A s \in {"suspended", "dead"} : cos'[jd].status = s <=> cos[jd].status = s

\* What a resume makes of the two coroutines, and the activation it pushes.
LEMMA ResumeControl ==
    ASSUME ControlInv, NEW ref \in Refs, Resume(ref)
    PROVE  /\ FramesNow' /\ RaisedFits' /\ RegistryNow' /\ DyingFits' /\ NoneSuspended
           /\ Becomes(coOf(ref), "running")
<1> DEFINE id == coOf(ref)
           th == runningThread
           co == findRunningCo
           n == Len(activations)
           a == [Activation("resume") EXCEPT !.co = id, !.resumer = co, !.resumerTh = th]
           x == [cos[id] EXCEPT !.status = "running", !.started = TRUE,
                                !.baseCcalls = nCcalls + 1, !.pendingResume = FALSE]
           y == [cos[co] EXCEPT !.status = "normal"]
<1>1. /\ activations # <<>> /\ ~ raised.live /\ cos[id].status = "suspended"
      /\ activations' = Append(activations, a) /\ threadChain' = Append(threadChain, th)
      /\ runningThread' = id /\ freeIds' = freeIds
      /\ protectDepth' = protectDepth + 1 /\ catchDepth' = catchDepth + 1
      /\ coDeathDepth' = catchDepth + 1 /\ errFunc' = 0 /\ raised' \in {LuaError, NoError}
  BY DEF Resume, Runs
<1>2. cos' = IF co = NoCo THEN [cos EXCEPT ![id] = x] ELSE [[cos EXCEPT ![id] = x] EXCEPT ![co].status = "normal"]
  <2>1. [cos EXCEPT ![id] = [@ EXCEPT !.status = "running", !.started = TRUE,
                                      !.baseCcalls = nCcalls + 1, !.pendingResume = FALSE]]
          = [cos EXCEPT ![id] = x]
    OBVIOUS
  <2> QED BY <2>1 DEF Resume
<1>3. /\ id \in Ids /\ Ids = 1 .. Len(cos) /\ cos \in Seq(CoType) /\ Len(cos) \in Nat
      /\ cos[id] \in CoType /\ nCcalls \in Nat /\ n \in Nat \ {0}
  <2>1. id # NoCo
    BY DEF Resume
  <2>2. nCcalls \in Nat /\ n \in Nat
    BY DepthTyped, FramesFacts DEF ControlInv
  <2>3. n # 0
    BY <1>1, FramesFacts DEF ControlInv
  <2> QED BY <2>1, <2>2, <2>3, CoOf DEF Ids, ControlInv, RegistryNow, Statuses
<1>4. /\ th \in Int /\ th \in {Main} \cup Ids /\ (th > Main <=> th \in Ids)
      /\ co = IF th \in Ids THEN th ELSE NoCo
      /\ th \in Ids => cos[th].status = "running"
  BY <1>1, RunningIs DEF ControlInv
<1>5. co # NoCo => co \in Ids /\ co # id /\ cos[co] \in CoType /\ cos[co].status = "running"
  BY <1>1, <1>3, <1>4
<1> HIDE DEF id, th, co, n
<1>6. /\ x \in CoType /\ x.status = "running" /\ x.started /\ x.baseCcalls = nCcalls + 1
      /\ x.ref = cos[id].ref
  <2> DEFINE old == cos[id]
             c == nCcalls + 1
  <2>1. old \in CoType /\ c \in Nat
    BY <1>3
  <2> HIDE DEF old, c
  <2>2. LET new == [old EXCEPT !.status = "running", !.started = TRUE,
                               !.baseCcalls = c, !.pendingResume = FALSE]
        IN  /\ new \in CoType /\ new.status = "running" /\ new.started /\ new.baseCcalls = c
            /\ new.ref = old.ref
    BY <2>1 DEF CoType
  <2> QED BY <2>2 DEF old, c
<1>7. co # NoCo => /\ y \in CoType /\ y.status = "normal" /\ y.started = cos[co].started
                   /\ y.baseCcalls = cos[co].baseCcalls /\ y.ref = cos[co].ref
                   /\ y.pendingResume = cos[co].pendingResume
  BY <1>5 DEF CoType
<1> HIDE DEF x
<1>8. /\ cos' \in Seq(CoType) /\ Len(cos') = Len(cos) /\ cos'[id] = x
      /\ co # NoCo => cos'[co] = y
      /\ \A jd \in 1 .. Len(cos) : jd # id /\ jd # co => cos'[jd] = cos[jd]
  <2>1. CASE co = NoCo
    <3>1. /\ [cos EXCEPT ![id] = x] \in Seq(CoType) /\ Len([cos EXCEPT ![id] = x]) = Len(cos)
          /\ [cos EXCEPT ![id] = x][id] = x
          /\ \A jd \in 1 .. Len(cos) : jd # id => [cos EXCEPT ![id] = x][jd] = cos[jd]
      BY <1>3, <1>6, OneChanged
    <3> QED BY <1>2, <2>1, <3>1
  <2>2. CASE co # NoCo
    <3> HIDE DEF co
    <3>1. [cos EXCEPT ![id] = x][co] = cos[co]
      BY <1>3, <1>5, <2>2
    <3>2. [[cos EXCEPT ![id] = x] EXCEPT ![co].status = "normal"]
            = [[cos EXCEPT ![id] = x] EXCEPT ![co] = y]
      BY <3>1
    <3> HIDE DEF y
    <3>3. LET new == [[cos EXCEPT ![id] = x] EXCEPT ![co] = y]
          IN  /\ new \in Seq(CoType) /\ Len(new) = Len(cos) /\ new[id] = x /\ new[co] = y
              /\ \A kd \in 1 .. Len(cos) : kd # id /\ kd # co => new[kd] = cos[kd]
      BY <1>3, <1>5, <1>6, <1>7, <2>2, TwoChanged
    <3> QED BY <1>2, <2>2, <3>2, <3>3
  <2> QED BY <2>1, <2>2
<1>9. /\ a \in ActivationType /\ a.kind = "resume" /\ a.co = id /\ a.resumer = co /\ a.resumerTh = th
      /\ a.outerC = nCcalls /\ a.outerErrFunc = errFunc /\ a.outerDeathDepth = coDeathDepth
  <2>1. "resume" \in Kinds
    BY DEF Kinds
  <2>2. /\ Activation("resume") \in ActivationType /\ Activation("resume").kind = "resume"
        /\ Activation("resume").outerErrFunc = errFunc
        /\ Activation("resume").outerDeathDepth = coDeathDepth
    BY <2>1, ActivationKeeps DEF ControlInv
  <2>3. Activation("resume").outerC = nCcalls
    BY DEF Activation
  <2>4. id \in Int /\ co \in Int
    BY <1>3, <1>4 DEF NoCo, Ids
  <2> HIDE DEF co
  <2> QED BY <1>4, <2>2, <2>3, <2>4 DEF ActivationType
<1> HIDE DEF a, co, y
<1>10. Fits(activations, n, a)
  <2>1. activations[n].kind \in LuaKinds
    BY <1>1 DEF ControlInv, RaisedFits, ErrorFits, n
  <2>2. /\ errFunc = HandlerAt(activations, n) /\ coDeathDepth = DeathAt(activations, n)
        /\ th = ThreadAt(activations, n)
    BY FramesFacts DEF ControlInv, InForce, n, th
  <2> QED BY <1>3, <1>4, <1>9, <2>1, <2>2 DEF Fits
<1>11. KeepsUse(cos, cos', id) /\ ~ InUseIn(cos, id) /\ InUseIn(cos', id)
  <2>1. ASSUME NEW jd \in 1 .. Len(cos), jd # id, InUseIn(cos, jd)
        PROVE  InUseIn(cos', jd) /\ cos'[jd].baseCcalls = cos[jd].baseCcalls
    <3>1. CASE jd = co
      <4>1. co # NoCo
        BY <3>1 DEF NoCo
      <4> QED BY <1>7, <1>8, <3>1, <4>1 DEF InUseIn
    <3>2. CASE jd # co
      <4>1. cos'[jd] = cos[jd]
        BY <1>8, <2>1, <3>2
      <4> QED BY <2>1, <4>1 DEF InUseIn
    <3> QED BY <3>1, <3>2
  <2>2. ~ InUseIn(cos, id) /\ InUseIn(cos', id)
    BY <1>1, <1>6, <1>8 DEF InUseIn
  <2> QED BY <1>8, <2>1, <2>2 DEF KeepsUse
<1>12. /\ Frames(activations', protectDepth + 1, catchDepth + 1, 0, catchDepth + 1, id,
                 Append(threadChain, th), cos')
       /\ activations' # <<>> /\ activations'[Len(activations')] = a
  <2>1. /\ Frames(activations, protectDepth, catchDepth, errFunc, coDeathDepth, th, threadChain, cos)
        /\ a \in ActivationType /\ Fits(activations, Len(activations), a) /\ a.kind = "resume"
        /\ KeepsUse(cos, cos', a.co) /\ Len(cos) \in Nat
        /\ a.co \in 1 .. Len(cos) /\ ~ InUseIn(cos, a.co) /\ InUseIn(cos', a.co)
        /\ cos'[a.co].baseCcalls = a.outerC + 1
    BY <1>3, <1>6, <1>8, <1>9, <1>10, <1>11 DEF ControlInv, FramesNow, th, n
  <2>2. LET new == Append(activations, a)
        IN  /\ Frames(new, protectDepth + 1, catchDepth + 1, 0, catchDepth + 1, a.co,
                      Append(threadChain, th), cos')
            /\ new # <<>> /\ new[Len(new)] = a
    BY <2>1, FramesResume
  <2> QED BY <1>1, <1>9, <2>2
<1>13. FramesNow'
  BY <1>1, <1>12 DEF FramesNow
<1>14. RaisedFits' /\ DyingFits'
  BY <1>1, <1>9, <1>12, ErrorMarks DEF RaisedFits, ErrorFits, LuaKinds, DyingFits
<1>15. OneEach(threadChain', runningThread', Len(cos'))
  <2> DEFINE m == Len(threadChain)
  <2>1. /\ threadChain \in Seq(Int) /\ m \in Nat
        /\ IF threadChain = <<>> THEN th \in {NoThread, Main} ELSE threadChain[1] = Main /\ th \in Ids
        /\ \A k \in 2 .. m : threadChain[k] \in Ids
        /\ \A k, l \in 1 .. m : threadChain[k] = threadChain[l] => k = l
        /\ \A k \in 1 .. m : threadChain[k] # th
    BY DEF ControlInv, RegistryNow, OneEach, Ids, th
  <2>2. /\ threadChain' \in Seq(Int) /\ Len(threadChain') = m + 1 /\ threadChain'[m + 1] = th
        /\ \A k \in 1 .. m : threadChain'[k] = threadChain[k]
    BY <1>1, <1>4, <2>1
  <2>3. \A k \in 1 .. m : threadChain[k] # id
    BY <1>1, <1>3 DEF ControlInv, RegistryNow, Statuses
  <2>4. th # id
    BY <1>1, <1>3, <1>4
  <2> HIDE DEF m
  <2>5. threadChain' # <<>> /\ threadChain'[1] = Main
    <3>1. CASE m = 0
      <4>1. threadChain = <<>> /\ th \in {NoThread, Main}
        BY <2>1, <3>1 DEF m
      <4>2. th = Main
        BY <1>4, <4>1 DEF Main, NoThread, Ids
      <4> QED BY <2>2, <3>1, <4>2
    <3>2. CASE m # 0
      <4>1. threadChain[1] = Main /\ 1 \in 1 .. m
        BY <2>1, <3>2 DEF m
      <4> QED BY <2>1, <2>2, <4>1
    <3> QED BY <3>1, <3>2
  <2>6. \A k \in 2 .. Len(threadChain') : threadChain'[k] \in Ids
    <3> SUFFICES ASSUME NEW k \in 2 .. m + 1 PROVE threadChain'[k] \in Ids
      BY <2>2
    <3>1. CASE k = m + 1
      <4>1. threadChain # <<>>
        BY <2>1, <3>1 DEF m
      <4> QED BY <2>1, <2>2, <3>1, <4>1
    <3>2. CASE k # m + 1
      <4>1. k \in 1 .. m /\ k \in 2 .. m
        BY <2>1, <3>2
      <4> QED BY <2>1, <2>2, <4>1
    <3> QED BY <3>1, <3>2
  <2>7. \A k, l \in 1 .. m + 1 : threadChain'[k] = threadChain'[l] => k = l
    <3> SUFFICES ASSUME NEW k \in 1 .. m + 1, NEW l \in 1 .. m + 1, threadChain'[k] = threadChain'[l]
                 PROVE  k = l
      OBVIOUS
    <3>1. \A j \in 1 .. m + 1 : j # m + 1 => j \in 1 .. m
      BY <2>1
    <3> QED BY <2>1, <2>2, <3>1
  <2>8. \A k \in 1 .. m + 1 : threadChain'[k] # id
    <3>1. \A j \in 1 .. m + 1 : j # m + 1 => j \in 1 .. m
      BY <2>1
    <3> QED BY <2>2, <2>3, <2>4, <3>1
  <2>9. runningThread' = id /\ id \in Int /\ Len(cos') = Len(cos) /\ id \in 1 .. Len(cos)
    BY <1>1, <1>3, <1>8
  <2>10. Len(threadChain') = m + 1
    BY <2>2
  <2> QED BY <1>3, <2>2, <2>5, <2>6, <2>7, <2>8, <2>9, <2>10 DEF OneEach
<1>16. Statuses(cos', threadChain', runningThread')
  <2> DEFINE m == Len(threadChain)
  <2>1. /\ m \in Nat /\ Len(threadChain') = m + 1 /\ threadChain'[m + 1] = th
        /\ \A k \in 1 .. m : threadChain'[k] = threadChain[k]
    BY <1>1, <1>4 DEF ControlInv, RegistryNow, OneEach
  <2>2. \A jd \in Ids : (\E k \in 1 .. m + 1 : threadChain'[k] = jd)
                          <=> jd = th \/ \E k \in 1 .. m : threadChain[k] = jd
    <3>1. \A j \in 1 .. m + 1 : j # m + 1 => j \in 1 .. m
      BY <2>1
    <3>2. \A j \in 1 .. m : j \in 1 .. m + 1
      BY <2>1
    <3>3. m + 1 \in 1 .. m + 1
      BY <2>1
    <3> QED BY <2>1, <3>1, <3>2, <3>3
  <2> HIDE DEF m
  <2>3. \A jd \in Ids :
          /\ cos[jd].status = "running" <=> jd = th
          /\ cos[jd].status = "normal" <=> \E k \in 1 .. m : threadChain[k] = jd
          /\ cos[jd].status = "suspended" => (cos[jd].started <=> cos[jd].pendingResume)
          /\ cos[jd].status \in {"running", "normal"} => cos[jd].started
    BY DEF ControlInv, RegistryNow, Statuses, Ids, m, th
  <2>4. ASSUME NEW jd \in 1 .. Len(cos')
        PROVE  /\ cos'[jd].status = "running" <=> jd = id
               /\ cos'[jd].status = "normal" <=> \E k \in 1 .. Len(threadChain') : threadChain'[k] = jd
               /\ cos'[jd].status = "suspended" => (cos'[jd].started <=> cos'[jd].pendingResume)
               /\ cos'[jd].status \in {"running", "normal"} => cos'[jd].started
    <3>1. CASE jd = id
      <4>1. id \in Ids /\ id # th /\ ~ (cos[id].status = "normal")
        BY <1>1, <1>3, <1>4
      <4>2. ~ \E k \in 1 .. m + 1 : threadChain'[k] = id
        BY <2>2, <2>3, <4>1
      <4>3. cos'[id].status = "running" /\ cos'[id].started
        BY <1>6, <1>8
      <4> QED BY <2>1, <3>1, <4>2, <4>3
    <3>2. CASE jd = co
      BY <1>3, <1>4, <1>5, <1>7, <1>8, <2>1, <2>2, <2>3, <3>2 DEF NoCo
    <3>3. CASE jd # id /\ jd # co
      <4>1. jd \in Ids /\ cos'[jd] = cos[jd] /\ jd # th
        BY <1>3, <1>4, <1>8, <3>3
      <4> QED BY <2>1, <2>2, <2>3, <3>3, <4>1
    <3> QED BY <3>1, <3>2, <3>3
  <2>5. cos' \in Seq(CoType) /\ Len(cos') <= MaxCos
    BY <1>8 DEF ControlInv, RegistryNow, Statuses
  <2> QED BY <1>1, <2>4, <2>5 DEF Statuses
<1>17. Registered(cos', freeIds')
  <2>1. \A jd \in 1 .. Len(cos) : /\ cos'[jd].ref = cos[jd].ref
                                  /\ cos'[jd].status = "none" <=> cos[jd].status = "none"
    <3> SUFFICES ASSUME NEW jd \in 1 .. Len(cos)
                 PROVE  /\ cos'[jd].ref = cos[jd].ref
                        /\ cos'[jd].status = "none" <=> cos[jd].status = "none"
      OBVIOUS
    <3>1. CASE jd = id
      BY <1>1, <1>6, <1>8, <3>1
    <3>2. CASE jd = co
      <4>1. co # NoCo
        BY <3>2 DEF NoCo
      <4> QED BY <1>5, <1>7, <1>8, <3>2, <4>1
    <3>3. CASE jd # id /\ jd # co
      BY <1>8, <3>3
    <3> QED BY <3>1, <3>2, <3>3
  <2> QED BY <1>1, <1>8, <2>1, RegisteredSame DEF ControlInv, RegistryNow
<1>18. NoneSuspended
  <2>1. \A jd \in 1 .. Len(cos) : cos'[jd].ref = cos[jd].ref
    <3> SUFFICES ASSUME NEW jd \in 1 .. Len(cos) PROVE cos'[jd].ref = cos[jd].ref
      OBVIOUS
    <3>1. CASE jd = id
      BY <1>6, <1>8, <3>1
    <3>2. CASE jd = co
      <4>1. co # NoCo
        BY <3>2 DEF NoCo
      <4> QED BY <1>7, <1>8, <3>2, <4>1
    <3>3. CASE jd # id /\ jd # co
      BY <1>8, <3>3
    <3> QED BY <3>1, <3>2, <3>3
  <2>2. \A jd \in 1 .. Len(cos) : cos'[jd].status = "suspended" => cos[jd].status = "suspended"
    <3> SUFFICES ASSUME NEW jd \in 1 .. Len(cos)
                 PROVE  cos'[jd].status = "suspended" => cos[jd].status = "suspended"
      OBVIOUS
    <3>1. CASE jd = id
      BY <1>6, <1>8, <3>1
    <3>2. CASE jd = co
      <4>1. co # NoCo
        BY <3>2 DEF NoCo
      <4> QED BY <1>7, <1>8, <3>2, <4>1
    <3>3. CASE jd # id /\ jd # co
      BY <1>8, <3>3
    <3> QED BY <3>1, <3>2, <3>3
  <2> QED BY <1>8, <2>1, <2>2 DEF NoneSuspended
<1>19. Becomes(id, "running")
  <2>1. ASSUME NEW jd \in 1 .. Len(cos), jd # id, NEW s \in {"suspended", "dead"}
        PROVE  cos'[jd].status = s <=> cos[jd].status = s
    <3>1. CASE jd = co
      <4>1. co # NoCo
        BY <3>1 DEF NoCo
      <4>2. cos'[jd].status = "normal" /\ cos[jd].status = "running"
        BY <1>5, <1>7, <1>8, <3>1, <4>1
      <4> QED BY <2>1, <4>2
    <3>2. CASE jd # co
      BY <1>8, <2>1, <3>2
    <3> QED BY <3>1, <3>2
  <2> QED BY <1>3, <1>6, <1>8, <2>1 DEF Becomes
<1> QED BY <1>13, <1>14, <1>15, <1>16, <1>17, <1>18, <1>19 DEF RegistryNow, id

\* What leaving a resume, in whichever way, makes of the two coroutines.
LEMMA LeaveControl ==
    ASSUME ControlInv, Runs \/ Unwinds, NEW gone, LeaveResume(gone),
           gone \in CoType, gone.status \in {"suspended", "dead"}, gone.ref = cos[Top.co].ref,
           gone.status = "suspended" => (gone.started <=> gone.pendingResume),
           ~ raised'.live \/ raised' = LuaError
    PROVE  /\ FramesNow' /\ RaisedFits' /\ RegistryNow' /\ DyingFits' /\ NoneSuspended
           /\ Becomes(runningThread, gone.status)
           /\ threadChain # <<>> /\ Last(threadChain) = runningThread'
<1> DEFINE th == runningThread
           rt == Top.resumerTh
           co == Top.resumer
           m == Len(threadChain) - 1
           y == [cos[co] EXCEPT !.status = "running"]
<1>1. /\ activations # <<>> /\ Top.kind = "resume"
      /\ activations' = Below(1) /\ threadChain' = Front(threadChain)
      /\ runningThread' = rt /\ freeIds' = freeIds
      /\ protectDepth' = protectDepth - 1 /\ catchDepth' = catchDepth - 1
      /\ coDeathDepth' = Top.outerDeathDepth /\ errFunc' = Top.outerErrFunc
      /\ cos' = Awake([cos EXCEPT ![Top.co] = gone], co)
  BY DEF LeaveResume, Runs, Unwinds, ControlInv, IInv
<1>2. Top = activations[Len(activations)] /\ Below(1) = SubSeq(activations, 1, Len(activations) - 1)
  BY DEF Top, Below
<1>3. /\ Fits(Below(1), Len(Below(1)), Top) /\ Below(1) # <<>>
      /\ Below(1)[Len(Below(1))].kind \in LuaKinds
      /\ threadChain # <<>> /\ threadChain[Len(threadChain)] = rt /\ th = Top.co
      /\ rt = ThreadAt(Below(1), Len(Below(1)))
  <2>1. KeepsUse(cos, cos, Top.co)
    BY DEF KeepsUse
  <2>2. /\ Frames(activations, protectDepth, catchDepth, errFunc, coDeathDepth,
                  runningThread, threadChain, cos)
        /\ activations[Len(activations)].kind = "resume"
        /\ KeepsUse(cos, cos, activations[Len(activations)].co)
    BY <1>1, <1>2, <2>1 DEF ControlInv, FramesNow
  <2> DEFINE a == activations[Len(activations)]
             left == SubSeq(activations, 1, Len(activations) - 1)
  <2>3. /\ Frames(left, protectDepth - 1, catchDepth - 1, a.outerErrFunc, a.outerDeathDepth,
                  a.resumerTh, Front(threadChain), cos)
        /\ Fits(left, Len(left), a)
        /\ left # <<>> /\ left[Len(left)].kind \in LuaKinds
        /\ threadChain # <<>> /\ threadChain[Len(threadChain)] = a.resumerTh /\ runningThread = a.co
    BY <1>1, <2>2, FramesLeave
  <2> QED BY <1>1, <1>2, <2>3 DEF Frames, Good
<1>4. /\ Ids = 1 .. Len(cos) /\ cos \in Seq(CoType) /\ Len(cos) \in Nat /\ Len(cos) <= MaxCos
      /\ threadChain \in Seq(Int) /\ m \in Nat /\ Len(threadChain) = m + 1 /\ threadChain[m + 1] = rt
      /\ threadChain[1] = Main /\ th \in Ids
      /\ \A k \in 2 .. m + 1 : threadChain[k] \in Ids
      /\ \A k, l \in 1 .. m + 1 : threadChain[k] = threadChain[l] => k = l
      /\ \A k \in 1 .. m + 1 : threadChain[k] # th
  BY <1>3 DEF ControlInv, RegistryNow, OneEach, Statuses, Ids
<1>5. \A jd \in Ids :
        /\ cos[jd].status = "running" <=> jd = th
        /\ cos[jd].status = "normal" <=> \E k \in 1 .. m + 1 : threadChain[k] = jd
        /\ cos[jd].status = "suspended" => (cos[jd].started <=> cos[jd].pendingResume)
        /\ cos[jd].status \in {"running", "normal"} => cos[jd].started
  BY <1>4 DEF ControlInv, RegistryNow, Statuses
<1> HIDE DEF m, th
<1>6. /\ m + 1 \in 1 .. m + 1 /\ \A k \in 1 .. m : k \in 1 .. m + 1 /\ k # m + 1
      /\ \A k \in 1 .. m + 1 : k # m + 1 => k \in 1 .. m
  BY <1>4
<1>7. /\ rt \in Int /\ rt # th /\ rt # NoThread
      /\ m = 0 => rt = Main
      /\ m # 0 => rt \in Ids
      /\ co = IF rt \in Ids THEN rt ELSE NoCo
      /\ rt \in Ids => cos[rt].status = "normal"
  <2>1. rt # th /\ (m = 0 => rt = Main) /\ (m # 0 => rt \in Ids) /\ rt \in {Main} \cup Ids
    BY <1>4, <1>6
  <2>2. rt \in Ids <=> rt > Main
    BY <1>4, <2>1 DEF Main
  <2>3. co = IF rt > Main THEN rt ELSE NoCo
    BY <1>1, <1>3 DEF Fits
  <2> QED BY <1>4, <1>5, <1>6, <2>1, <2>2, <2>3 DEF Main, NoThread
<1>8. co # NoCo => /\ co \in Ids /\ co = rt /\ cos[co] \in CoType /\ cos[co].status = "normal"
                   /\ y \in CoType /\ y.status = "running" /\ y.started = cos[co].started
                   /\ y.baseCcalls = cos[co].baseCcalls /\ y.ref = cos[co].ref
  <2> SUFFICES ASSUME co # NoCo
               PROVE  /\ co \in Ids /\ co = rt /\ cos[co] \in CoType /\ cos[co].status = "normal"
                      /\ y \in CoType /\ y.status = "running" /\ y.started = cos[co].started
                      /\ y.baseCcalls = cos[co].baseCcalls /\ y.ref = cos[co].ref
    OBVIOUS
  <2> DEFINE old == cos[co]
  <2>1. co \in Ids /\ co = rt /\ old \in CoType /\ old.status = "normal"
    BY <1>4, <1>7
  <2> HIDE DEF old, co
  <2>2. LET new == [old EXCEPT !.status = "running"]
        IN  /\ new \in CoType /\ new.status = "running" /\ new.started = old.started
            /\ new.baseCcalls = old.baseCcalls /\ new.ref = old.ref
    BY <2>1 DEF CoType
  <2> QED BY <2>1, <2>2 DEF old
<1> HIDE DEF co, rt
<1>9. /\ cos' \in Seq(CoType) /\ Len(cos') = Len(cos) /\ cos'[th] = gone
      /\ co # NoCo => cos'[co] = y
      /\ \A jd \in 1 .. Len(cos) : jd # th /\ jd # co => cos'[jd] = cos[jd]
  <2>1. CASE co = NoCo
    <3>1. cos' = [cos EXCEPT ![th] = gone]
      BY <1>1, <1>3, <2>1 DEF Awake
    <3>2. /\ [cos EXCEPT ![th] = gone] \in Seq(CoType) /\ Len([cos EXCEPT ![th] = gone]) = Len(cos)
          /\ [cos EXCEPT ![th] = gone][th] = gone
          /\ \A jd \in 1 .. Len(cos) : jd # th => [cos EXCEPT ![th] = gone][jd] = cos[jd]
      BY <1>4, OneChanged
    <3> QED BY <2>1, <3>1, <3>2
  <2>2. CASE co # NoCo
    <3>1. cos' = [[cos EXCEPT ![th] = gone] EXCEPT ![co].status = "running"]
      BY <1>1, <1>3, <2>2 DEF Awake
    <3>2. [cos EXCEPT ![th] = gone][co] = cos[co]
      BY <1>4, <1>7, <1>8, <2>2
    <3>3. [[cos EXCEPT ![th] = gone] EXCEPT ![co].status = "running"]
            = [[cos EXCEPT ![th] = gone] EXCEPT ![co] = y]
      BY <3>2
    <3> HIDE DEF y
    <3>4. LET new == [[cos EXCEPT ![th] = gone] EXCEPT ![co] = y]
          IN  /\ new \in Seq(CoType) /\ Len(new) = Len(cos) /\ new[th] = gone /\ new[co] = y
              /\ \A kd \in 1 .. Len(cos) : kd # th /\ kd # co => new[kd] = cos[kd]
      BY <1>4, <1>7, <1>8, <2>2, TwoChanged
    <3> QED BY <2>2, <3>1, <3>3, <3>4
  <2> QED BY <2>1, <2>2
<1> HIDE DEF y
<1>10. KeepsUse(cos, cos', th)
  <2>1. ASSUME NEW jd \in 1 .. Len(cos), jd # th, InUseIn(cos, jd)
        PROVE  InUseIn(cos', jd) /\ cos'[jd].baseCcalls = cos[jd].baseCcalls
    <3>1. CASE jd = co
      <4>1. co # NoCo
        BY <3>1 DEF NoCo
      <4> QED BY <1>8, <1>9, <3>1, <4>1 DEF InUseIn
    <3>2. CASE jd # co
      <4>1. cos'[jd] = cos[jd]
        BY <1>9, <2>1, <3>2
      <4> QED BY <2>1, <4>1 DEF InUseIn
    <3> QED BY <3>1, <3>2
  <2> QED BY <1>9, <2>1 DEF KeepsUse
<1>11. FramesNow'
  <2>1. Frames(activations, protectDepth, catchDepth, errFunc, coDeathDepth, th, threadChain, cos)
    BY DEF ControlInv, FramesNow, th
  <2> DEFINE a == activations[Len(activations)]
             left == SubSeq(activations, 1, Len(activations) - 1)
  <2>2. a = Top /\ left = Below(1) /\ a.kind = "resume" /\ KeepsUse(cos, cos', a.co)
    BY <1>1, <1>2, <1>3, <1>10
  <2>3. Frames(left, protectDepth - 1, catchDepth - 1, a.outerErrFunc, a.outerDeathDepth,
               a.resumerTh, Front(threadChain), cos')
    BY <1>1, <2>1, <2>2, FramesLeave
  <2> HIDE DEF a, left
  <2> QED BY <1>1, <2>2, <2>3 DEF FramesNow, rt
<1>12. RaisedFits' /\ DyingFits'
  <2>1. ~ (raised'.live /\ raised'.coSnap) /\ (raised'.live => raised'.point)
    BY ErrorMarks
  <2> QED BY <1>1, <1>3, <2>1 DEF RaisedFits, ErrorFits, DyingFits
<1>13. /\ threadChain' \in Seq(Int) /\ Len(threadChain') = m
       /\ \A k \in 1 .. m : threadChain'[k] = threadChain[k]
  <2>1. threadChain' = SubSeq(threadChain, 1, m)
    BY <1>1, <1>4 DEF Front
  <2> QED BY <1>4, <2>1
<1>14. OneEach(threadChain', runningThread', Len(cos'))
  <2>1. IF threadChain' = <<>> THEN rt \in {NoThread, Main} ELSE threadChain'[1] = Main /\ rt \in Ids
    <3>1. threadChain' = <<>> <=> m = 0
      BY <1>4, <1>13
    <3>2. m # 0 => threadChain'[1] = Main
      BY <1>4, <1>13
    <3> QED BY <1>7, <3>1, <3>2
  <2>2. \A k \in 2 .. m : threadChain'[k] \in Ids
    BY <1>4, <1>6, <1>13
  <2>3. \A k, l \in 1 .. m : threadChain'[k] = threadChain'[l] => k = l
    BY <1>4, <1>6, <1>13
  <2>4. \A k \in 1 .. m : threadChain'[k] # rt
    <3> SUFFICES ASSUME NEW k \in 1 .. m PROVE threadChain'[k] # rt
      OBVIOUS
    <3> QED BY <1>4, <1>6, <1>13
  <2>5. runningThread' = rt /\ Len(cos') = Len(cos)
    BY <1>1, <1>9
  <2> QED BY <1>4, <1>7, <1>13, <2>1, <2>2, <2>3, <2>4, <2>5 DEF OneEach
<1>15. Statuses(cos', threadChain', runningThread')
  <2>1. \A jd \in Ids : (\E k \in 1 .. m + 1 : threadChain[k] = jd)
                          <=> jd = rt \/ \E k \in 1 .. m : threadChain'[k] = jd
    BY <1>4, <1>6, <1>13
  <2>2. \A k \in 1 .. m : threadChain'[k] # rt /\ threadChain'[k] # th
    <3> SUFFICES ASSUME NEW k \in 1 .. m PROVE threadChain'[k] # rt /\ threadChain'[k] # th
      OBVIOUS
    <3> QED BY <1>4, <1>6, <1>13
  <2>3. ASSUME NEW jd \in 1 .. Len(cos')
        PROVE  /\ cos'[jd].status = "running" <=> jd = rt
               /\ cos'[jd].status = "normal" <=> \E k \in 1 .. Len(threadChain') : threadChain'[k] = jd
               /\ cos'[jd].status = "suspended" => (cos'[jd].started <=> cos'[jd].pendingResume)
               /\ cos'[jd].status \in {"running", "normal"} => cos'[jd].started
    <3>1. CASE jd = th
      BY <1>7, <1>9, <1>13, <2>2, <3>1
    <3>2. CASE jd = co
      <4>1. co # NoCo
        BY <1>4, <1>9, <3>2 DEF NoCo
      <4>2. cos[co].started
        BY <1>4, <1>5, <1>8, <4>1
      <4> QED BY <1>8, <1>9, <1>13, <2>2, <3>2, <4>1, <4>2
    <3>3. CASE jd # th /\ jd # co
      <4>1. jd \in Ids /\ cos'[jd] = cos[jd] /\ jd # rt
        BY <1>4, <1>7, <1>9, <3>3
      <4> QED BY <1>5, <1>13, <2>1, <3>3, <4>1
    <3> QED BY <3>1, <3>2, <3>3
  <2> QED BY <1>1, <1>4, <1>9, <2>3 DEF Statuses
<1>16. Registered(cos', freeIds')
  <2>1. \A jd \in 1 .. Len(cos) : /\ cos'[jd].ref = cos[jd].ref
                                  /\ cos'[jd].status = "none" <=> cos[jd].status = "none"
    <3> SUFFICES ASSUME NEW jd \in 1 .. Len(cos)
                 PROVE  /\ cos'[jd].ref = cos[jd].ref
                        /\ cos'[jd].status = "none" <=> cos[jd].status = "none"
      OBVIOUS
    <3>1. CASE jd = th
      <4>1. cos[th].status = "running" /\ gone.ref = cos[th].ref
        BY <1>3, <1>4, <1>5
      <4> QED BY <1>9, <3>1, <4>1
    <3>2. CASE jd = co
      <4>1. co # NoCo
        BY <3>2 DEF NoCo
      <4> QED BY <1>8, <1>9, <3>2, <4>1
    <3>3. CASE jd # th /\ jd # co
      BY <1>9, <3>3
    <3> QED BY <3>1, <3>2, <3>3
  <2>2. Registered(cos, freeIds)
    BY DEF ControlInv, RegistryNow
  <2>3. Registered(cos', freeIds)
    BY <1>9, <2>1, <2>2, RegisteredSame
  <2> QED BY <1>1, <2>3
<1>17. NoneSuspended
  <2>1. ASSUME NEW jd \in 1 .. Len(cos)
        PROVE  /\ cos'[jd].ref = cos[jd].ref
               /\ cos'[jd].status = "suspended" => cos[jd].status = "suspended" \/ jd = th
    <3>1. CASE jd = th
      BY <1>3, <1>9, <3>1
    <3>2. CASE jd = co
      <4>1. co # NoCo
        BY <3>2 DEF NoCo
      <4> QED BY <1>8, <1>9, <3>2, <4>1
    <3>3. CASE jd # th /\ jd # co
      BY <1>9, <3>3
    <3> QED BY <3>1, <3>2, <3>3
  <2> QED BY <1>9, <2>1 DEF NoneSuspended, th
<1>18. Becomes(th, gone.status)
  <2>1. ASSUME NEW jd \in 1 .. Len(cos), jd # th, NEW s \in {"suspended", "dead"}
        PROVE  cos'[jd].status = s <=> cos[jd].status = s
    <3>1. CASE jd = co
      <4>1. co # NoCo
        BY <3>1 DEF NoCo
      <4>2. cos'[jd].status = "running" /\ cos[jd].status = "normal"
        BY <1>8, <1>9, <3>1, <4>1
      <4> QED BY <2>1, <4>2
    <3>2. CASE jd # co
      BY <1>9, <2>1, <3>2
    <3> QED BY <3>1, <3>2
  <2> QED BY <1>4, <1>9, <2>1 DEF Becomes
<1>19. threadChain # <<>> /\ Last(threadChain) = runningThread'
  BY <1>1, <1>3, <1>4 DEF Last
<1> QED BY <1>11, <1>12, <1>14, <1>15, <1>16, <1>17, <1>18, <1>19 DEF RegistryNow, th

\* What is on the top of a coroutine that only its resume stands on.
LEMMA ResumeOnTop ==
    ASSUME ControlInv, activations # <<>>, Top.kind = "resume"
    PROVE  /\ Top.co = runningThread /\ runningThread \in Ids /\ findRunningCo = runningThread
           /\ cos \in Seq(CoType) /\ cos[runningThread] \in CoType
           /\ cos[runningThread].status = "running" /\ cos[runningThread].started
           /\ cos[runningThread].baseCcalls = Top.outerC + 1
           /\ Doomed(activations, Len(activations))
<1> DEFINE a == activations[Len(activations)]
<1>1. Top = a
  BY DEF Top
<1>2. KeepsUse(cos, cos, a.co)
  BY DEF KeepsUse
<1>3. /\ Frames(activations, protectDepth, catchDepth, errFunc, coDeathDepth,
                runningThread, threadChain, cos)
      /\ a.kind = "resume"
  BY <1>1 DEF ControlInv, FramesNow
<1>4. runningThread = a.co /\ Doomed(activations, Len(activations))
  BY <1>2, <1>3, FramesLeave
<1>5. Len(activations) \in 1 .. Len(activations)
  BY FramesFacts DEF ControlInv
<1>6. a.co \in Ids /\ cos[a.co].baseCcalls = a.outerC + 1
  BY <1>3, <1>5 DEF Frames, Owned, Ids
<1> HIDE DEF a
<1>7. runningThread \in Ids /\ runningThread > Main /\ findRunningCo = runningThread
  BY <1>4, <1>6, RunningIs
<1>8. cos \in Seq(CoType) /\ cos[runningThread] \in CoType
  BY <1>7 DEF ControlInv, RegistryNow, Statuses, Ids
<1>9. cos[runningThread].status = "running" /\ cos[runningThread].started
  BY <1>7 DEF ControlInv, RegistryNow, Statuses, Ids
<1> QED BY <1>1, <1>4, <1>6, <1>7, <1>8, <1>9

\* A yield, let through where only the resume stands on the coroutine.
LEMMA YieldControl ==
    ASSUME ControlInv, Yield
    PROVE  /\ FramesNow' /\ RaisedFits' /\ RegistryNow' /\ DyingFits' /\ NoneSuspended
           /\ Becomes(runningThread, "suspended")
           /\ threadChain # <<>> /\ Last(threadChain) = runningThread'
<1> DEFINE old == cos[findRunningCo]
           gone == [old EXCEPT !.status = "suspended", !.pendingResume = TRUE]
<1>1. Runs /\ LeaveResume(gone) /\ raised' = raised /\ ~ raised.live /\ activations # <<>>
  <2>1. PICK site \in YieldSites :
           LeaveResume([old EXCEPT !.status = "suspended", !.pendingResume = site \in RecordsYield])
    BY DEF Yield
  <2>2. (site \in RecordsYield) = TRUE
    BY DEF YieldSites, RecordsYield
  <2> QED BY <2>1, <2>2 DEF Yield, Runs
<1>2. Top.kind = "resume"
  BY <1>1 DEF LeaveResume
<1>3. old \in CoType /\ old = cos[Top.co] /\ old.started
  BY <1>1, <1>2, ResumeOnTop
<1> HIDE DEF old
<1>4. /\ gone \in CoType /\ gone.status = "suspended" /\ gone.ref = old.ref
      /\ gone.started = old.started /\ gone.pendingResume
  BY <1>3 DEF CoType
<1> HIDE DEF gone
<1> QED BY <1>1, <1>3, <1>4, LeaveControl

\* A coroutine ends, by returning or of an error.
LEMMA EndControl ==
    ASSUME ControlInv, Finish \/ DieByError
    PROVE  /\ FramesNow' /\ RaisedFits' /\ RegistryNow' /\ DyingFits' /\ NoneSuspended
           /\ Becomes(runningThread, "dead")
           /\ threadChain # <<>> /\ Last(threadChain) = runningThread'
<1> DEFINE old == cos[Top.co]
           gone == [old EXCEPT !.status = "dead"]
<1>1. (Runs \/ Unwinds) /\ LeaveResume(gone) /\ (~ raised'.live \/ raised' = LuaError)
  <2>1. CASE Finish
    BY <2>1 DEF Finish, Runs
  <2>2. CASE DieByError
    BY <2>2, ErrorMarks DEF DieByError
  <2> QED BY <2>1, <2>2
<1>2. Top.kind = "resume" /\ activations # <<>>
  BY <1>1 DEF LeaveResume, Runs, Unwinds, ControlInv, IInv
<1>3. old \in CoType
  BY <1>2, ResumeOnTop
<1>4. gone.ref = old.ref /\ gone \in CoType /\ gone.status = "dead"
  <2> HIDE DEF old
  <2> QED BY <1>3 DEF CoType
<1>5. gone.ref = cos[Top.co].ref
  BY <1>4
<1> HIDE DEF gone
<1> QED BY <1>1, <1>4, <1>5, LeaveControl

----------------------------------------------------------------------------
(* Coroutines that are not in use come and go. *)

\* Those in use stay as they are, and no other comes into use.
Keeps(reg, reg2) ==
    /\ reg2 \in Seq(CoType) /\ Len(reg) <= Len(reg2) /\ Len(reg2) <= MaxCos
    /\ \A id \in 1 .. Len(reg) : InUseIn(reg, id) => reg2[id] = reg[id]
    /\ \A id \in 1 .. Len(reg2) :
          /\ InUseIn(reg2, id) => id \in 1 .. Len(reg) /\ InUseIn(reg, id)
          /\ reg2[id].status = "suspended" => (reg2[id].started <=> reg2[id].pendingResume)

\* Such a change concerns the registry alone.
LEMMA RegistryControl ==
    ASSUME ControlInv, UNCHANGED control, Keeps(cos, cos'), Registered(cos', freeIds')
    PROVE  FramesNow' /\ RaisedFits' /\ RegistryNow' /\ DyingFits'
<1>1. UNCHANGED <<activations, raised, runningThread, threadChain, protectDepth, catchDepth,
                  errFunc, coDeathDepth>>
  BY DEF control, depths
<1>2. /\ Len(cos) \in Nat /\ Len(cos') \in Nat /\ Len(cos) <= Len(cos')
      /\ \A id \in 1 .. Len(cos) : id \in 1 .. Len(cos')
      /\ cos' \in Seq(CoType) /\ Len(cos') <= MaxCos
      /\ OneEach(threadChain, runningThread, Len(cos)) /\ Statuses(cos, threadChain, runningThread)
  <2>1. cos \in Seq(CoType) /\ cos' \in Seq(CoType) /\ Len(cos) <= Len(cos') /\ Len(cos') <= MaxCos
    BY DEF ControlInv, RegistryNow, Statuses, Keeps
  <2> QED BY <2>1 DEF ControlInv, RegistryNow
<1>3. Owned(activations, cos')
  <2>1. Owned(activations, cos)
    BY DEF ControlInv, FramesNow, Frames
  <2>2. ASSUME NEW i \in 1 .. Len(activations), activations[i].kind = "resume"
        PROVE  /\ activations[i].co \in 1 .. Len(cos')
               /\ cos'[activations[i].co].status \in {"running", "normal"}
               /\ cos'[activations[i].co].baseCcalls = activations[i].outerC + 1
    <3>1. /\ activations[i].co \in 1 .. Len(cos) /\ InUseIn(cos, activations[i].co)
          /\ cos[activations[i].co].baseCcalls = activations[i].outerC + 1
      BY <2>1, <2>2 DEF Owned, InUseIn
    <3> QED BY <1>2, <3>1 DEF Keeps, InUseIn
  <2> QED BY <2>1, <2>2 DEF Owned
<1>4. FramesNow' /\ RaisedFits'
  BY <1>1, <1>3 DEF ControlInv, FramesNow, Frames, RaisedFits
<1>5. OneEach(threadChain, runningThread, Len(cos'))
  BY <1>2 DEF OneEach
<1>6. \A id \in 1 .. Len(cos) : InUseIn(cos, id) <=> id = runningThread \/ \E k \in 1 .. Len(threadChain) : threadChain[k] = id
  BY <1>2 DEF Statuses, InUseIn
<1>7. /\ \A k \in 1 .. Len(threadChain) : threadChain[k] \in 1 .. Len(cos') => threadChain[k] \in 1 .. Len(cos)
      /\ runningThread \in 1 .. Len(cos') => runningThread \in 1 .. Len(cos)
  <2>1. Main \notin 1 .. Len(cos') /\ NoThread \notin 1 .. Len(cos') /\ threadChain \in Seq(Int)
    BY <1>2 DEF Main, NoThread, OneEach
  <2>2. ASSUME NEW k \in 1 .. Len(threadChain), threadChain[k] \in 1 .. Len(cos')
        PROVE  threadChain[k] \in 1 .. Len(cos)
    <3>1. CASE k = 1
      BY <1>2, <2>1, <2>2, <3>1 DEF OneEach
    <3>2. CASE k # 1
      BY <1>2, <3>2 DEF OneEach
    <3> QED BY <3>1, <3>2
  <2>3. runningThread \in 1 .. Len(cos') => runningThread \in 1 .. Len(cos)
    BY <1>2, <2>1 DEF OneEach
  <2> QED BY <2>2, <2>3
<1>8. Statuses(cos', threadChain, runningThread)
  <2> SUFFICES ASSUME NEW id \in 1 .. Len(cos')
               PROVE  /\ cos'[id].status = "running" <=> id = runningThread
                      /\ cos'[id].status = "normal" <=> \E k \in 1 .. Len(threadChain) : threadChain[k] = id
                      /\ cos'[id].status = "suspended" => (cos'[id].started <=> cos'[id].pendingResume)
                      /\ cos'[id].status \in {"running", "normal"} => cos'[id].started
    BY <1>2 DEF Statuses
  <2>1. CASE id \in 1 .. Len(cos) /\ InUseIn(cos, id)
    <3>1. cos'[id] = cos[id]
      BY <2>1 DEF Keeps
    <3> QED BY <1>2, <2>1, <3>1 DEF Statuses
  <2>2. CASE ~ (id \in 1 .. Len(cos) /\ InUseIn(cos, id))
    <3>1. ~ InUseIn(cos', id) /\ (cos'[id].status = "suspended" => (cos'[id].started <=> cos'[id].pendingResume))
      BY <2>2 DEF Keeps
    <3>2. id # runningThread /\ \A k \in 1 .. Len(threadChain) : threadChain[k] # id
      BY <1>6, <1>7, <2>2
    <3> QED BY <3>1, <3>2 DEF InUseIn
  <2> QED BY <2>1, <2>2
<1>9. DyingFits'
  <2>1. runningThread \in Ids => runningThread \in 1 .. Len(cos') /\ cos'[runningThread] = cos[runningThread]
    <3>1. runningThread \in Ids => runningThread \in 1 .. Len(cos) /\ InUseIn(cos, runningThread)
      BY <1>2 DEF Statuses, Ids, InUseIn
    <3> QED BY <1>2, <3>1 DEF Keeps
  <2>2. Ids' = 1 .. Len(cos')
    BY DEF Ids
  <2> QED BY <1>1, <2>1, <2>2 DEF DyingFits, ControlInv
<1> QED BY <1>1, <1>4, <1>5, <1>8, <1>9 DEF RegistryNow

\* A refused first resume leaves a coroutine dead that was never in use.
LEMMA RefusedControl ==
    ASSUME ControlInv, NEW ref \in Refs, ResumeRefused(ref)
    PROVE  /\ FramesNow' /\ RaisedFits' /\ RegistryNow' /\ DyingFits' /\ NoneSuspended
           /\ Becomes(coOf(ref), "dead")
<1> DEFINE id == coOf(ref)
           c == [cos[id] EXCEPT !.status = "dead"]
<1>1. /\ UNCHANGED control /\ freeIds' = freeIds /\ id # NoCo
      /\ cos[id].status = "suspended"
      /\ cos' = [cos EXCEPT ![id] = c]
  BY DEF ResumeRefused
<1>2. cos \in Seq(CoType) /\ Len(cos) \in Nat /\ Len(cos) <= MaxCos /\ id \in 1 .. Len(cos)
      /\ Statuses(cos, threadChain, runningThread)
  BY <1>1, CoOf DEF ControlInv, RegistryNow, Statuses, Ids
<1> HIDE DEF id
<1>3. /\ c \in CoType /\ c.status = "dead" /\ c.ref = cos[id].ref
  <2> DEFINE old == cos[id]
  <2>1. old \in CoType
    BY <1>2
  <2> HIDE DEF old
  <2>2. LET new == [old EXCEPT !.status = "dead"]
        IN  new \in CoType /\ new.status = "dead" /\ new.ref = old.ref
    BY <2>1 DEF CoType
  <2> QED BY <2>2 DEF old
<1> HIDE DEF c
<1>4. /\ cos' \in Seq(CoType) /\ Len(cos') = Len(cos) /\ cos'[id] = c
      /\ \A jd \in 1 .. Len(cos) : jd # id => cos'[jd] = cos[jd]
  BY <1>1, <1>2, <1>3, OneChanged
<1>5. Keeps(cos, cos')
  <2>1. \A jd \in 1 .. Len(cos) : InUseIn(cos, jd) => cos'[jd] = cos[jd]
    BY <1>1, <1>4 DEF InUseIn
  <2>2. \A jd \in 1 .. Len(cos') :
          /\ InUseIn(cos', jd) => jd \in 1 .. Len(cos) /\ InUseIn(cos, jd)
          /\ cos'[jd].status = "suspended" => (cos'[jd].started <=> cos'[jd].pendingResume)
    <3> SUFFICES ASSUME NEW jd \in 1 .. Len(cos)
                 PROVE  /\ InUseIn(cos', jd) => InUseIn(cos, jd)
                        /\ cos'[jd].status = "suspended" => (cos'[jd].started <=> cos'[jd].pendingResume)
      BY <1>4
    <3>1. CASE jd = id
      BY <1>3, <1>4, <3>1 DEF InUseIn
    <3>2. CASE jd # id
      BY <1>2, <1>4, <3>2 DEF InUseIn, Statuses
    <3> QED BY <3>1, <3>2
  <2>3. Len(cos) <= Len(cos')
    BY <1>2, <1>4
  <2> QED BY <1>2, <1>4, <2>1, <2>2, <2>3 DEF Keeps
<1>6. Registered(cos', freeIds')
  <2>1. \A jd \in 1 .. Len(cos) : /\ cos'[jd].ref = cos[jd].ref
                                  /\ cos'[jd].status = "none" <=> cos[jd].status = "none"
    BY <1>1, <1>3, <1>4
  <2>2. Registered(cos, freeIds)
    BY DEF ControlInv, RegistryNow
  <2>3. Registered(cos', freeIds)
    BY <1>4, <2>1, <2>2, RegisteredSame
  <2> QED BY <1>1, <2>3
<1>7. NoneSuspended
  BY <1>1, <1>3, <1>4 DEF NoneSuspended
<1>8. Becomes(id, "dead")
  BY <1>2, <1>3, <1>4 DEF Becomes
<1> QED BY <1>1, <1>5, <1>6, <1>7, <1>8, RegistryControl DEF id

\* The last id of a list without repeats leaves it.
LEMMA LastTaken ==
    ASSUME NEW n \in Nat, NEW free \in Seq(1 .. n), free # <<>>,
           \A k, l \in 1 .. Len(free) : free[k] = free[l] => k = l
    PROVE  /\ Last(free) \in 1 .. n /\ Front(free) \in Seq(1 .. n)
           /\ \A k, l \in 1 .. Len(Front(free)) : Front(free)[k] = Front(free)[l] => k = l
           /\ \A id : (\E k \in 1 .. Len(Front(free)) : Front(free)[k] = id)
                        <=> id # Last(free) /\ \E k \in 1 .. Len(free) : free[k] = id
           /\ \E k \in 1 .. Len(free) : free[k] = Last(free)
<1> DEFINE m == Len(free) - 1
<1>1. m \in Nat /\ Len(free) = m + 1 /\ m + 1 \in 1 .. m + 1
  OBVIOUS
<1>2. Last(free) = free[m + 1] /\ Front(free) = SubSeq(free, 1, m)
  BY <1>1 DEF Last, Front
<1>3. /\ Front(free) \in Seq(1 .. n) /\ Len(Front(free)) = m
      /\ \A k \in 1 .. m : Front(free)[k] = free[k]
  <2> HIDE DEF m
  <2> QED BY <1>1, <1>2
<1> HIDE DEF m
<1>4. \A k \in 1 .. m : k \in 1 .. m + 1 /\ k # m + 1
  BY <1>1
<1>5. \A k \in 1 .. m + 1 : k # m + 1 => k \in 1 .. m
  BY <1>1
<1>6. free[m + 1] \in 1 .. n
  BY <1>1
<1>7. \A k, l \in 1 .. m : Front(free)[k] = Front(free)[l] => k = l
  BY <1>1, <1>3, <1>4
<1>8. \A id : (\E k \in 1 .. m : Front(free)[k] = id)
                <=> id # Last(free) /\ \E k \in 1 .. m + 1 : free[k] = id
  <2> SUFFICES ASSUME NEW id
               PROVE  (\E k \in 1 .. m : Front(free)[k] = id)
                        <=> id # Last(free) /\ \E k \in 1 .. m + 1 : free[k] = id
    OBVIOUS
  <2>1. ASSUME NEW k \in 1 .. m, Front(free)[k] = id
        PROVE  id # Last(free) /\ \E l \in 1 .. m + 1 : free[l] = id
    BY <1>1, <1>2, <1>3, <1>4, <2>1
  <2>2. ASSUME id # Last(free), NEW k \in 1 .. m + 1, free[k] = id
        PROVE  \E l \in 1 .. m : Front(free)[l] = id
    BY <1>2, <1>3, <1>5, <2>2
  <2> QED BY <2>1, <2>2
<1> QED BY <1>1, <1>2, <1>3, <1>6, <1>7, <1>8

\* The same, with the lists before and after named.
OnceEach(n, free) ==
    free \in Seq(1 .. n) /\ \A k, l \in 1 .. Len(free) : free[k] = free[l] => k = l
LastGone(n, free) ==
    /\ Front(free) \in Seq(1 .. n)
    /\ \A k, l \in 1 .. Len(Front(free)) : Front(free)[k] = Front(free)[l] => k = l
    /\ \A id : (\E k \in 1 .. Len(Front(free)) : Front(free)[k] = id)
                 <=> id # Last(free) /\ \E k \in 1 .. Len(free) : free[k] = id
LEMMA LastTakenOnce ==
    ASSUME NEW n \in Nat, NEW free, OnceEach(n, free), free # <<>>
    PROVE  LastGone(n, free)
<1>1. free \in Seq(1 .. n) /\ \A k, l \in 1 .. Len(free) : free[k] = free[l] => k = l
  BY DEF OnceEach
<1>2. Front(free) \in Seq(1 .. n)
  BY <1>1, LastTaken
<1>3. \A k, l \in 1 .. Len(Front(free)) : Front(free)[k] = Front(free)[l] => k = l
  BY <1>1, LastTaken
<1>4. \A id : (\E k \in 1 .. Len(Front(free)) : Front(free)[k] = id)
                <=> id # Last(free) /\ \E k \in 1 .. Len(free) : free[k] = id
  BY <1>1, LastTaken, ZenonT(60)
<1> QED BY <1>2, <1>3, <1>4 DEF LastGone

\* The registry after a coroutine is made: under a free id, or a new one.
LEMMA MadeIs ==
    ASSUME ControlInv, NEW ref \in Refs, NewCoroutine(ref)
    PROVE  LET id == IF freeIds = <<>> THEN Len(cos) + 1 ELSE Last(freeIds)
           IN  /\ cos' \in Seq(CoType) /\ Len(cos') \in Nat /\ Len(cos) \in Nat
               /\ Len(cos) <= Len(cos') /\ Len(cos') <= MaxCos
               /\ id \in 1 .. Len(cos') /\ cos'[id] = Coroutine(ref)
               /\ \A jd \in 1 .. Len(cos') : jd # id => jd \in 1 .. Len(cos) /\ cos'[jd] = cos[jd]
               /\ id \in 1 .. Len(cos) => cos[id].status = "none"
               /\ Coroutine(ref) \in CoType
<1> DEFINE id == IF freeIds = <<>> THEN Len(cos) + 1 ELSE Last(freeIds)
<1>1. /\ cos \in Seq(CoType) /\ Len(cos) \in Nat /\ Len(cos) <= MaxCos
      /\ freeIds \in Seq(1 .. Len(cos))
      /\ \A k, l \in 1 .. Len(freeIds) : freeIds[k] = freeIds[l] => k = l
      /\ \A jd \in 1 .. Len(cos) : cos[jd].status = "none" <=> \E k \in 1 .. Len(freeIds) : freeIds[k] = jd
  BY DEF ControlInv, RegistryNow, Statuses, Registered
<1>2. id <= MaxCos /\ cos' = IF freeIds = <<>> THEN Append(cos, Coroutine(ref)) ELSE [cos EXCEPT ![id] = Coroutine(ref)]
  BY DEF NewCoroutine
<1>3. Coroutine(ref) \in CoType
  BY DEF Coroutine, CoType
<1>4. CASE freeIds = <<>>
  <2>1. id = Len(cos) + 1 /\ cos' = Append(cos, Coroutine(ref))
    BY <1>2, <1>4
  <2> HIDE DEF id
  <2> DEFINE n == Len(cos)
             c == Coroutine(ref)
  <2>2. n \in Nat /\ Len(Append(cos, c)) = n + 1 /\ Append(cos, c)[n + 1] = c
        /\ Append(cos, c) \in Seq(CoType)
        /\ \A jd \in 1 .. n : Append(cos, c)[jd] = cos[jd]
    BY <1>1, <1>3
  <2> HIDE DEF n, c
  <2>3. /\ cos' \in Seq(CoType) /\ Len(cos') = n + 1 /\ cos'[n + 1] = c /\ id = n + 1
        /\ \A jd \in 1 .. n : cos'[jd] = cos[jd]
    BY <2>1, <2>2 DEF n, c
  <2>4. /\ \A jd \in 1 .. n + 1 : jd # n + 1 => jd \in 1 .. n
        /\ n + 1 \in 1 .. n + 1 /\ n + 1 \notin 1 .. n /\ n <= n + 1 /\ n + 1 \in Nat
    BY <2>2
  <2>5. n + 1 <= MaxCos /\ n = Len(cos)
    BY <1>2, <2>3 DEF n
  <2> QED BY <1>3, <2>3, <2>4, <2>5 DEF id, c
<1>5. CASE freeIds # <<>>
  <2>1. id \in 1 .. Len(cos) /\ \E k \in 1 .. Len(freeIds) : freeIds[k] = id
    BY <1>1, <1>5, LastTaken
  <2>2. cos' = [cos EXCEPT ![id] = Coroutine(ref)]
    BY <1>2, <1>5
  <2> HIDE DEF id
  <2>3. /\ cos' \in Seq(CoType) /\ Len(cos') = Len(cos) /\ cos'[id] = Coroutine(ref)
        /\ \A jd \in 1 .. Len(cos) : jd # id => cos'[jd] = cos[jd]
    BY <1>1, <1>3, <2>1, <2>2, OneChanged
  <2>4. cos[id].status = "none" /\ Len(cos) <= Len(cos)
    BY <1>1, <2>1
  <2> QED BY <1>1, <1>3, <2>1, <2>3, <2>4 DEF id
<1> QED BY <1>4, <1>5

\* A coroutine is made.
LEMMA NewControl ==
    ASSUME ControlInv, NEW ref \in Refs, NewCoroutine(ref)
    PROVE  FramesNow' /\ RaisedFits' /\ RegistryNow' /\ DyingFits'
<1> DEFINE id == IF freeIds = <<>> THEN Len(cos) + 1 ELSE Last(freeIds)
<1>1. /\ UNCHANGED control /\ \A i \in 1 .. Len(cos) : cos[i].ref # ref
      /\ freeIds' = IF freeIds = <<>> THEN freeIds ELSE Front(freeIds)
  BY DEF NewCoroutine, TakeId, Ids
<1>2. /\ cos' \in Seq(CoType) /\ Len(cos') \in Nat /\ Len(cos) \in Nat
      /\ Len(cos) <= Len(cos') /\ Len(cos') <= MaxCos
      /\ id \in 1 .. Len(cos') /\ cos'[id] = Coroutine(ref)
      /\ \A jd \in 1 .. Len(cos') : jd # id => jd \in 1 .. Len(cos) /\ cos'[jd] = cos[jd]
      /\ id \in 1 .. Len(cos) => cos[id].status = "none"
  BY MadeIs
<1>3. id \notin 1 .. Len(cos) <=> freeIds = <<>>
  <2>1. freeIds = <<>> => id \notin 1 .. Len(cos)
    BY <1>2
  <2>2. freeIds # <<>> => id \in 1 .. Len(cos)
    <3>1. /\ freeIds \in Seq(1 .. Len(cos))
          /\ \A k, l \in 1 .. Len(freeIds) : freeIds[k] = freeIds[l] => k = l
      BY DEF ControlInv, RegistryNow, Registered
    <3> QED BY <1>2, <3>1, LastTaken
  <2> QED BY <2>1, <2>2
<1>4. freeIds # <<>> => id = Last(freeIds)
  OBVIOUS
<1> HIDE DEF id
<1>5. /\ cos'[id].ref = ref /\ cos'[id].status = "suspended" /\ ~ cos'[id].started
      /\ ~ cos'[id].pendingResume /\ ref # Null
  BY <1>2, NullAssumption DEF Coroutine
<1>6. \A jd \in 1 .. Len(cos) : jd \in 1 .. Len(cos')
  BY <1>2
<1>7. Statuses(cos, threadChain, runningThread) /\ Registered(cos, freeIds)
  BY DEF ControlInv, RegistryNow
<1>8. Keeps(cos, cos')
  <2>1. ASSUME NEW jd \in 1 .. Len(cos), InUseIn(cos, jd) PROVE cos'[jd] = cos[jd]
    BY <1>2, <1>6, <2>1 DEF InUseIn
  <2>2. ASSUME NEW jd \in 1 .. Len(cos')
        PROVE  /\ InUseIn(cos', jd) => jd \in 1 .. Len(cos) /\ InUseIn(cos, jd)
               /\ cos'[jd].status = "suspended" => (cos'[jd].started <=> cos'[jd].pendingResume)
    <3>1. CASE jd = id
      BY <1>5, <3>1 DEF InUseIn
    <3>2. CASE jd # id
      BY <1>2, <1>7, <3>2 DEF InUseIn, Statuses
    <3> QED BY <3>1, <3>2
  <2> QED BY <1>2, <2>1, <2>2 DEF Keeps
<1>9. Registered(cos', freeIds')
  <2>1. /\ freeIds' \in Seq(1 .. Len(cos'))
        /\ \A k, l \in 1 .. Len(freeIds') : freeIds'[k] = freeIds'[l] => k = l
        /\ \A jd \in 1 .. Len(cos') : (\E k \in 1 .. Len(freeIds') : freeIds'[k] = jd)
                                        <=> jd # id /\ \E k \in 1 .. Len(freeIds) : freeIds[k] = jd
    <3>1. /\ freeIds \in Seq(1 .. Len(cos))
          /\ \A k, l \in 1 .. Len(freeIds) : freeIds[k] = freeIds[l] => k = l
      BY <1>7 DEF Registered
    <3>2. CASE freeIds = <<>>
      <4>1. freeIds' = <<>> /\ freeIds = <<>>
        BY <1>1, <3>2
      <4> QED BY <4>1
    <3>3. CASE freeIds # <<>>
      <4>1. freeIds' = Front(freeIds) /\ id = Last(freeIds)
        BY <1>1, <1>4, <3>3
      <4> DEFINE m == Len(cos)
      <4>2. m \in Nat /\ OnceEach(m, freeIds)
        BY <1>2, <3>1 DEF OnceEach
      <4> HIDE DEF m
      <4>3. LastGone(m, freeIds)
        BY <3>3, <4>2, LastTakenOnce
      <4> DEFINE new == Front(freeIds)
      <4> HIDE DEF new
      <4>4. new \in Seq(1 .. Len(cos'))
        BY <1>6, <4>3 DEF new, m, LastGone
      <4> QED BY <4>1, <4>3, <4>4 DEF new, LastGone
    <3> QED BY <3>2, <3>3
  <2>2. ASSUME NEW jd \in 1 .. Len(cos')
        PROVE  /\ cos'[jd].status = "none" <=> \E k \in 1 .. Len(freeIds') : freeIds'[k] = jd
               /\ cos'[jd].status = "none" <=> cos'[jd].ref = Null
    <3>1. CASE jd = id
      BY <1>5, <2>1, <3>1
    <3>2. CASE jd # id
      <4>1. jd \in 1 .. Len(cos) /\ cos'[jd] = cos[jd]
        BY <1>2, <3>2
      <4> QED BY <1>7, <2>1, <3>2, <4>1 DEF Registered
    <3> QED BY <3>1, <3>2
  <2>3. ASSUME NEW jd \in 1 .. Len(cos'), NEW kd \in 1 .. Len(cos'),
               cos'[jd].ref = cos'[kd].ref, cos'[jd].ref # Null
        PROVE  jd = kd
    <3>1. CASE jd = id /\ kd # id
      BY <1>1, <1>2, <1>5, <2>3, <3>1
    <3>2. CASE kd = id /\ jd # id
      BY <1>1, <1>2, <1>5, <2>3, <3>2
    <3>3. CASE jd # id /\ kd # id
      BY <1>2, <1>7, <2>3, <3>3 DEF Registered
    <3> QED BY <3>1, <3>2, <3>3
  <2> QED BY <2>1, <2>2, <2>3 DEF Registered
<1> QED BY <1>1, <1>8, <1>9, RegistryControl

----------------------------------------------------------------------------
(* Collecting coroutines *)

Enumerates(s, n, S) ==
    /\ s \in [1 .. n -> S]
    /\ \A i, j \in 1 .. n : i < j => s[i] < s[j]

\* A set of ids has an enumeration in order.
LEMMA AscendingExists ==
    ASSUME NEW n \in Nat
    PROVE  \A S \in SUBSET (1 .. n) : \E s : Enumerates(s, Cardinality(S), S)
<1> DEFINE P(k) == \A S \in SUBSET (1 .. k) : \E s : Enumerates(s, Cardinality(S), S)
           Bad == {k \in Nat : ~ P(k)}
<1>1. ASSUME NEW k \in Bad, \A l \in Bad : k <= l PROVE FALSE
  <2> SUFFICES ASSUME NEW S \in SUBSET (1 .. k) PROVE \E s : Enumerates(s, Cardinality(S), S)
    OBVIOUS
  <2>1. IsFiniteSet(S) /\ Cardinality(S) \in Nat
    <3>1. IsFiniteSet(1 .. k)
      BY FS_Interval
    <3> QED BY <3>1, FS_Subset, FS_CardinalityType
  <2>2. CASE k = 0
    <3>1. S = {}
      BY <2>2
    <3>2. Cardinality(S) = 0
      BY <3>1, FS_EmptySet
    <3>3. Enumerates([i \in 1 .. 0 |-> i], 0, S)
      BY <3>1 DEF Enumerates
    <3> QED BY <3>2, <3>3
  <2>3. CASE k # 0
    <3> DEFINE T == S \ {k}
               c == Cardinality(T)
    <3>1. k - 1 \in Nat /\ T \in SUBSET (1 .. k - 1) /\ \A x \in T : x < k /\ x \in S
      BY <2>3
    <3>2. k - 1 \notin Bad
      BY <1>1, <3>1
    <3>3. P(k - 1)
      BY <3>1, <3>2
    <3>4. PICK t : Enumerates(t, c, T)
      BY <3>1, <3>3
    <3>5. CASE k \in S
      <4>1. c \in Nat /\ Cardinality(S) = c + 1
        <5>1. IsFiniteSet(S \ {k}) /\ Cardinality(S \ {k}) = Cardinality(S) - 1
          BY <2>1, <3>5, FS_RemoveElement
        <5>2. Cardinality(S \ {k}) \in Nat
          BY <5>1, FS_CardinalityType
        <5> QED BY <2>1, <5>1, <5>2
      <4> DEFINE s == [i \in 1 .. c + 1 |-> IF i = c + 1 THEN k ELSE t[i]]
      <4> HIDE DEF c, T
      <4>2. \A i \in 1 .. c + 1 : i # c + 1 => i \in 1 .. c
        BY <4>1
      <4>3. Enumerates(s, c + 1, S)
        <5>1. \A i \in 1 .. c : t[i] \in S /\ t[i] < k
          BY <3>1, <3>4 DEF Enumerates
        <5>2. \A i \in 1 .. c + 1 : s[i] \in S
          BY <3>5, <4>2, <5>1
        <5>3. \A i, j \in 1 .. c + 1 : i < j => i \in 1 .. c /\ i # c + 1
          BY <4>1
        <5>4. \A i, j \in 1 .. c + 1 : i < j => s[i] < s[j]
          BY <3>4, <4>2, <5>1, <5>3 DEF Enumerates
        <5>5. s \in [1 .. c + 1 -> S]
          BY <5>2
        <5> QED BY <5>4, <5>5 DEF Enumerates
      <4> QED BY <4>1, <4>3
    <3>6. CASE k \notin S
      <4>1. T = S
        BY <3>6
      <4> QED BY <3>4, <4>1
    <3> QED BY <3>5, <3>6
  <2> QED BY <2>2, <2>3
<1>2. Bad = {}
  <2>1. Bad \in SUBSET Nat
    OBVIOUS
  <2> HIDE DEF Bad
  <2> QED BY <1>1, <2>1, Least
<1>3. P(n)
  BY <1>2
<1> QED BY <1>3

\* Every id is enumerated once.
LEMMA AscendingIs ==
    ASSUME NEW n \in Nat, NEW S \in SUBSET (1 .. n)
    PROVE  /\ Ascending(S) \in Seq(1 .. n)
           /\ \A k, l \in 1 .. Len(Ascending(S)) : Ascending(S)[k] = Ascending(S)[l] => k = l
           /\ \A id : id \in S <=> \E k \in 1 .. Len(Ascending(S)) : Ascending(S)[k] = id
<1> DEFINE c == Cardinality(S)
           s == Ascending(S)
<1>1. IsFiniteSet(S) /\ c \in Nat
  <2>1. IsFiniteSet(1 .. n)
    BY FS_Interval
  <2> QED BY <2>1, FS_Subset, FS_CardinalityType
<1>2. Enumerates(s, c, S)
  <2>1. \E t : Enumerates(t, c, S)
    BY AscendingExists
  <2>2. \E t \in [1 .. c -> S] : \A i, j \in 1 .. c : i < j => t[i] < t[j]
    BY <2>1 DEF Enumerates
  <2>3. s \in [1 .. c -> S] /\ \A i, j \in 1 .. c : i < j => s[i] < s[j]
    BY <2>2 DEF Ascending
  <2> QED BY <2>3 DEF Enumerates
<1> HIDE DEF s
<1>3. \A i, j \in 1 .. c : s[i] = s[j] => i = j
  <2> SUFFICES ASSUME NEW i \in 1 .. c, NEW j \in 1 .. c, s[i] = s[j] PROVE i = j
    OBVIOUS
  <2>1. s[i] \in Int /\ s[j] \in Int
    <3>1. s[i] \in S /\ s[j] \in S
      <4> HIDE DEF c
      <4> QED BY <1>2 DEF Enumerates
    <3>2. \A x \in S : x \in Int
      OBVIOUS
    <3> HIDE DEF c
    <3> QED BY <3>1, <3>2
  <2>2. ~ (i < j) /\ ~ (j < i)
    BY <1>2, <2>1 DEF Enumerates
  <2> QED BY <1>1, <2>2
<1>4. \A id \in S : \E k \in 1 .. c : s[k] = id
  <2>1. s \in Injection(1 .. c, S)
    BY <1>2, <1>3 DEF Enumerates, Injection, IsInjective
  <2>2. IsFiniteSet(1 .. c) /\ Cardinality(1 .. c) = c
    <3> HIDE DEF c
    <3> QED BY <1>1, FS_Interval
  <2>3. s \in Surjection(1 .. c, S)
    BY <1>1, <2>1, <2>2, FS_Injection
  <2> HIDE DEF c
  <2> QED BY <2>3 DEF Surjection
<1> HIDE DEF c
<1>5. s \in Seq(1 .. n) /\ Len(s) = c
  <2>1. s \in [1 .. c -> 1 .. n]
    BY <1>2 DEF Enumerates
  <2> QED BY <1>1, <2>1
<1>6. \A k \in 1 .. c : s[k] \in S
  BY <1>2 DEF Enumerates
<1>7. /\ s \in Seq(1 .. n)
      /\ \A k, l \in 1 .. Len(s) : s[k] = s[l] => k = l
      /\ \A id : id \in S <=> \E k \in 1 .. Len(s) : s[k] = id
  BY <1>3, <1>4, <1>5, <1>6
<1> QED BY <1>7 DEF s

\* Two lists that have no id in common, one after the other.
LEMMA JoinedLists ==
    ASSUME NEW n \in Nat, NEW a \in Seq(1 .. n), NEW b \in Seq(1 .. n),
           \A k, l \in 1 .. Len(a) : a[k] = a[l] => k = l,
           \A k, l \in 1 .. Len(b) : b[k] = b[l] => k = l,
           \A k \in 1 .. Len(a), l \in 1 .. Len(b) : a[k] # b[l]
    PROVE  /\ a \o b \in Seq(1 .. n)
           /\ \A k, l \in 1 .. Len(a \o b) : (a \o b)[k] = (a \o b)[l] => k = l
           /\ \A id : (\E k \in 1 .. Len(a \o b) : (a \o b)[k] = id)
                        <=> (\E k \in 1 .. Len(a) : a[k] = id) \/ (\E k \in 1 .. Len(b) : b[k] = id)
<1> DEFINE c == a \o b
           p == Len(a)
           q == Len(b)
<1>1. /\ c \in Seq(1 .. n) /\ p \in Nat /\ q \in Nat /\ Len(c) = p + q
      /\ \A k \in 1 .. p + q : c[k] = IF k <= p THEN a[k] ELSE b[k - p]
  OBVIOUS
<1> HIDE DEF c, p, q
<1>2. \A k \in 1 .. p + q : (k <= p /\ k \in 1 .. p) \/ (~ (k <= p) /\ k - p \in 1 .. q)
  BY <1>1
<1>3. /\ \A k \in 1 .. p : k \in 1 .. p + q /\ c[k] = a[k]
      /\ \A k \in 1 .. q : k + p \in 1 .. p + q /\ c[k + p] = b[k]
  <2>1. ASSUME NEW k \in 1 .. p PROVE k \in 1 .. p + q /\ c[k] = a[k]
    BY <1>1
  <2>2. ASSUME NEW k \in 1 .. q PROVE k + p \in 1 .. p + q /\ c[k + p] = b[k]
    <3>1. k + p \in 1 .. p + q /\ ~ (k + p <= p) /\ (k + p) - p = k
      BY <1>1
    <3> QED BY <1>1, <3>1
  <2> QED BY <2>1, <2>2
<1>4. ASSUME NEW k \in 1 .. p + q, NEW l \in 1 .. p + q, c[k] = c[l] PROVE k = l
  <2>1. CASE k <= p /\ l <= p
    <3>1. k \in 1 .. p /\ l \in 1 .. p /\ a[k] = a[l]
      BY <1>1, <1>2, <1>4, <2>1
    <3> QED BY <3>1 DEF p
  <2>2. CASE ~ (k <= p) /\ ~ (l <= p)
    <3>1. k - p \in 1 .. q /\ l - p \in 1 .. q /\ b[k - p] = b[l - p]
      BY <1>1, <1>2, <1>4, <2>2
    <3>2. k - p = l - p
      BY <3>1 DEF q
    <3> QED BY <1>1, <3>2
  <2>3. CASE k <= p /\ ~ (l <= p)
    <3>1. k \in 1 .. p /\ l - p \in 1 .. q /\ a[k] = b[l - p]
      BY <1>1, <1>2, <1>4, <2>3
    <3> QED BY <3>1 DEF p, q
  <2>4. CASE ~ (k <= p) /\ l <= p
    <3>1. l \in 1 .. p /\ k - p \in 1 .. q /\ b[k - p] = a[l]
      BY <1>1, <1>2, <1>4, <2>4
    <3> QED BY <3>1 DEF p, q
  <2> QED BY <2>1, <2>2, <2>3, <2>4
<1>5. \A id : (\E k \in 1 .. p + q : c[k] = id)
                <=> (\E k \in 1 .. p : a[k] = id) \/ (\E k \in 1 .. q : b[k] = id)
  <2> SUFFICES ASSUME NEW id
               PROVE  (\E k \in 1 .. p + q : c[k] = id)
                        <=> (\E k \in 1 .. p : a[k] = id) \/ (\E k \in 1 .. q : b[k] = id)
    OBVIOUS
  <2>1. ASSUME NEW k \in 1 .. p + q, c[k] = id
        PROVE  (\E l \in 1 .. p : a[l] = id) \/ (\E l \in 1 .. q : b[l] = id)
    BY <1>1, <1>2, <2>1
  <2>2. ASSUME NEW k \in 1 .. p, a[k] = id PROVE \E l \in 1 .. p + q : c[l] = id
    BY <1>3, <2>2
  <2>3. ASSUME NEW k \in 1 .. q, b[k] = id PROVE \E l \in 1 .. p + q : c[l] = id
    BY <1>3, <2>3
  <2> QED BY <2>1, <2>2, <2>3
<1>6. Len(c) = p + q /\ c \in Seq(1 .. n)
  BY <1>1
<1> QED BY <1>4, <1>5, <1>6 DEF c, p, q

\* What a collection makes of the registry; it spares what is in use.
LEMMA CollectedIs ==
    ASSUME ControlInv, releaseCoroutines
    PROVE  LET gone == {id \in Ids : cos[id].status # "none" /\ cos[id].ref \notin Reached}
           IN  /\ cos' \in Seq(CoType) /\ Len(cos) \in Nat /\ Len(cos') = Len(cos)
               /\ gone \in SUBSET (1 .. Len(cos))
               /\ \A id \in 1 .. Len(cos) : cos'[id] = IF id \in gone THEN Released ELSE cos[id]
               /\ \A id \in 1 .. Len(cos) : InUseIn(cos, id) => id \notin gone
               /\ Released.ref = Null /\ Released.status = "none"
<1> DEFINE gone == {id \in Ids : cos[id].status # "none" /\ cos[id].ref \notin Reached}
<1>1. /\ cos \in Seq(CoType) /\ Len(cos) \in Nat /\ Ids = 1 .. Len(cos)
      /\ \A id \in 1 .. Len(cos) : cos[id].status = "none" <=> cos[id].ref = Null
  BY DEF ControlInv, RegistryNow, Statuses, Registered, Ids
<1>2. Released \in CoType /\ Released.ref = Null /\ Released.status = "none"
  BY DEF Released, Coroutine, CoType
<1>3. ASSUME NEW id \in 1 .. Len(cos), InUseIn(cos, id) PROVE id \notin gone
  <2>1. cos[id] \in CoType
    BY <1>1
  <2>2. cos[id].ref \in Refs
    BY <1>1, <1>3, <2>1 DEF InUseIn, CoType
  <2>3. cos[id].ref \in Roots
    <3> DEFINE R == {cos[i].ref : i \in {j \in Ids : cos[j].status \in {"running", "normal"}}}
    <3>1. cos[id].ref \in R
      BY <1>1, <1>3 DEF InUseIn
    <3>2. R \subseteq Roots
      BY DEF Roots
    <3> QED BY <3>1, <3>2
  <2>4. cos[id].ref \in Reached
    BY <2>2, <2>3 DEF Reached, ClosedUnderScan
  <2> QED BY <2>4
<1>4. cos' = [id \in 1 .. Len(cos) |-> IF id \in gone THEN Released ELSE cos[id]]
  BY <1>1 DEF releaseCoroutines
<1>5. gone \in SUBSET (1 .. Len(cos))
  BY <1>1
<1> HIDE DEF gone
<1>6. /\ cos' \in Seq(CoType) /\ Len(cos') = Len(cos)
      /\ \A id \in 1 .. Len(cos) : cos'[id] = IF id \in gone THEN Released ELSE cos[id]
  <2>1. cos' \in [1 .. Len(cos) -> CoType]
    BY <1>1, <1>2, <1>4
  <2> QED BY <1>1, <1>4, <2>1
<1> QED BY <1>1, <1>2, <1>3, <1>5, <1>6 DEF gone

\* Coroutines are collected.
LEMMA CollectControl ==
    ASSUME ControlInv, releaseCoroutines
    PROVE  FramesNow' /\ RaisedFits' /\ RegistryNow' /\ DyingFits'
<1> DEFINE gone == {id \in Ids : cos[id].status # "none" /\ cos[id].ref \notin Reached}
<1>1. /\ UNCHANGED control /\ freeIds' = freeIds \o Ascending(gone)
      /\ \A id \in gone : cos[id].status # "none"
  BY DEF releaseCoroutines
<1>2. /\ cos' \in Seq(CoType) /\ Len(cos) \in Nat /\ Len(cos') = Len(cos)
      /\ gone \in SUBSET (1 .. Len(cos))
      /\ \A id \in 1 .. Len(cos) : cos'[id] = IF id \in gone THEN Released ELSE cos[id]
      /\ \A id \in 1 .. Len(cos) : InUseIn(cos, id) => id \notin gone
      /\ Released.ref = Null /\ Released.status = "none"
  BY CollectedIs
<1> HIDE DEF gone
<1>3. Statuses(cos, threadChain, runningThread) /\ Registered(cos, freeIds)
  BY DEF ControlInv, RegistryNow
<1>4. Keeps(cos, cos')
  <2>1. \A id \in 1 .. Len(cos) : InUseIn(cos, id) => cos'[id] = cos[id]
    BY <1>2
  <2>2. ASSUME NEW id \in 1 .. Len(cos')
        PROVE  /\ InUseIn(cos', id) => id \in 1 .. Len(cos) /\ InUseIn(cos, id)
               /\ cos'[id].status = "suspended" => (cos'[id].started <=> cos'[id].pendingResume)
    <3>1. CASE id \in gone
      BY <1>2, <3>1 DEF InUseIn
    <3>2. CASE id \notin gone
      BY <1>2, <1>3, <3>2 DEF InUseIn, Statuses
    <3> QED BY <3>1, <3>2
  <2>3. Len(cos) <= Len(cos') /\ Len(cos') <= MaxCos
    BY <1>2, <1>3 DEF Statuses
  <2> QED BY <1>2, <2>1, <2>2, <2>3 DEF Keeps
<1>5. /\ Ascending(gone) \in Seq(1 .. Len(cos))
      /\ \A k, l \in 1 .. Len(Ascending(gone)) : Ascending(gone)[k] = Ascending(gone)[l] => k = l
      /\ \A id : id \in gone <=> \E k \in 1 .. Len(Ascending(gone)) : Ascending(gone)[k] = id
  BY <1>2, AscendingIs
<1>6. /\ freeIds \in Seq(1 .. Len(cos))
      /\ \A k, l \in 1 .. Len(freeIds) : freeIds[k] = freeIds[l] => k = l
      /\ \A id \in 1 .. Len(cos) : cos[id].status = "none" <=> \E k \in 1 .. Len(freeIds) : freeIds[k] = id
  BY <1>3 DEF Registered
<1>7. \A k \in 1 .. Len(freeIds), l \in 1 .. Len(Ascending(gone)) : freeIds[k] # Ascending(gone)[l]
  <2> SUFFICES ASSUME NEW k \in 1 .. Len(freeIds), NEW l \in 1 .. Len(Ascending(gone)),
                      freeIds[k] = Ascending(gone)[l]
               PROVE  FALSE
    OBVIOUS
  <2>1. freeIds[k] \in gone /\ freeIds[k] \in 1 .. Len(cos)
    BY <1>5, <1>6
  <2> QED BY <1>1, <1>6, <2>1
<1> DEFINE s == Ascending(gone)
<1> HIDE DEF s
<1>8. /\ freeIds \o s \in Seq(1 .. Len(cos))
      /\ \A k, l \in 1 .. Len(freeIds \o s) : (freeIds \o s)[k] = (freeIds \o s)[l] => k = l
      /\ \A id : (\E k \in 1 .. Len(freeIds \o s) : (freeIds \o s)[k] = id)
                   <=> (\E k \in 1 .. Len(freeIds) : freeIds[k] = id) \/ (\E k \in 1 .. Len(s) : s[k] = id)
  BY <1>2, <1>5, <1>6, <1>7, JoinedLists DEF s
<1>9. Registered(cos', freeIds')
  <2> DEFINE f == freeIds \o s
  <2>1. freeIds' = f
    BY <1>1 DEF s
  <2>2. /\ f \in Seq(1 .. Len(cos')) /\ \A k, l \in 1 .. Len(f) : f[k] = f[l] => k = l
        /\ \A id \in 1 .. Len(cos) : (\E k \in 1 .. Len(f) : f[k] = id) <=> cos[id].status = "none" \/ id \in gone
    BY <1>2, <1>5, <1>6, <1>8 DEF s
  <2> HIDE DEF f
  <2>3. ASSUME NEW id \in 1 .. Len(cos')
        PROVE  /\ cos'[id].status = "none" <=> \E k \in 1 .. Len(f) : f[k] = id
               /\ cos'[id].status = "none" <=> cos'[id].ref = Null
    <3>1. CASE id \in gone
      BY <1>2, <2>2, <3>1
    <3>2. CASE id \notin gone
      BY <1>2, <1>3, <2>2, <3>2 DEF Registered
    <3> QED BY <3>1, <3>2
  <2>4. ASSUME NEW id \in 1 .. Len(cos'), NEW jd \in 1 .. Len(cos'),
               cos'[id].ref = cos'[jd].ref, cos'[id].ref # Null
        PROVE  id = jd
    <3>1. id \notin gone /\ jd \notin gone
      BY <1>2, <2>4
    <3>2. cos'[id] = cos[id] /\ cos'[jd] = cos[jd]
      BY <1>2, <3>1
    <3> QED BY <1>2, <1>3, <2>4, <3>2 DEF Registered
  <2> QED BY <2>1, <2>2, <2>3, <2>4 DEF Registered
<1> QED BY <1>1, <1>4, <1>9, RegistryControl

----------------------------------------------------------------------------
(* Every step keeps the invariant. *)

\* A chunk starts and ends with no coroutine in use.
LEMMA ChunkControl ==
    ASSUME ControlInv, callOnStack \/ EndChunk
    PROVE  /\ RegistryNow' /\ DyingFits'
           /\ threadChain = <<>> /\ UNCHANGED <<threadChain, cos>>
<1>1. FramesNow' /\ UNCHANGED <<threadChain, cos, freeIds>>
  BY ChunkFrames DEF ControlInv, callOnStack, EndChunk, LeaveChunk, registry
<1>2. threadChain = <<>>
  <2>1. CASE callOnStack
    <3>1. activations = <<>>
      BY <2>1 DEF callOnStack
    <3>2. Len(threadChain) = CountAt(activations, 0, {"resume"}) /\ threadChain \in Seq(Int)
      BY <3>1 DEF ControlInv, FramesNow, Frames, Linked
    <3>3. CountAt(activations, 0, {"resume"}) = 0
      BY CountStep
    <3> QED BY <3>2, <3>3
  <2>2. CASE EndChunk
    <3>1. activations # <<>> /\ Top.kind = "chunk" /\ activations' = Below(1)
      BY <2>2 DEF EndChunk, LeaveChunk, Runs, Unwinds, ControlInv, IInv
    <3>2. Frames(activations, protectDepth, catchDepth, errFunc, coDeathDepth,
                 runningThread, threadChain, cos)
      BY DEF ControlInv, FramesNow
    <3> DEFINE a == activations[Len(activations)]
               left == SubSeq(activations, 1, Len(activations) - 1)
    <3>3. a.kind = "chunk" /\ a.kind # "resume" /\ left = activations'
      BY <3>1 DEF Top, Below
    <3>4. left = <<>>
      BY <3>1, <3>2, <3>3, FramesPop
    <3>5. Len(threadChain) = CountAt(activations', Len(activations'), {"resume"}) /\ threadChain \in Seq(Int)
      BY <1>1 DEF FramesNow, Frames, Linked
    <3>6. Len(activations') = 0
      BY <3>3, <3>4
    <3>7. CountAt(activations', 0, {"resume"}) = 0
      BY CountStep
    <3> QED BY <3>5, <3>6, <3>7
  <2> QED BY <2>1, <2>2
<1>3. runningThread \in {NoThread, Main} /\ runningThread' \in {NoThread, Main}
  <2>1. runningThread \in {NoThread, Main}
    BY <1>2 DEF ControlInv, RegistryNow, OneEach
  <2>2. runningThread' \in {NoThread, Main}
    BY DEF callOnStack, EndChunk, LeaveChunk
  <2> QED BY <2>1, <2>2
<1>4. OneEach(threadChain, runningThread', Len(cos))
  BY <1>2, <1>3 DEF ControlInv, RegistryNow, OneEach, NoThread, Main
<1>5. Statuses(cos, threadChain, runningThread')
  <2>1. \A id \in 1 .. Len(cos) : id # runningThread /\ id # runningThread'
    BY <1>3 DEF NoThread, Main
  <2> QED BY <2>1 DEF ControlInv, RegistryNow, Statuses
<1>6. ~ raised'.live
  <2>1. CASE callOnStack
    BY <2>1 DEF callOnStack, ControlInv, IInv
  <2>2. CASE EndChunk
    BY <2>2, ErrorMarks DEF EndChunk, LeaveChunk
  <2> QED BY <2>1, <2>2
<1> QED BY <1>1, <1>2, <1>4, <1>5, <1>6 DEF RegistryNow, DyingFits, ControlInv

\* An error a coroutine dies of starts at a raise point and nowhere else.
LEMMA SnapKept ==
    ASSUME ControlInv,
           \/ CallBack \/ (\E kind \in Catching : ProtectedCall(kind)) \/ ReturnFromCall
           \/ Raise \/ YieldRefused \/ UnwindCall \/ Catch \/ HandlerFails
    PROVE  raised'.live /\ raised'.coSnap => raised.live /\ raised.coSnap
<1>1. raised \in ErrorType
  BY DEF ControlInv, IInv, TypeInv
<1>2. \A x \in ErrorType : runErrFunc(x) => ~ (raised'.live /\ raised'.coSnap)
  BY ErrorMarks DEF runErrFunc
<1>3. badErrFunc(raised) => raised'.live = raised.live /\ raised'.coSnap = raised.coSnap
  BY <1>1, ErrorMarks DEF badErrFunc
<1>4. CASE CallBack
  BY <1>4, ErrorMarks DEF CallBack
<1>5. CASE \E kind \in Catching : ProtectedCall(kind)
  <2>1. PICK kind \in Catching : ProtectedCall(kind)
    BY <1>5
  <2>2. \/ raised' = raised
        \/ raised' = [cCallError(nCcalls + 1) EXCEPT !.point = FALSE]
    BY <2>1 DEF ProtectedCall
  <2> QED BY <2>2, ErrorMarks
<1>6. CASE ReturnFromCall
  <2>1. /\ activations # <<>> /\ Top.kind = "call"
        /\ \/ raised' = raised
           \/ LET a == activations[Len(activations) - 1]
              IN  a.kind = "handler" /\ raised' = a.err
    BY <1>6 DEF ReturnFromCall, Runs
  <2>2. Recorded(activations) /\ Len(activations) \in Nat
    BY FramesFacts DEF ControlInv
  <2>3. Len(activations) \in 1 .. Len(activations)
    BY <2>1, <2>2 DEF Recorded
  <2>4. Len(activations) - 1 # 0
    BY <2>1, <2>2, <2>3 DEF Recorded, Fits, Top
  <2>5. Len(activations) - 1 \in 1 .. Len(activations)
    <3> DEFINE n == Len(activations)
    <3>1. n \in Nat /\ n \in 1 .. n /\ n - 1 # 0
      BY <2>2, <2>3, <2>4
    <3> HIDE DEF n
    <3>2. n - 1 \in 1 .. n
      BY <3>1
    <3> QED BY <3>2 DEF n
  <2> DEFINE k == Len(activations) - 1
  <2>6. Fits(activations, k - 1, activations[k])
    BY <2>2, <2>5 DEF Recorded
  <2>7. activations[k].kind = "handler" => ~ activations[k].err.coSnap
    BY <2>6 DEF Fits
  <2> QED BY <2>1, <2>7
<1>7. CASE Raise \/ YieldRefused
  BY <1>7, ErrorMarks DEF Raise, YieldRefused
<1>8. CASE UnwindCall
  <2> DEFINE b == KindBelow \notin Catching \cup {"handler"}
  <2>1. raised' = [raised EXCEPT !.point = b]
    BY <1>8 DEF UnwindCall
  <2> HIDE DEF b
  <2>2. raised'.live = raised.live /\ raised'.coSnap = raised.coSnap
    BY <1>1, <2>1 DEF ErrorType
  <2> QED BY <2>2
<1>9. CASE Catch
  <2>1. runErrFunc(raised) \/ badErrFunc(raised) \/ raised' = NoError
    BY <1>9 DEF Catch
  <2> QED BY <1>1, <1>2, <1>3, <2>1, ErrorMarks
<1>10. CASE HandlerFails
  <2>1. activations # <<>> /\ Top.kind = "handler" /\ (runErrFunc(raised) \/ raised' = Top.err)
    BY <1>10 DEF HandlerFails, Unwinds, ControlInv, IInv
  <2>2. Recorded(activations) /\ Len(activations) \in 1 .. Len(activations)
    BY <2>1, FramesFacts DEF ControlInv
  <2>3. ~ Top.err.coSnap
    BY <2>1, <2>2 DEF Recorded, Fits, Top
  <2> QED BY <1>1, <1>2, <2>1, <2>3
<1> QED BY <1>4, <1>5, <1>6, <1>7, <1>8, <1>9, <1>10

\* What none of those steps touches.
LEMMA RegistryStays ==
    ASSUME ControlInv, UNCHANGED <<runningThread, threadChain, cos, freeIds>>,
           raised'.live /\ raised'.coSnap => raised.live /\ raised.coSnap
    PROVE  RegistryNow' /\ DyingFits'
  BY DEF ControlInv, RegistryNow, DyingFits, Ids

\* The registry and the stack of activations fit each other after every step.
LEMMA ControlStep == ASSUME ControlInv, [Next]_vars PROVE ControlInv'
<1>1. IInv'
  BY NextInv DEF ControlInv
<1>2. FramesNow' /\ RaisedFits' /\ RegistryNow' /\ DyingFits'
  <2>1. CASE callOnStack \/ EndChunk
    BY <2>1, ChunkControl, ChunkFrames DEF ControlInv
  <2>2. CASE \/ CallBack \/ (\E kind \in Catching : ProtectedCall(kind)) \/ ReturnFromCall
             \/ Raise \/ YieldRefused \/ UnwindCall \/ Catch \/ HandlerFails
    <3>1. FramesNow' /\ RaisedFits'
      <4>1. CASE CallBack
        BY <4>1, CallBackFrames DEF ControlInv
      <4>2. CASE \E kind \in Catching : ProtectedCall(kind)
        BY <4>2, ProtectedCallFrames DEF ControlInv
      <4>3. CASE ReturnFromCall
        BY <4>3, ReturnFrames DEF ControlInv
      <4>4. CASE Raise \/ YieldRefused
        BY <4>4, RaiseFrames DEF ControlInv
      <4>5. CASE UnwindCall
        BY <4>5, UnwindFrames DEF ControlInv
      <4>6. CASE Catch
        BY <4>6, CatchFrames DEF ControlInv
      <4>7. CASE HandlerFails
        BY <4>7, HandlerFailsFrames DEF ControlInv
      <4> QED BY <2>2, <4>1, <4>2, <4>3, <4>4, <4>5, <4>6, <4>7
    <3>2. UNCHANGED <<runningThread, threadChain, cos, freeIds>>
      BY <2>2 DEF CallBack, ProtectedCall, ReturnFromCall, Raise, YieldRefused, UnwindCall,
                  Catch, HandlerFails, registry
    <3> QED BY <2>2, <3>1, <3>2, SnapKept, RegistryStays
  <2>3. CASE atRaisePoint
    BY <2>3, AtRaisePointControl
  <2>4. CASE \E ref \in Refs : NewCoroutine(ref)
    BY <2>4, NewControl
  <2>5. CASE \E ref \in Refs : ResumeRefused(ref)
    BY <2>5, RefusedControl
  <2>6. CASE \E ref \in Refs : Resume(ref)
    BY <2>6, ResumeControl
  <2>7. CASE (\E ref \in Refs : Publish(ref) \/ Forget(ref)) \/ UNCHANGED vars
    <3>1. UNCHANGED <<activations, raised, runningThread, threadChain, protectDepth, catchDepth,
                      errFunc, coDeathDepth, cos, freeIds>>
      BY <2>7 DEF Publish, Forget, vars, control, depths, registry
    <3> QED BY <3>1, RegistryStays DEF ControlInv, FramesNow, RaisedFits
  <2>8. CASE Yield
    BY <2>8, YieldControl
  <2>9. CASE Finish \/ DieByError
    BY <2>9, EndControl
  <2>10. CASE releaseCoroutines
    BY <2>10, CollectControl
  <2> QED BY <2>1, <2>2, <2>3, <2>4, <2>5, <2>6, <2>7, <2>8, <2>9, <2>10 DEF Next
<1> QED BY <1>1, <1>2 DEF ControlInv

\* Nothing runs, and the registry is empty.
LEMMA ControlInit == Init => ControlInv
<1> SUFFICES ASSUME Init PROVE ControlInv
  OBVIOUS
<1>1. /\ activations = <<>> /\ raised = NoError /\ runningThread = NoThread /\ threadChain = <<>>
      /\ cos = <<>> /\ freeIds = <<>>
      /\ protectDepth = 0 /\ catchDepth = 0 /\ coDeathDepth = 0 /\ errFunc = 0
  BY DEF Init
<1>2. /\ HandlerAt(activations, 0) = 0 /\ DeathAt(activations, 0) = 0
      /\ ThreadAt(activations, 0) = NoThread /\ Len(activations) = 0
  BY <1>1, AtNone
<1>3. \A K : CountAt(activations, 0, K) = 0
  BY CountStep
<1>4. FramesNow
  BY <1>1, <1>2, <1>3 DEF FramesNow, Frames, Good, Recorded, InForce, Linked, Owned
<1>5. RaisedFits /\ DyingFits
  BY <1>1, ErrorMarks DEF RaisedFits, ErrorFits, DyingFits
<1>6. RegistryNow
  BY <1>1, LimitsAssumption DEF RegistryNow, OneEach, Statuses, Registered, NoThread
<1> QED BY <1>4, <1>5, <1>6, InitInv DEF ControlInv

\* Activations, depths, chain and registry always fit each other.
LEMMA ControlAlways == Spec => []ControlInv
<1>1. ControlInv /\ [Next]_vars => ControlInv'
  BY ControlStep
<1> QED BY ControlInit, <1>1, PTL DEF Spec

----------------------------------------------------------------------------
(* Coroutine values *)

\* The stacks a collection has to look at: those in use, and those of
\* coroutines that may be resumed.
InSight(th) ==
    \/ th # NoThread /\ (th = runningThread \/ \E k \in 1 .. Len(threadChain) : threadChain[k] = th)
    \/ th \in Ids /\ cos[th].status = "suspended"
Known(ref) == \E id \in Ids : cos[id].ref = ref

ValuesInv ==
    /\ ValuesTyped
    /\ \A ref \in globals : Known(ref)
    /\ \A th \in 0 .. MaxCos : InSight(th) => \A ref \in stacks[th] : Known(ref)

\* A value resolves if some coroutine has the thread object.
LEMMA KnownResolves ==
    ASSUME ControlInv, NEW ref
    PROVE  coOf(ref) # NoCo <=> Known(ref)
<1> DEFINE S == {id \in Ids : cos[id].ref = ref}
<1>1. coOf(ref) = IF S = {} THEN NoCo ELSE CHOOSE id \in S : TRUE
  BY DEF coOf
<1>2. S = {} <=> ~ Known(ref)
  BY DEF Known
<1>3. ASSUME S # {} PROVE (CHOOSE id \in S : TRUE) # NoCo
  <2>1. (CHOOSE id \in S : TRUE) \in S
    BY <1>3
  <2>2. \A id \in S : id # NoCo
    BY DEF Ids, NoCo
  <2> QED BY <2>1, <2>2
<1> QED BY <1>1, <1>2, <1>3

\* Threads in sight are those of the value stacks.
LEMMA SightTyped ==
    ASSUME ControlInv, NEW th, InSight(th)
    PROVE  th \in 0 .. MaxCos
<1>1. /\ Len(cos) \in Nat /\ Len(cos) <= MaxCos /\ Ids = 1 .. Len(cos) /\ MaxCos \in Nat
      /\ OneEach(threadChain, runningThread, Len(cos))
  BY LimitsAssumption DEF ControlInv, RegistryNow, Statuses, Ids
<1>2. th \in {Main} \cup Ids
  <2>1. CASE th = runningThread /\ th # NoThread
    BY <1>1, <2>1 DEF OneEach
  <2>2. ASSUME NEW k \in 1 .. Len(threadChain), threadChain[k] = th PROVE th \in {Main} \cup Ids
    <3>1. CASE k = 1
      BY <1>1, <2>2, <3>1 DEF OneEach
    <3>2. CASE k # 1
      BY <1>1, <2>2, <3>2 DEF OneEach
    <3> QED BY <3>1, <3>2
  <2> QED BY <2>1, <2>2 DEF InSight
<1> QED BY <1>1, <1>2 DEF Main

\* Steps that keep the values, and bring no thread into sight but the main one.
LEMMA ValuesStay ==
    ASSUME ControlInv, ValuesInv, ControlInv', UNCHANGED values,
           Len(cos') = Len(cos), \A id \in Ids : cos'[id].ref = cos[id].ref,
           \A th \in 0 .. MaxCos : InSight(th)' => InSight(th)
    PROVE  ValuesInv'
<1>1. globals' = globals /\ stacks' = stacks
  BY DEF values
<1>2. \A ref : Known(ref) => Known(ref)'
  BY DEF Known, Ids
<1> QED BY <1>1, <1>2 DEF ValuesInv, ValuesTyped

\* Coroutine values stay known in every step.
LEMMA ValuesOfCalls ==
    ASSUME ControlInv, ValuesInv, ControlInv',
           \/ CallBack \/ (\E kind \in Catching : ProtectedCall(kind)) \/ ReturnFromCall
           \/ Raise \/ YieldRefused \/ UnwindCall \/ Catch \/ HandlerFails \/ EndChunk
           \/ atRaisePoint \/ UNCHANGED vars
    PROVE  ValuesInv'
<1>1. /\ UNCHANGED values /\ threadChain' = threadChain
      /\ runningThread' = runningThread \/ runningThread' = NoThread
  BY DEF CallBack, ProtectedCall, ReturnFromCall, Raise, YieldRefused, UnwindCall, Catch,
         HandlerFails, EndChunk, LeaveChunk, atRaisePoint, vars, control
<1>2. /\ Len(cos') = Len(cos)
      /\ \A id \in Ids : cos'[id].ref = cos[id].ref /\ cos'[id].status = cos[id].status
  <2>1. CASE atRaisePoint
    <3>1. cos' = cos \/ cos' = [cos EXCEPT ![findRunningCo].deathLines = TRUE]
      BY <2>1 DEF atRaisePoint
    <3>2. cos \in Seq(CoType)
      BY DEF ControlInv, RegistryNow, Statuses
    <3> DEFINE co == findRunningCo
               c == [cos[co] EXCEPT !.deathLines = TRUE]
    <3>3. CASE cos' # cos /\ co \in 1 .. Len(cos)
      <4>1. cos[co] \in CoType
        BY <3>2, <3>3
      <4>2. c \in CoType /\ c.ref = cos[co].ref /\ c.status = cos[co].status
        <5> DEFINE old == cos[co]
        <5> HIDE DEF old
        <5>1. LET new == [old EXCEPT !.deathLines = TRUE]
              IN  old \in CoType => new \in CoType /\ new.ref = old.ref /\ new.status = old.status
          BY DEF CoType
        <5> QED BY <4>1, <5>1 DEF old
      <4>3. cos' = [cos EXCEPT ![co] = c]
        BY <3>1, <3>3
      <4> HIDE DEF c, co
      <4>4. /\ Len(cos') = Len(cos) /\ cos'[co] = c
            /\ \A jd \in 1 .. Len(cos) : jd # co => cos'[jd] = cos[jd]
        BY <3>2, <3>3, <4>2, <4>3, OneChanged
      <4> QED BY <4>2, <4>4 DEF Ids
    <3>4. CASE cos' # cos /\ co \notin 1 .. Len(cos)
      <4>1. cos' = cos
        BY <3>1, <3>2, <3>4
      <4> QED BY <3>4, <4>1
    <3>5. CASE cos' = cos
      BY <3>5
    <3> QED BY <3>3, <3>4, <3>5
  <2>2. CASE ~ atRaisePoint
    <3>1. cos' = cos
      BY <2>2 DEF CallBack, ProtectedCall, ReturnFromCall, Raise, YieldRefused, UnwindCall,
                  Catch, HandlerFails, EndChunk, LeaveChunk, registry, vars
    <3> QED BY <3>1
  <2> QED BY <2>1, <2>2
<1>3. \A th : InSight(th)' => InSight(th)
  BY <1>1, <1>2 DEF InSight, Ids
<1> QED BY <1>1, <1>2, <1>3, ValuesStay

\* A chunk starts on the main thread, whose old stack is forgotten.
LEMMA ValuesOfChunk ==
    ASSUME ControlInv, ValuesInv, ControlInv', callOnStack
    PROVE  ValuesInv'
<1>1. /\ runningThread' = Main /\ stacks' = [stacks EXCEPT ![Main] = {}]
      /\ UNCHANGED <<threadChain, cos, globals>>
  BY DEF callOnStack, registry
<1>2. stacks \in [0 .. MaxCos -> SUBSET Refs] /\ globals \in SUBSET Refs /\ Main \in 0 .. MaxCos
  BY LimitsAssumption DEF ValuesInv, ValuesTyped, Main
<1>3. /\ stacks' \in [0 .. MaxCos -> SUBSET Refs] /\ stacks'[Main] = {}
      /\ \A th \in 0 .. MaxCos : th # Main => stacks'[th] = stacks[th]
  BY <1>1, <1>2
<1>4. \A ref : Known(ref)' <=> Known(ref)
  BY <1>1 DEF Known, Ids
<1>5. \A th \in 0 .. MaxCos : InSight(th)' => InSight(th) \/ th = Main
  BY <1>1 DEF InSight, Ids
<1> QED BY <1>1, <1>2, <1>3, <1>4, <1>5 DEF ValuesInv, ValuesTyped

\* A coroutine is made, and its value is on the stack of the thread that made it.
LEMMA ValuesOfNew ==
    ASSUME ControlInv, ValuesInv, ControlInv', NEW ref \in Refs, NewCoroutine(ref)
    PROVE  ValuesInv'
<1> DEFINE id == IF freeIds = <<>> THEN Len(cos) + 1 ELSE Last(freeIds)
<1>1. /\ UNCHANGED <<runningThread, threadChain, globals>>
      /\ activations # <<>>
      /\ stacks' = [stacks EXCEPT ![runningThread] = @ \cup {ref}, ![id] = {}]
  BY DEF NewCoroutine, Runs, control
<1>2. /\ cos' \in Seq(CoType) /\ Len(cos') \in Nat /\ Len(cos) \in Nat
      /\ Len(cos) <= Len(cos') /\ Len(cos') <= MaxCos
      /\ id \in 1 .. Len(cos') /\ cos'[id] = Coroutine(ref)
      /\ \A jd \in 1 .. Len(cos') : jd # id => jd \in 1 .. Len(cos) /\ cos'[jd] = cos[jd]
      /\ id \in 1 .. Len(cos) => cos[id].status = "none"
  BY MadeIs
<1> HIDE DEF id
<1>3. /\ id \in 0 .. MaxCos /\ runningThread \in 0 .. MaxCos
      /\ runningThread \in {Main} \cup Ids
  <2>1. runningThread \in {Main} \cup Ids
    BY <1>1, RunningIs
  <2> QED BY <1>2, <2>1, LimitsAssumption DEF Main, Ids
<1>4. stacks \in [0 .. MaxCos -> SUBSET Refs] /\ globals \in SUBSET Refs
  BY DEF ValuesInv, ValuesTyped
<1>5. /\ stacks' \in [0 .. MaxCos -> SUBSET Refs] /\ stacks'[id] = {}
      /\ \A th \in 0 .. MaxCos : th # id =>
            stacks'[th] = IF th = runningThread THEN stacks[th] \cup {ref} ELSE stacks[th]
  BY <1>1, <1>3, <1>4
<1>6. \A r \in Refs : Known(r) => Known(r)'
  <2> SUFFICES ASSUME NEW r \in Refs, NEW jd \in 1 .. Len(cos), cos[jd].ref = r
               PROVE  \E kd \in 1 .. Len(cos') : cos'[kd].ref = r
    BY DEF Known, Ids
  <2>1. cos[jd].status # "none"
    BY NullAssumption DEF ControlInv, RegistryNow, Registered
  <2>2. jd # id /\ jd \in 1 .. Len(cos')
    BY <1>2, <2>1
  <2> QED BY <1>2, <2>2
<1>7. Known(ref)'
  <2>1. cos'[id].ref = ref
    BY <1>2 DEF Coroutine
  <2> QED BY <1>2, <2>1 DEF Known, Ids
<1>8. \A th \in 0 .. MaxCos : InSight(th)' => InSight(th) \/ th = id
  <2> SUFFICES ASSUME NEW th \in 0 .. MaxCos, InSight(th)', th # id PROVE InSight(th)
    OBVIOUS
  <2>1. CASE th \in 1 .. Len(cos') /\ cos'[th].status = "suspended"
    BY <1>2, <2>1 DEF InSight, Ids
  <2>2. CASE ~ (th \in 1 .. Len(cos') /\ cos'[th].status = "suspended")
    BY <1>1, <2>2 DEF InSight, Ids
  <2> QED BY <2>1, <2>2
<1>9. \A th \in 0 .. MaxCos : InSight(th) => \A r \in stacks[th] : r \in Refs /\ Known(r)
  BY <1>4 DEF ValuesInv
<1>10. ASSUME NEW th \in 0 .. MaxCos, InSight(th)', NEW r \in stacks'[th] PROVE Known(r)'
  <2>1. th # id /\ InSight(th)
    BY <1>5, <1>8, <1>10
  <2>2. r \in stacks[th] \/ r = ref
    BY <1>5, <1>10, <2>1
  <2> QED BY <1>6, <1>7, <1>9, <2>1, <2>2
<1>11. \A r \in globals' : Known(r)'
  BY <1>1, <1>4, <1>6 DEF ValuesInv
<1>12. ValuesTyped'
  BY <1>1, <1>4, <1>5 DEF ValuesTyped
<1> QED BY <1>10, <1>11, <1>12 DEF ValuesInv

\* Entering and leaving a coroutine brings no other thread into sight.
LEMMA ValuesOfTransfer ==
    ASSUME ControlInv, ValuesInv, ControlInv',
           \/ \E ref \in Refs : Resume(ref) \/ ResumeRefused(ref)
           \/ Yield \/ Finish \/ DieByError
    PROVE  ValuesInv'
<1>1. NoneSuspended
  BY ResumeControl, RefusedControl, YieldControl, EndControl
<1>2. \A ref : Known(ref) <=> Known(ref)'
  <2>1. Len(cos') = Len(cos) /\ \A id \in 1 .. Len(cos) : cos'[id].ref = cos[id].ref
    BY <1>1 DEF NoneSuspended
  <2> QED BY <2>1 DEF Known, Ids
<1>3. ASSUME NEW th \in Ids', cos'[th].status = "suspended" PROVE InSight(th)
  <2>1. th \in Ids /\ (cos[th].status = "suspended" \/ th = runningThread)
    BY <1>1, <1>3 DEF NoneSuspended, Ids
  <2>2. th # NoThread
    BY <2>1 DEF Ids, NoThread
  <2> QED BY <2>1, <2>2 DEF InSight
<1>4. CASE \E ref \in Refs : Resume(ref)
  <2>1. PICK ref \in Refs : Resume(ref)
    BY <1>4
  <2> DEFINE n == Len(threadChain)
  <2>2. /\ activations # <<>> /\ coOf(ref) # NoCo /\ cos[coOf(ref)].status = "suspended"
        /\ stacks' = [stacks EXCEPT ![runningThread] = @ \cup {ref}]
        /\ threadChain' = Append(threadChain, runningThread) /\ runningThread' = coOf(ref)
        /\ globals' = globals
    BY <2>1 DEF Resume, Runs
  <2>3. /\ coOf(ref) \in Ids /\ Known(ref) /\ runningThread \in {Main} \cup Ids
        /\ stacks \in [0 .. MaxCos -> SUBSET Refs] /\ globals \in SUBSET Refs
    BY <2>2, CoOf, KnownResolves, RunningIs DEF ValuesInv, ValuesTyped
  <2>4. InSight(runningThread) /\ runningThread \in 0 .. MaxCos
    <3>1. InSight(runningThread)
      BY <2>3 DEF InSight, Main, NoThread, Ids
    <3> QED BY <3>1, SightTyped
  <2>5. \A th \in 0 .. MaxCos : InSight(th)' => InSight(th)
    <3> SUFFICES ASSUME NEW th \in 0 .. MaxCos, InSight(th)' PROVE InSight(th)
      OBVIOUS
    <3>1. CASE th = runningThread'
      BY <2>2, <2>3, <3>1 DEF InSight
    <3>2. ASSUME NEW k \in 1 .. Len(threadChain'), threadChain'[k] = th PROVE InSight(th)
      <4>1. threadChain \in Seq(Int) /\ runningThread \in Int
        BY DEF ControlInv, RegistryNow, OneEach
      <4>2. n \in Nat /\ Len(threadChain') = n + 1 /\ threadChain'[n + 1] = runningThread
            /\ \A l \in 1 .. n : threadChain'[l] = threadChain[l]
        BY <2>2, <4>1
      <4>3. CASE k = n + 1
        BY <2>4, <3>2, <4>2, <4>3
      <4>4. CASE k # n + 1
        <5>1. k \in 1 .. n /\ threadChain[k] = th
          BY <3>2, <4>2, <4>4
        <5> QED BY <5>1 DEF InSight, NoThread
      <4> QED BY <4>3, <4>4
    <3>3. CASE th \in Ids' /\ cos'[th].status = "suspended"
      BY <1>3, <3>3
    <3> QED BY <3>1, <3>2, <3>3 DEF InSight
  <2>6. /\ stacks' \in [0 .. MaxCos -> SUBSET Refs]
        /\ \A th \in 0 .. MaxCos :
              stacks'[th] = IF th = runningThread THEN stacks[th] \cup {ref} ELSE stacks[th]
    BY <2>2, <2>3, <2>4
  <2>7. ASSUME NEW th \in 0 .. MaxCos, InSight(th)', NEW r \in stacks'[th] PROVE Known(r)'
    <3>1. r \in stacks[th] \/ r = ref
      BY <2>6, <2>7
    <3> QED BY <1>2, <2>3, <2>5, <2>7, <3>1 DEF ValuesInv
  <2> QED BY <1>2, <2>2, <2>3, <2>6, <2>7 DEF ValuesInv, ValuesTyped
<1>5. CASE \E ref \in Refs : ResumeRefused(ref)
  <2>1. UNCHANGED <<runningThread, threadChain, values>>
    BY <1>5 DEF ResumeRefused, control
  <2>2. \A th : InSight(th)' => InSight(th)
    BY <1>3, <2>1 DEF InSight
  <2> QED BY <1>1, <2>1, <2>2, ValuesStay DEF NoneSuspended, Ids
<1>6. CASE Yield \/ Finish \/ DieByError
  <2>1. PICK left : (Runs \/ Unwinds) /\ LeaveResume(left)
    BY <1>6 DEF Yield, Finish, DieByError
  <2>2. /\ activations # <<>> /\ Top.kind = "resume" /\ UNCHANGED values
        /\ runningThread' = Top.resumerTh /\ threadChain' = Front(threadChain)
    BY <2>1 DEF LeaveResume, Runs, Unwinds, ControlInv, IInv
  <2>3. threadChain # <<>> /\ threadChain[Len(threadChain)] = Top.resumerTh
    <3>1. Frames(activations, protectDepth, catchDepth, errFunc, coDeathDepth,
                 runningThread, threadChain, cos)
      BY DEF ControlInv, FramesNow
    <3>2. KeepsUse(cos, cos, activations[Len(activations)].co)
      BY DEF KeepsUse
    <3>3. activations[Len(activations)].kind = "resume"
      BY <2>2 DEF Top
    <3> QED BY <2>2, <3>1, <3>2, <3>3, FramesLeave DEF Top
  <2> DEFINE n == Len(threadChain) - 1
  <2>4. /\ n \in Nat /\ Len(threadChain) = n + 1 /\ Len(threadChain') = n
        /\ \A k \in 1 .. n : threadChain'[k] = threadChain[k] /\ k \in 1 .. n + 1
        /\ n + 1 \in 1 .. n + 1 /\ threadChain[n + 1] = runningThread'
    <3>1. threadChain \in Seq(Int) /\ n \in Nat /\ Len(threadChain) = n + 1
      BY <2>3 DEF ControlInv, RegistryNow, OneEach
    <3>2. threadChain' = SubSeq(threadChain, 1, n)
      BY <2>2, <3>1 DEF Front
    <3> QED BY <2>2, <2>3, <3>1, <3>2
  <2> HIDE DEF n
  <2>5. \A th : InSight(th)' => InSight(th)
    <3> SUFFICES ASSUME NEW th, InSight(th)' PROVE InSight(th)
      OBVIOUS
    <3>1. CASE th \in Ids' /\ cos'[th].status = "suspended"
      BY <1>3, <3>1
    <3>2. CASE th # NoThread /\ th = runningThread'
      BY <2>4, <3>2 DEF InSight
    <3>3. CASE th # NoThread /\ \E k \in 1 .. Len(threadChain') : threadChain'[k] = th
      BY <2>4, <3>3 DEF InSight
    <3> QED BY <3>1, <3>2, <3>3 DEF InSight
  <2> QED BY <1>1, <2>2, <2>5, ValuesStay DEF NoneSuspended, Ids
<1> QED BY <1>4, <1>5, <1>6

\* A value moves to a global, or is forgotten.
LEMMA ValuesOfMoves ==
    ASSUME ControlInv, ValuesInv, ControlInv', NEW ref \in Refs, Publish(ref) \/ Forget(ref)
    PROVE  ValuesInv'
<1>1. UNCHANGED <<runningThread, threadChain, cos>> /\ activations # <<>>
  BY DEF Publish, Forget, Runs, control, registry
<1>2. \A r : Known(r) <=> Known(r)'
  BY <1>1 DEF Known, Ids
<1>3. \A th : InSight(th)' <=> InSight(th)
  BY <1>1 DEF InSight, Ids
<1>4. InSight(runningThread) /\ runningThread \in 0 .. MaxCos
  <2>1. runningThread \in {Main} \cup Ids
    BY <1>1, RunningIs
  <2>2. InSight(runningThread)
    BY <2>1 DEF InSight, Main, NoThread, Ids
  <2> QED BY <2>2, SightTyped
<1>5. CASE Publish(ref)
  <2>1. ref \in stacks[runningThread] /\ globals' = globals \cup {ref} /\ stacks' = stacks
    BY <1>5 DEF Publish
  <2>2. Known(ref)
    BY <1>4, <2>1 DEF ValuesInv
  <2> QED BY <1>2, <1>3, <2>1, <2>2 DEF ValuesInv, ValuesTyped
<1>6. CASE Forget(ref)
  <2>1. \/ globals' = globals \ {ref} /\ stacks' = stacks
        \/ stacks' = [stacks EXCEPT ![runningThread] = @ \ {ref}] /\ globals' = globals
    BY <1>6 DEF Forget
  <2>2. stacks \in [0 .. MaxCos -> SUBSET Refs] /\ globals \in SUBSET Refs
    BY DEF ValuesInv, ValuesTyped
  <2>3. /\ stacks' \in [0 .. MaxCos -> SUBSET Refs] /\ globals' \in SUBSET Refs /\ globals' \subseteq globals
        /\ \A th \in 0 .. MaxCos : stacks'[th] \subseteq stacks[th]
    BY <1>4, <2>1, <2>2
  <2> QED BY <1>2, <1>3, <2>3 DEF ValuesInv, ValuesTyped
<1> QED BY <1>5, <1>6

\* A collection keeps what a stack in sight holds.
LEMMA ValuesOfCollection ==
    ASSUME ControlInv, ValuesInv, ControlInv', releaseCoroutines
    PROVE  ValuesInv'
<1> DEFINE gone == {id \in Ids : cos[id].status # "none" /\ cos[id].ref \notin Reached}
<1>1. /\ UNCHANGED <<runningThread, threadChain, globals>>
      /\ stacks' = [th \in DOMAIN stacks |-> IF th \in gone THEN {} ELSE stacks[th]]
  BY DEF releaseCoroutines, control
<1>2. /\ Len(cos) \in Nat /\ Len(cos') = Len(cos) /\ gone \in SUBSET (1 .. Len(cos))
      /\ \A id \in 1 .. Len(cos) : cos'[id] = IF id \in gone THEN Released ELSE cos[id]
      /\ Released.ref = Null /\ Released.status = "none"
      /\ \A id \in 1 .. Len(cos) : InUseIn(cos, id) => id \notin gone
  BY CollectedIs
<1>3. \A id \in gone : cos[id].ref \notin Reached
  OBVIOUS
<1>4. \A id \in 1 .. Len(cos) : cos[id].status # "none" /\ id \notin gone => cos[id].ref \in Reached
  BY DEF Ids
<1> HIDE DEF gone
<1>5. stacks \in [0 .. MaxCos -> SUBSET Refs] /\ globals \in SUBSET Refs
  BY DEF ValuesInv, ValuesTyped
<1>6. /\ stacks' \in [0 .. MaxCos -> SUBSET Refs]
      /\ \A th \in 0 .. MaxCos : stacks'[th] = IF th \in gone THEN {} ELSE stacks[th]
  BY <1>1, <1>5
<1>7. \A ref \in Reached : Known(ref) => Known(ref)'
  <2> SUFFICES ASSUME NEW ref \in Reached, NEW id \in 1 .. Len(cos), cos[id].ref = ref
               PROVE  \E jd \in 1 .. Len(cos') : cos'[jd].ref = ref
    BY DEF Known, Ids
  <2>1. id \notin gone
    BY <1>3
  <2> QED BY <1>2, <2>1
<1>8. globals \subseteq Reached
  <2>1. globals \subseteq Roots
    BY DEF Roots
  <2> QED BY <1>5, <2>1 DEF Reached, ClosedUnderScan
<1>9. ASSUME NEW th \in 0 .. MaxCos, InSight(th), th \notin gone PROVE stacks[th] \subseteq Reached
  <2>1. CASE th \in Ids /\ cos[th].status = "suspended"
    <3>1. cos[th].ref \in Reached
      BY <1>4, <1>9, <2>1 DEF Ids
    <3>2. ASSUME NEW S \in SUBSET Refs, ClosedUnderScan(S) PROVE stacks[th] \subseteq S
      <4>1. cos[th].ref \in S
        BY <3>1, <3>2 DEF Reached
      <4>2. th \in Scanned(S)
        BY <2>1, <4>1 DEF Scanned
      <4> QED BY <3>2, <4>2 DEF ClosedUnderScan
    <3> QED BY <1>5, <3>2 DEF Reached
  <2>2. CASE th # NoThread /\ (th = runningThread \/ \E k \in 1 .. Len(threadChain) : threadChain[k] = th)
    <3>1. th \in RootThreads \ {NoThread}
      <4>1. DOMAIN threadChain = 1 .. Len(threadChain)
        BY DEF ControlInv, RegistryNow, OneEach
      <4> QED BY <2>2, <4>1 DEF RootThreads
    <3> DEFINE U == UNION {stacks[t] : t \in RootThreads \ {NoThread}}
    <3>2. stacks[th] \subseteq U
      BY <3>1
    <3>3. U \subseteq Roots
      BY DEF Roots
    <3> HIDE DEF U
    <3>4. stacks[th] \subseteq Roots /\ stacks[th] \subseteq Refs
      BY <1>5, <3>2, <3>3
    <3> QED BY <3>4 DEF Reached, ClosedUnderScan
  <2> QED BY <1>9, <2>1, <2>2 DEF InSight
<1>10. \A th \in 0 .. MaxCos : InSight(th)' => InSight(th)
  <2> SUFFICES ASSUME NEW th \in 0 .. MaxCos, InSight(th)' PROVE InSight(th)
    OBVIOUS
  <2>1. CASE th \in 1 .. Len(cos') /\ cos'[th].status = "suspended"
    BY <1>2, <2>1 DEF InSight, Ids
  <2>2. CASE ~ (th \in 1 .. Len(cos') /\ cos'[th].status = "suspended")
    BY <1>1, <2>2 DEF InSight, Ids
  <2> QED BY <2>1, <2>2
<1>11. ASSUME NEW th \in 0 .. MaxCos, InSight(th)', NEW r \in stacks'[th] PROVE Known(r)'
  <2>1. th \notin gone /\ r \in stacks[th]
    BY <1>6, <1>11
  <2>2. r \in Reached /\ Known(r)
    BY <1>9, <1>10, <1>11, <2>1 DEF ValuesInv
  <2> QED BY <1>7, <2>2
<1>12. \A r \in globals' : Known(r)'
  BY <1>1, <1>7, <1>8 DEF ValuesInv
<1> QED BY <1>1, <1>5, <1>6, <1>11, <1>12 DEF ValuesInv, ValuesTyped

\* Coroutine values stay known in every step.
LEMMA ValuesStep == ASSUME ControlInv, ValuesInv, [Next]_vars PROVE ValuesInv'
<1>1. ControlInv'
  BY ControlStep
<1> QED BY <1>1, ValuesOfCalls, ValuesOfChunk, ValuesOfNew, ValuesOfTransfer, ValuesOfMoves,
           ValuesOfCollection DEF Next

\* Coroutine values are always known.
LEMMA ValuesAlways == Spec => [](ControlInv /\ ValuesInv)
<1>1. Init => ValuesInv
  BY LimitsAssumption DEF Init, ValuesInv, ValuesTyped
<1>2. ControlInv /\ ValuesInv /\ [Next]_vars => ControlInv' /\ ValuesInv'
  BY ControlStep, ValuesStep
<1> QED BY ControlInit, <1>1, <1>2, PTL DEF Spec

----------------------------------------------------------------------------
(* The theorems *)

\* Reading the activations the way the properties do.
LEMMA InnermostIs ==
    ASSUME activations \in Seq(ActivationType), NEW K
    PROVE  /\ Innermost(K) = Inner(activations, Len(activations), K)
           /\ Cardinality(Where(K)) = CountAt(activations, Len(activations), K)
<1> DEFINE n == Len(activations)
           k == Inner(activations, n, K)
<1>1. n \in Nat /\ DOMAIN activations = 1 .. n
  OBVIOUS
<1>2. Latest(activations, n, K, k)
  BY <1>1, InnerIs
<1>3. Where(K) = {i \in 1 .. n : activations[i].kind \in K}
  BY <1>1 DEF Where
<1> HIDE DEF k, n
<1>4. CASE k = 0
  <2>1. Where(K) = {}
    BY <1>1, <1>2, <1>3, <1>4 DEF Latest
  <2>2. Innermost(K) = 0
    BY <2>1 DEF Innermost
  <2> QED BY <1>3, <1>4, <2>2 DEF CountAt, k, n
<1>5. CASE k # 0
  <2>1. k \in Where(K) /\ \A j \in Where(K) : j <= k
    BY <1>1, <1>2, <1>3, <1>5 DEF Latest
  <2>2. ASSUME NEW i \in Where(K), \A j \in Where(K) : j <= i PROVE i = k
    <3>1. i \in Int /\ k \in Int /\ k <= i /\ i <= k
      BY <1>1, <1>3, <2>1, <2>2
    <3> QED BY <3>1
  <2>3. Innermost(K) = CHOOSE i \in Where(K) : \A j \in Where(K) : j <= i
    BY <2>1 DEF Innermost
  <2>4. Innermost(K) = k
    BY <2>1, <2>2, <2>3
  <2> QED BY <1>3, <2>4 DEF CountAt, k, n
<1> QED BY <1>4, <1>5

\* There is one running coroutine, and it owns the running thread; the others
\* in use wait on the chain; one that is suspended has a yield point to go on
\* from once it is started; an id is free exactly while no coroutine has it
\* (Resume, Yield, NewCoroutine, releaseCoroutines).
THEOREM StatusesAlwaysMatch == Spec => []StatusesMatchChain
<1>1. ControlInv => StatusesMatchChain
  <2> SUFFICES ASSUME ControlInv PROVE StatusesMatchChain
    OBVIOUS
  <2>1. DOMAIN threadChain = 1 .. Len(threadChain) /\ DOMAIN freeIds = 1 .. Len(freeIds)
    BY DEF ControlInv, RegistryNow, OneEach, Registered
  <2>2. SUFFICES ASSUME NEW id \in Ids
                 PROVE  /\ cos[id].status = "running" <=> id = runningThread
                        /\ cos[id].status = "normal" <=> \E i \in DOMAIN threadChain : threadChain[i] = id
                        /\ cos[id].status = "suspended" => (cos[id].started <=> cos[id].pendingResume)
                        /\ cos[id].status = "none" <=> \E i \in DOMAIN freeIds : freeIds[i] = id
    BY DEF StatusesMatchChain
  <2>3. id \in 1 .. Len(cos) /\ Statuses(cos, threadChain, runningThread) /\ Registered(cos, freeIds)
    BY <2>2 DEF ControlInv, RegistryNow, Ids
  <2>4. /\ cos[id].status = "running" <=> id = runningThread
        /\ cos[id].status = "suspended" => (cos[id].started <=> cos[id].pendingResume)
    BY <2>3 DEF Statuses
  <2>5. cos[id].status = "normal" <=> \E i \in DOMAIN threadChain : threadChain[i] = id
    BY <2>1, <2>3 DEF Statuses
  <2>6. cos[id].status = "none" <=> \E i \in DOMAIN freeIds : freeIds[i] = id
    BY <2>1, <2>3 DEF Registered
  <2> QED BY <2>4, <2>5, <2>6
<1> QED BY ControlAlways, <1>1, PTL

\* The count of C calls, by kinds of activations.
LEMMA CountsByKind ==
    ASSUME IInv
    PROVE  nCcalls = Cardinality(Where({"chunk", "call", "resume"}))
                       + Cardinality({i \in Where({"handler"}) : activations[i].err.cOverflow})
<1> DEFINE n == Len(activations)
           A == {i \in 1 .. n : activations[i].kind \in {"chunk", "call", "resume"}}
           B == {i \in 1 .. n : activations[i].kind = "handler" /\ activations[i].err.cOverflow}
<1>1. n \in Nat /\ DOMAIN activations = 1 .. n
  BY DEF IInv, StackInv
<1>2. nCcalls = Cardinality({i \in 1 .. n : Counts(activations[i])})
  BY ChainedCount DEF IInv
<1>3. {i \in 1 .. n : Counts(activations[i])} = A \cup B /\ A \cap B = {}
  BY DEF Counts
<1>4. Where({"chunk", "call", "resume"}) = A /\ {i \in Where({"handler"}) : activations[i].err.cOverflow} = B
  BY <1>1 DEF Where
<1>5. IsFiniteSet(A) /\ IsFiniteSet(B)
  <2>1. IsFiniteSet(1 .. n)
    BY <1>1, FS_Interval
  <2>2. A \in SUBSET (1 .. n) /\ B \in SUBSET (1 .. n)
    OBVIOUS
  <2> HIDE DEF A, B
  <2> QED BY <2>1, <2>2, FS_Subset
<1> HIDE DEF A, B
<1>6. Cardinality(A \cup B) = Cardinality(A) + Cardinality(B) - Cardinality(A \cap B)
  BY <1>5, FS_Union
<1>7. Cardinality(A) \in Nat /\ Cardinality(B) \in Nat /\ Cardinality(A \cap B) = 0
  <2>1. Cardinality(A) \in Nat /\ Cardinality(B) \in Nat
    BY <1>5, FS_CardinalityType
  <2>2. Cardinality(A \cap B) = 0
    BY <1>3, FS_EmptySet
  <2> QED BY <2>1, <2>2
<1>8. nCcalls = Cardinality(A) + Cardinality(B)
  <2>1. nCcalls = Cardinality(A \cup B)
    BY <1>2, <1>3
  <2> QED BY <1>6, <1>7, <2>1
<1> QED BY <1>4, <1>8

\* However calls end, the depths and the handler in force are those of the
\* activations left: no exit forgets a decrement or puts back the wrong handler
\* (the deferred functions of Resume and ProtectedCall, runErrFunc).
THEOREM DepthsAlwaysMatch == Spec => []DepthsMatchActivations
<1>1. ControlInv => DepthsMatchActivations
  <2> SUFFICES ASSUME ControlInv PROVE DepthsMatchActivations
    OBVIOUS
  <2> DEFINE n == Len(activations)
             r == Inner(activations, n, {"resume"})
  <2>1. /\ activations \in Seq(ActivationType) /\ n \in Nat /\ DOMAIN activations = 1 .. n
        /\ InForce(activations, protectDepth, catchDepth, errFunc, coDeathDepth)
    BY FramesFacts DEF ControlInv
  <2>2. \A K : Innermost(K) = Inner(activations, n, K) /\ Cardinality(Where(K)) = CountAt(activations, n, K)
    BY <2>1, InnermostIs
  <2>3. nCcalls = Cardinality(Where({"chunk", "call", "resume"}))
                    + Cardinality({i \in Where({"handler"}) : activations[i].err.cOverflow})
    BY CountsByKind DEF ControlInv
  <2>4. protectDepth = Cardinality(Where({"pcall", "xpcall", "resume"}))
    BY <2>1, <2>2 DEF InForce, Boundary
  <2>5. catchDepth = Cardinality(Where(Catching \cup {"resume"}))
    BY <2>1, <2>2 DEF InForce, Caught
  <2>6. errFunc = LET boundary == Innermost({"pcall", "xpcall", "resume"})
                  IN  IF boundary # 0 /\ activations[boundary].kind = "xpcall" THEN boundary ELSE 0
    BY <2>1, <2>2 DEF InForce, HandlerAt, Boundary
  <2>7. coDeathDepth = LET resume == Innermost({"resume"})
                       IN  IF resume = 0 THEN 0
                           ELSE Cardinality({i \in Where(Catching \cup {"resume"}) : i <= resume})
    <3>1. Innermost({"resume"}) = r
      BY <2>2
    <3>2. r \in 0 .. n
      BY <2>1, InnerStep
    <3>3. coDeathDepth = IF r = 0 THEN 0 ELSE CountAt(activations, r, Caught)
      BY <2>1 DEF InForce, DeathAt
    <3> HIDE DEF r
    <3>4. {i \in 1 .. r : activations[i].kind \in Caught} = {i \in Where(Catching \cup {"resume"}) : i <= r}
      BY <2>1, <3>2 DEF Where, Caught
    <3> QED BY <3>1, <3>3, <3>4 DEF CountAt
  <2> QED BY <2>3, <2>4, <2>5, <2>6, <2>7 DEF DepthsMatchActivations
<1> QED BY ControlAlways, <1>1, PTL

\* Counting C calls is a right test for yields: one is let through exactly
\* when nothing but the interpreter loop of the coroutine's own resume would be
\* unwound (baseCcalls, Yield).
THEOREM YieldsAlwaysToResume == Spec => []YieldsOnlyToResume
<1>1. ControlInv => YieldsOnlyToResume
  <2> SUFFICES ASSUME ControlInv, Runs
               PROVE  CanYield <=> Top.kind = "resume" /\ Top.co = findRunningCo
    BY DEF YieldsOnlyToResume
  <2> DEFINE n == Len(activations)
             r == Inner(activations, n, {"resume"})
  <2>1. activations # <<>> /\ ~ raised.live
    BY DEF Runs
  <2>2. /\ activations \in Seq(ActivationType) /\ n \in Nat \ {0} /\ Recorded(activations)
        /\ runningThread = ThreadAt(activations, n) /\ Top = activations[n]
        /\ StackInv(activations, nCcalls) /\ nCcalls = After(Top)
    BY <2>1, FramesFacts, TopFacts DEF ControlInv, IInv, Top
  <2>3. findRunningCo = IF runningThread > Main THEN runningThread ELSE NoCo
    BY RunningIs
  <2>4. CASE Top.kind = "resume"
    <3>1. /\ Top.co = runningThread /\ findRunningCo = runningThread /\ runningThread \in Ids
          /\ cos[runningThread].baseCcalls = Top.outerC + 1
      BY <2>1, <2>4, ResumeOnTop
    <3>2. nCcalls = Top.outerC + 1 /\ Top.outerC \in Nat
      BY <2>1, <2>2, <2>4, TopFacts DEF After, Counts, ControlInv
    <3>3. runningThread # NoCo
      BY <3>1 DEF Ids, NoCo
    <3> QED BY <2>4, <3>1, <3>2, <3>3 DEF CanYield
  <2>5. CASE Top.kind # "resume"
    <3> SUFFICES ASSUME CanYield PROVE FALSE
      BY <2>5
    <3>1. findRunningCo # NoCo /\ nCcalls <= cos[findRunningCo].baseCcalls
      BY DEF CanYield
    <3>2. findRunningCo = runningThread /\ runningThread > Main
      BY <2>3, <3>1
    <3>3. Latest(activations, n, {"resume"}, r)
      BY <2>2, InnerIs
    <3>4. r # 0
      BY <2>2, <3>2 DEF ThreadAt, Main, NoThread
    <3>5. r \in 1 .. n /\ activations[r].kind = "resume" /\ r # n /\ r \in 0 .. n
      BY <2>2, <2>5, <3>3, <3>4 DEF Latest
    <3>6. activations[r].co = runningThread
      BY <2>2, <3>4 DEF ThreadAt
    <3> HIDE DEF r
    <3>7. cos[runningThread].baseCcalls = activations[r].outerC + 1
      BY <3>5, <3>6 DEF ControlInv, FramesNow, Frames, Owned
    <3>8. Top.kind \in LuaKinds /\ Top.kind # "chunk"
      <4>1. Top.kind \in LuaKinds
        BY <2>1, <2>2 DEF ControlInv, RaisedFits, ErrorFits
      <4>2. Fits(activations, n - 1, activations[n])
        BY <2>2 DEF Recorded
      <4>3. n - 1 # 0
        BY <2>2, <3>5
      <4> QED BY <2>2, <4>1, <4>2, <4>3 DEF Fits
    <3>9. Top.kind = "call"
      BY <2>5, <3>8 DEF LuaKinds
    <3>10. After(activations[r]) <= Top.outerC
      <4>1. \A i \in r + 1 .. Len(activations) : After(activations[r]) <= activations[i].outerC
        BY <2>2, <3>5, ChainedGrows
      <4>2. n \in r + 1 .. Len(activations)
        BY <2>2, <3>5
      <4> QED BY <2>2, <4>1, <4>2
    <3>11. After(activations[r]) = activations[r].outerC + 1 /\ nCcalls = Top.outerC + 1
      BY <2>2, <3>5, <3>9 DEF After, Counts
    <3>12. activations[r] \in ActivationType /\ Top \in ActivationType
      BY <2>2, <3>5
    <3>13. activations[r].outerC \in Nat /\ Top.outerC \in Nat
      BY <3>12, AfterType
    <3> QED BY <3>1, <3>2, <3>7, <3>10, <3>11, <3>13
  <2> QED BY <2>4, <2>5
<1> QED BY ControlAlways, <1>1, PTL

\* The stack kept for debug.traceback(co) is kept for the error the coroutine
\* dies of, and for no error something inside still catches (coDeathDepth).
THEOREM DeathLinesAlwaysKept == Spec => []DeathLinesKept
<1>1. ControlInv => DeathLinesKept
  <2> SUFFICES ASSUME ControlInv PROVE DeathLinesKept
    OBVIOUS
  <2>1. activations \in Seq(ActivationType)
    BY FramesFacts DEF ControlInv
  <2>2. \A K : Innermost(K) = Inner(activations, Len(activations), K)
    BY <2>1, InnermostIs
  <2>3. raised.live /\ raised.coSnap => Innermost(Catching) < Innermost({"resume"})
    BY <2>2 DEF ControlInv, RaisedFits, ErrorFits, Doomed
  <2>4. ASSUME Unwinds, Top.kind = "resume" PROVE cos[Top.co].deathLines
    <3>1. activations # <<>> /\ raised.live /\ ~ raised.point
      BY <2>4 DEF Unwinds, ControlInv, IInv
    <3>2. Top.co = runningThread /\ Doomed(activations, Len(activations))
      BY <2>4, <3>1, ResumeOnTop
    <3>3. raised.coSnap
      BY <3>1, <3>2 DEF ControlInv, RaisedFits, ErrorFits
    <3> QED BY <3>1, <3>2, <3>3 DEF ControlInv, DyingFits
  <2> QED BY <2>3, <2>4 DEF DeathLinesKept
<1> QED BY ControlAlways, <1>1, PTL

\* Every coroutine value Lua code can still get at names its own coroutine: no
\* stack in use is skipped by a collection (visitExtraValues, scanCoroutine).
THEOREM HandlesAlwaysResolve == Spec => []HandlesResolve
<1>1. ControlInv /\ ValuesInv => HandlesResolve
  <2> SUFFICES ASSUME ControlInv, ValuesInv,
                      NEW ref \in globals \cup (UNION {stacks[th] : th \in RootThreads \ {NoThread}})
                             \cup (UNION {stacks[id] : id \in {i \in Ids : cos[i].status = "suspended"}})
               PROVE  coOf(ref) # NoCo
    BY DEF HandlesResolve
  <2>1. CASE ref \in globals
    BY <2>1, KnownResolves DEF ValuesInv
  <2>2. ASSUME NEW th \in RootThreads \ {NoThread}, ref \in stacks[th] PROVE coOf(ref) # NoCo
    <3>1. DOMAIN threadChain = 1 .. Len(threadChain)
      BY DEF ControlInv, RegistryNow, OneEach
    <3>2. InSight(th)
      BY <2>2, <3>1 DEF InSight, RootThreads
    <3> QED BY <2>2, <3>2, SightTyped, KnownResolves DEF ValuesInv
  <2>3. ASSUME NEW id \in Ids, cos[id].status = "suspended", ref \in stacks[id] PROVE coOf(ref) # NoCo
    <3>1. InSight(id)
      BY <2>3 DEF InSight
    <3> QED BY <2>3, <3>1, SightTyped, KnownResolves DEF ValuesInv
  <2> QED BY <2>1, <2>2, <2>3
<1> QED BY ValuesAlways, <1>1, PTL

----------------------------------------------------------------------------
(* Coroutines keep the promise of ControlTransfer. *)

Waiting == {id \in Ids : cos[id].status = "suspended"}
Ended == {id \in Ids : cos[id].status = "dead"}

\* What the variables of ControlTransfer stand for.
LEMMA PromisedVars == Promised!vars = <<InUse, Waiting, Ended>>
  BY DEF Promised!vars, Waiting, Ended

\* A coroutine that takes a status enters and leaves these sets alone.
LEMMA SetsMove ==
    ASSUME NEW id, NEW status, Becomes(id, status)
    PROVE  /\ id \in Ids
           /\ Waiting' = IF status = "suspended" THEN Waiting \cup {id} ELSE Waiting \ {id}
           /\ Ended' = IF status = "dead" THEN Ended \cup {id} ELSE Ended \ {id}
<1>1. /\ id \in Ids /\ Ids' = Ids /\ cos'[id].status = status
      /\ \A jd \in Ids : jd # id =>
            /\ cos'[jd].status = "suspended" <=> cos[jd].status = "suspended"
            /\ cos'[jd].status = "dead" <=> cos[jd].status = "dead"
  BY DEF Becomes, Ids
<1>2. Waiting' = {jd \in Ids : cos'[jd].status = "suspended"} /\ Ended' = {jd \in Ids : cos'[jd].status = "dead"}
  BY <1>1 DEF Waiting, Ended
<1>3. Waiting' = IF status = "suspended" THEN Waiting \cup {id} ELSE Waiting \ {id}
  <2>1. CASE status = "suspended"
    BY <1>1, <1>2, <2>1 DEF Waiting
  <2>2. CASE status # "suspended"
    BY <1>1, <1>2, <2>2 DEF Waiting
  <2> QED BY <2>1, <2>2
<1>4. Ended' = IF status = "dead" THEN Ended \cup {id} ELSE Ended \ {id}
  <2>1. CASE status = "dead"
    BY <1>1, <1>2, <2>1 DEF Ended
  <2>2. CASE status # "dead"
    BY <1>1, <1>2, <2>2 DEF Ended
  <2> QED BY <2>1, <2>2
<1> QED BY <1>1, <1>3, <1>4

\* A thread goes on the chain, or the last one comes off it.
LEMMA ChainMoves ==
    ASSUME NEW chain \in Seq(Int), NEW th \in Int, NEW id \in Int
    PROVE  /\ Tail(Append(Append(chain, th), id)) = Append(Tail(Append(chain, th)), id)
           /\ chain # <<>> => LET used == Tail(Append(chain, th))
                              IN  /\ used # <<>> /\ used[Len(used)] = th
                                  /\ SubSeq(used, 1, Len(used) - 1) = Tail(chain)
                                  /\ Tail(Append(Front(chain), Last(chain))) = Tail(chain)
<1>1. Tail(Append(Append(chain, th), id)) = Append(Tail(Append(chain, th)), id)
  OBVIOUS
<1>2. ASSUME chain # <<>>
      PROVE  LET used == Tail(Append(chain, th))
             IN  /\ used # <<>> /\ used[Len(used)] = th
                 /\ SubSeq(used, 1, Len(used) - 1) = Tail(chain)
                 /\ Tail(Append(Front(chain), Last(chain))) = Tail(chain)
  <2> DEFINE used == Tail(Append(chain, th))
  <2>1. used = Append(Tail(chain), th) /\ Tail(chain) \in Seq(Int)
    BY <1>2
  <2>2. Append(Front(chain), Last(chain)) = chain
    BY <1>2 DEF Front, Last
  <2> HIDE DEF used
  <2>3. used # <<>> /\ used[Len(used)] = th /\ SubSeq(used, 1, Len(used) - 1) = Tail(chain)
    BY <2>1
  <2> QED BY <2>2, <2>3 DEF used
<1> QED BY <1>1, <1>2

\* The first thread is not a coroutine, whether it is running or not.
LEMMA NobodyOnAnEmptyChain == ASSUME NEW th PROVE Tail(Append(<<>>, th)) = <<>>
  OBVIOUS

\* A resume enters the chain.
LEMMA ResumePromise ==
    ASSUME ControlInv, NEW ref \in Refs, Resume(ref)
    PROVE  \E c \in 1 .. MaxCos : Promised!Enter(c)
<1> DEFINE id == coOf(ref)
<1>1. Becomes(id, "running")
  BY ResumeControl
<1>2. id \in Ids /\ Waiting' = Waiting \ {id} /\ Ended' = Ended \ {id}
  BY <1>1, SetsMove
<1>3. cos[id].status = "suspended" /\ threadChain' = Append(threadChain, runningThread) /\ runningThread' = id
  BY DEF Resume
<1>4. id \in Waiting /\ id \notin Ended
  BY <1>2, <1>3 DEF Waiting, Ended
<1>5. id \in 1 .. MaxCos /\ threadChain \in Seq(Int) /\ runningThread \in Int
  BY <1>2, LimitsAssumption DEF ControlInv, RegistryNow, OneEach, Statuses, Ids
<1> HIDE DEF id
<1>6. InUse' = Append(InUse, id)
  <2>1. /\ InUse = Tail(Append(threadChain, runningThread))
        /\ InUse' = Tail(Append(Append(threadChain, runningThread), id))
    BY <1>3 DEF InUse
  <2>2. id \in Int
    BY <1>5, LimitsAssumption
  <2>3. Tail(Append(Append(threadChain, runningThread), id))
          = Append(Tail(Append(threadChain, runningThread)), id)
    BY <1>5, <2>2, ChainMoves, Zenon
  <2> QED BY <2>1, <2>3
<1>7. ASSUME NEW c \in 1 .. MaxCos, c = id PROVE Promised!Enter(c)
  BY <1>7, <1>2, <1>4, <1>6 DEF Promised!Enter, Waiting, Ended
<1> QED BY <1>5, <1>7

\* A yield, an end and an error leave it.
LEMMA LeavePromise ==
    ASSUME ControlInv, Yield \/ Finish \/ DieByError
    PROVE  Promised!Suspend \/ Promised!Die
<1> DEFINE th == runningThread
           status == IF Yield THEN "suspended" ELSE "dead"
<1>1. Becomes(th, status) /\ threadChain # <<>> /\ Last(threadChain) = runningThread'
  BY YieldControl, EndControl
<1>2. status \in {"suspended", "dead"}
  OBVIOUS
<1>3. threadChain' = Front(threadChain)
  BY DEF Yield, Finish, DieByError, LeaveResume
<1>4. threadChain \in Seq(Int) /\ th \in Int /\ \A id \in Ids : cos[id].status = "running" <=> id = th
  BY DEF ControlInv, RegistryNow, OneEach, Statuses, Ids
<1> HIDE DEF th, status
<1>5. /\ th \in Ids
      /\ Waiting' = IF status = "suspended" THEN Waiting \cup {th} ELSE Waiting \ {th}
      /\ Ended' = IF status = "dead" THEN Ended \cup {th} ELSE Ended \ {th}
  BY <1>1, SetsMove
<1>6. th \notin Waiting /\ th \notin Ended
  BY <1>4, <1>5 DEF Waiting, Ended
<1>7. InUse # <<>> /\ InUse[Len(InUse)] = th /\ InUse' = SubSeq(InUse, 1, Len(InUse) - 1)
  <2>1. InUse = Tail(Append(threadChain, th)) /\ InUse' = Tail(Append(Front(threadChain), Last(threadChain)))
    BY <1>1, <1>3 DEF InUse, th
  <2> QED BY <1>1, <1>4, <2>1, ChainMoves
<1>8. CASE status = "suspended"
  <2>1. Waiting' = Waiting \cup {th} /\ Ended' = Ended
    BY <1>5, <1>6, <1>8
  <2>2. Promised!Suspend
    BY <1>7, <2>1 DEF Promised!Suspend, Promised!Left, Promised!Current, Waiting, Ended
  <2> QED BY <2>2
<1>9. CASE status = "dead"
  <2>1. Ended' = Ended \cup {th} /\ Waiting' = Waiting
    BY <1>5, <1>6, <1>9
  <2>2. Promised!Die
    BY <1>7, <2>1 DEF Promised!Die, Promised!Left, Promised!Current, Waiting, Ended
  <2> QED BY <2>2
<1> QED BY <1>2, <1>8, <1>9

\* A coroutine that is refused its first resume, made, or collected does not
\* disturb the chain.
LEMMA RefusedPromise ==
    ASSUME ControlInv, NEW ref \in Refs, ResumeRefused(ref)
    PROVE  \E c \in 1 .. MaxCos : Promised!Refuse(c)
<1> DEFINE id == coOf(ref)
<1>1. Becomes(id, "dead")
  BY RefusedControl
<1>2. id \in Ids /\ Waiting' = Waiting \ {id} /\ Ended' = Ended \cup {id}
  BY <1>1, SetsMove
<1>3. cos[id].status = "suspended" /\ UNCHANGED <<threadChain, runningThread>>
  BY DEF ResumeRefused, control
<1>4. id \in Waiting /\ InUse' = InUse
  BY <1>2, <1>3 DEF Waiting, InUse
<1>5. id \in 1 .. MaxCos
  BY <1>2, LimitsAssumption DEF ControlInv, RegistryNow, Statuses, Ids
<1> HIDE DEF id
<1>6. ASSUME NEW c \in 1 .. MaxCos, c = id PROVE Promised!Refuse(c)
  BY <1>6, <1>2, <1>4 DEF Promised!Refuse, Waiting, Ended
<1> QED BY <1>5, <1>6

\* See RefusedPromise.
LEMMA NewPromise ==
    ASSUME ControlInv, NEW ref \in Refs, NewCoroutine(ref)
    PROVE  \E c \in 1 .. MaxCos : Promised!Create(c)
<1> DEFINE id == IF freeIds = <<>> THEN Len(cos) + 1 ELSE Last(freeIds)
<1>1. /\ Len(cos') \in Nat /\ Len(cos) \in Nat
      /\ Len(cos) <= Len(cos') /\ Len(cos') <= MaxCos
      /\ id \in 1 .. Len(cos') /\ cos'[id] = Coroutine(ref)
      /\ \A jd \in 1 .. Len(cos') : jd # id => jd \in 1 .. Len(cos) /\ cos'[jd] = cos[jd]
      /\ id \in 1 .. Len(cos) => cos[id].status = "none"
  BY MadeIs
<1>2. UNCHANGED <<threadChain, runningThread>>
  BY DEF NewCoroutine, control
<1> HIDE DEF id
<1>3. cos'[id].status = "suspended"
  BY <1>1 DEF Coroutine
<1>4. id \notin Waiting /\ id \notin Ended
  BY <1>1 DEF Waiting, Ended, Ids
<1>5. Waiting' = Waiting \cup {id} /\ Ended' = Ended
  <2>1. Waiting' = {jd \in 1 .. Len(cos') : cos'[jd].status = "suspended"} /\ Ended' = {jd \in 1 .. Len(cos') : cos'[jd].status = "dead"}
    BY DEF Waiting, Ended, Ids
  <2>2. \A jd \in 1 .. Len(cos) : jd \in 1 .. Len(cos')
    BY <1>1
  <2> QED BY <1>1, <1>3, <1>4, <2>1, <2>2 DEF Waiting, Ended, Ids
<1>6. id \notin {InUse[i] : i \in DOMAIN InUse}
  <2>1. InUse' = InUse
    BY <1>2 DEF InUse
  <2>2. Statuses(cos, threadChain, runningThread) /\ OneEach(threadChain, runningThread, Len(cos))
    BY DEF ControlInv, RegistryNow
  <2>3. ASSUME NEW i \in DOMAIN InUse PROVE InUse[i] # id
    <3> DEFINE n == Len(threadChain)
    <3>1. threadChain \in Seq(Int) /\ n \in Nat /\ runningThread \in Int
      BY <2>2 DEF OneEach
    <3>2. Len(InUse) = n /\ i \in 1 .. n /\ InUse[i] = Append(threadChain, runningThread)[i + 1]
      BY <2>3, <3>1 DEF InUse
    <3>3. InUse[i] = IF i = n THEN runningThread ELSE threadChain[i + 1]
      BY <3>1, <3>2
    <3>4. CASE i = n
      <4>1. InUse[i] = runningThread /\ threadChain # <<>>
        BY <3>2, <3>3, <3>4
      <4>2. runningThread \in 1 .. Len(cos)
        BY <2>2, <4>1 DEF OneEach
      <4>3. cos[runningThread].status = "running"
        BY <2>2, <4>2 DEF Statuses
      <4> QED BY <1>1, <4>1, <4>2, <4>3
    <3>5. CASE i # n
      <4>1. i + 1 \in 2 .. n /\ i + 1 \in 1 .. n /\ InUse[i] = threadChain[i + 1]
        BY <3>1, <3>2, <3>3, <3>5
      <4>2. threadChain[i + 1] \in 1 .. Len(cos)
        BY <2>2, <4>1 DEF OneEach
      <4>3. cos[threadChain[i + 1]].status = "normal"
        BY <2>2, <4>1, <4>2 DEF Statuses
      <4> QED BY <1>1, <4>1, <4>2, <4>3
    <3> QED BY <3>4, <3>5
  <2> QED BY <2>3
<1>7. InUse' = InUse /\ id \in 1 .. MaxCos
  BY <1>1, <1>2, LimitsAssumption DEF InUse
<1>8. ASSUME NEW c \in 1 .. MaxCos, c = id PROVE Promised!Create(c)
  BY <1>8, <1>4, <1>5, <1>6, <1>7 DEF Promised!Create, Promised!InUse, Waiting, Ended
<1> QED BY <1>7, <1>8

\* See RefusedPromise.
LEMMA CollectionPromise ==
    ASSUME ControlInv, releaseCoroutines
    PROVE  \E S \in SUBSET (1 .. MaxCos) : Promised!Collected(S)
<1> DEFINE gone == {id \in Ids : cos[id].status # "none" /\ cos[id].ref \notin Reached}
<1>1. /\ Len(cos) \in Nat /\ Len(cos') = Len(cos)
      /\ gone \in SUBSET (1 .. Len(cos))
      /\ \A id \in 1 .. Len(cos) : cos'[id] = IF id \in gone THEN Released ELSE cos[id]
      /\ Released.status = "none"
  BY CollectedIs
<1>2. UNCHANGED <<threadChain, runningThread>>
  BY DEF releaseCoroutines, control
<1> HIDE DEF gone
<1>3. InUse' = InUse
  BY <1>2 DEF InUse
<1>4. Waiting' = Waiting \ gone /\ Ended' = Ended \ gone
  <2>1. Ids' = Ids /\ Ids = 1 .. Len(cos)
    BY <1>1 DEF Ids
  <2>2. Waiting' = {jd \in Ids : cos'[jd].status = "suspended"} /\ Ended' = {jd \in Ids : cos'[jd].status = "dead"}
    BY <2>1 DEF Waiting, Ended
  <2> QED BY <1>1, <2>1, <2>2 DEF Waiting, Ended
<1>5. gone \in SUBSET (1 .. MaxCos)
  <2>1. Len(cos) <= MaxCos
    BY DEF ControlInv, RegistryNow, Statuses
  <2> QED BY <1>1, <2>1, LimitsAssumption
<1>6. ASSUME NEW S \in SUBSET (1 .. MaxCos), S = gone PROVE Promised!Collected(S)
  BY <1>6, <1>3, <1>4 DEF Promised!Collected, Waiting, Ended
<1> QED BY <1>5, <1>6

\* Calls, errors and values leave the chain and the statuses alone.
LEMMA OthersPromise ==
    ASSUME ControlInv, [Next]_vars
    PROVE  \/ UNCHANGED <<InUse, Waiting, Ended>>
           \/ \E ref \in Refs : NewCoroutine(ref) \/ ResumeRefused(ref) \/ Resume(ref)
           \/ Yield \/ Finish \/ DieByError
           \/ releaseCoroutines
<1>1. CASE callOnStack \/ EndChunk
  <2>1. threadChain = <<>> /\ UNCHANGED <<threadChain, cos>>
    BY <1>1, ChunkControl
  <2>2. InUse = <<>> /\ InUse' = <<>>
    BY <2>1, NobodyOnAnEmptyChain DEF InUse
  <2>3. Waiting' = Waiting /\ Ended' = Ended
    BY <2>1 DEF Waiting, Ended, Ids
  <2> QED BY <2>2, <2>3
<1>2. CASE atRaisePoint
  <2>1. UNCHANGED <<threadChain, runningThread>>
    BY <1>2 DEF atRaisePoint
  <2>2. InUse' = InUse
    BY <2>1 DEF InUse
  <2> DEFINE x == [cos[findRunningCo] EXCEPT !.deathLines = TRUE]
  <2>3. CASE UNCHANGED cos
    BY <2>2, <2>3 DEF Waiting, Ended, Ids
  <2>4. CASE findRunningCo # NoCo /\ cos' = [cos EXCEPT ![findRunningCo] = x]
    <3>1. findRunningCo \in 1 .. Len(cos) /\ cos \in Seq(CoType)
      BY <2>4, RunningIs DEF ControlInv, RegistryNow, Statuses, Ids
    <3>2. x \in CoType /\ x.status = cos[findRunningCo].status
      <4> DEFINE old == cos[findRunningCo]
      <4>1. old \in CoType
        BY <3>1
      <4> HIDE DEF old
      <4>2. LET new == [old EXCEPT !.deathLines = TRUE] IN new \in CoType /\ new.status = old.status
        BY <4>1 DEF CoType
      <4> QED BY <4>2 DEF old
    <3> HIDE DEF x
    <3>3. Len(cos') = Len(cos) /\ \A jd \in 1 .. Len(cos) : cos'[jd].status = cos[jd].status
      BY <2>4, <3>1, <3>2, OneChanged
    <3> QED BY <2>2, <3>3 DEF Waiting, Ended, Ids
  <2> QED BY <1>2, <2>3, <2>4 DEF atRaisePoint
<1>3. ASSUME UNCHANGED <<threadChain, runningThread, cos>> PROVE UNCHANGED <<InUse, Waiting, Ended>>
  BY <1>3 DEF InUse, Waiting, Ended, Ids
<1>4. CASE CallBack \/ (\E kind \in Catching : ProtectedCall(kind)) \/ ReturnFromCall \/ Raise \/ UnwindCall
  <2>1. UNCHANGED <<threadChain, runningThread, cos>>
    BY <1>4 DEF CallBack, ProtectedCall, ReturnFromCall, Raise, UnwindCall, registry
  <2> QED BY <1>3, <2>1
<1>5. CASE Catch \/ HandlerFails \/ YieldRefused \/ UNCHANGED vars
  <2>1. UNCHANGED <<threadChain, runningThread, cos>>
    BY <1>5 DEF Catch, HandlerFails, YieldRefused, registry, vars, control
  <2> QED BY <1>3, <2>1
<1>6. CASE \E ref \in Refs : Publish(ref) \/ Forget(ref)
  <2>1. UNCHANGED <<threadChain, runningThread, cos>>
    BY <1>6 DEF Publish, Forget, registry, control
  <2> QED BY <1>3, <2>1
<1> QED BY <1>1, <1>2, <1>4, <1>5, <1>6 DEF Next

\* Whatever is called, raised, caught and collected in between, coroutines
\* enter and leave the chain one at a time, at its end, and none in use is
\* collected: Coroutines implements ControlTransfer.
THEOREM PromiseKept == Spec => KeepsPromise
<1>1. Init => Promised!Init
  BY DEF Init, Promised!Init, InUse, Ids
<1>2. ControlInv /\ [Next]_vars => [Promised!Next]_(Promised!vars)
  <2> SUFFICES ASSUME ControlInv, [Next]_vars PROVE [Promised!Next]_(Promised!vars)
    OBVIOUS
  <2>1. CASE UNCHANGED <<InUse, Waiting, Ended>>
    BY <2>1, PromisedVars DEF Promised!vars, Waiting, Ended
  <2>2. CASE \E ref \in Refs : NewCoroutine(ref) \/ ResumeRefused(ref) \/ Resume(ref)
    BY <2>2, NewPromise, RefusedPromise, ResumePromise DEF Promised!Next
  <2>3. CASE Yield \/ Finish \/ DieByError
    BY <2>3, LeavePromise DEF Promised!Next
  <2>4. CASE releaseCoroutines
    BY <2>4, CollectionPromise DEF Promised!Next
  <2> QED BY <2>1, <2>2, <2>3, <2>4, OthersPromise
<1> QED BY ControlAlways, <1>1, <1>2, PTL DEF Spec, KeepsPromise, Promised!Spec
=============================================================================
