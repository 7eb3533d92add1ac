---------------------------- MODULE TieringProofs ---------------------------
(***************************************************************************)
(* Proofs about Tiering for every set of functions, every shape and every  *)
(* threshold: the tiers agree with what is installed and counted, compiled *)
(* code runs only fresh frames of the main thread, and the depth of Go     *)
(* calls stays within the watermark.                                       *)
(***************************************************************************)
EXTENDS Tiering, FiniteSetTheorems, SequenceTheorems, TLAPS

\* The types, by what changes them: the host, the hooks, and further down the
\* dispatch.
EnvironmentTyped ==
    /\ shape \in [Protos -> Shapes] /\ native \in BOOLEAN /\ forceAll \in BOOLEAN /\ tierOff \in BOOLEAN
    /\ warm \subseteq Protos

ProfilesTyped ==
    /\ pd \in [Protos -> Profiles] /\ installed \subseteq Protos
    /\ stuck \in [Causes -> Nat]

\* An undecided profile, as a hook hands it to a decision.
Undecided(r) == r \in Profiles /\ r.tier = "interp" /\ ~r.tried

\* Every decision comes to one of three outcomes.
Outcome(p, r) ==
    \/ Keep(p, r)
    \/ \E c \in Causes : Absorb(p, r, c)
    \/ installGibbous(p, r)

LEMMA CountedTyped ==
    ASSUME NEW n \in 0 .. MaxCount
    PROVE  Counted(n) \in 0 .. MaxCount /\ n + 1 \in 0 .. MaxCount + 1
BY ThresholdAssumption DEF Counted

LEMMA RecheckedTyped ==
    ASSUME NEW p \in Protos, NEW r, Undecided(r)
    PROVE  Undecided(Rechecked(p, r))
BY CountedTyped DEF Undecided, Rechecked, Profiles, recheckCompilabilityRuntime, SupportsAllOpcodes

LEMMA FloorAskedTyped ==
    ASSUME NEW p \in Protos, NEW r, Undecided(r)
    PROVE  Undecided(FloorAsked(p, r))
BY DEF Undecided, FloorAsked, Profiles

LEMMA ConsiderOutcome ==
    ASSUME NEW p \in Protos, NEW r, Undecided(r), NEW onMain, considerPromotion(p, r, onMain)
    PROVE  \E q : Undecided(q) /\ Outcome(p, q)
<1> DEFINE q == Rechecked(p, r)
<1>1. Undecided(q)
  BY RecheckedTyped
<1>2. Keep(p, r) \/ Outcome(p, q)
  BY DEF considerPromotion, Outcome, tryCompileFails, Causes
<1>3. QED
  BY <1>1, <1>2 DEF Outcome

LEMMA EventOutcome ==
    ASSUME NEW p \in Protos, NEW r, Undecided(r), NEW hot, NEW onMain, Event(p, r, hot, onMain)
    PROVE  \E q : Undecided(q) /\ Outcome(p, q)
<1>1. Undecided(FloorAsked(p, r))
  BY FloorAskedTyped
<1>2. \/ Keep(p, r) \/ Keep(p, FloorAsked(p, r))
      \/ considerPromotion(p, r, onMain) \/ considerPromotion(p, FloorAsked(p, r), onMain)
  BY DEF Event
<1>3. QED
  BY <1>1, <1>2, ConsiderOutcome DEF Outcome

\* A hook that does anything decides about an undecided profile.
LEMMA HookOutcome ==
    ASSUME ProfilesTyped, TiersAgree, NEW p \in Protos, NEW onMain,
           onEnter(p, onMain) \/ onBackEdge(p, onMain)
    PROVE  \/ UNCHANGED bridge
           \/ pd[p].tier = "interp" /\ UNCHANGED environment /\ \E q : Undecided(q) /\ Outcome(p, q)
<1> SUFFICES ASSUME Counts(p)
             PROVE  /\ pd[p].tier = "interp" /\ UNCHANGED environment
                    /\ \E q : Undecided(q) /\ Outcome(p, q)
  BY DEF onEnter, onBackEdge
<1>1. Undecided(pd[p])
  BY DEF Counts, Undecided, ProfilesTyped, TiersAgree
<1> DEFINE entered == [pd[p] EXCEPT !.entries = Counted(@)]
           looped == [pd[p] EXCEPT !.edges = Counted(@)]
<1>2. Undecided(entered) /\ Undecided(looped)
  <2>1. Counted(pd[p].entries) \in 0 .. MaxCount /\ Counted(pd[p].edges) \in 0 .. MaxCount
    BY <1>1, CountedTyped DEF Undecided, Profiles
  <2>2. QED
    BY <1>1, <2>1 DEF Undecided, Profiles
<1>3. Undecided(Rearmed(looped))
  <2> DEFINE f == looped.floorExempt
  <2>1. (IF f = "no" THEN "unasked" ELSE f) \in {"unasked", "yes", "no"} /\ 0 \in 0 .. MaxCount + 1
    BY <1>2, ThresholdAssumption DEF Undecided, Profiles
  <2>2. QED
    BY <1>2, <2>1 DEF Rearmed, Undecided, Profiles
<1>4. CASE onEnter(p, onMain)
  <2>1. Event(p, entered, Hot(entered.entries, HotEntry), onMain)
    BY <1>4 DEF onEnter
  <2>2. QED
    BY <1>2, <2>1, EventOutcome DEF Event, Counts
<1>5. CASE onBackEdge(p, onMain)
  <2>1. Event(p, Rearmed(looped), Hot(Rearmed(looped).edges, HotBackEdge), onMain)
    BY <1>5 DEF onBackEdge
  <2>2. QED
    BY <1>3, <2>1, EventOutcome DEF Event, Counts
<1>6. QED
  BY <1>4, <1>5

\* What an outcome leaves behind agrees again.
LEMMA OutcomeAgrees ==
    ASSUME ProfilesTyped, TiersAgree, NEW p \in Protos, pd[p].tier = "interp",
           NEW r, Undecided(r), Outcome(p, r)
    PROVE  ProfilesTyped' /\ TiersAgree' /\ installed \subseteq installed'
<1> USE DEF ProfilesTyped, Undecided
<1>1. CASE Keep(p, r)
  <2>1. pd' = [pd EXCEPT ![p] = r] /\ installed' = installed /\ stuck' = stuck
    BY <1>1 DEF Keep
  <2>2. Absorbed' = Absorbed
    BY <2>1 DEF Absorbed
  <2>3. QED
    BY <2>1, <2>2 DEF TiersAgree
<1>2. CASE installGibbous(p, r)
  <2> DEFINE s == [r EXCEPT !.tier = "gibbous", !.tried = TRUE]
  <2>1. pd' = [pd EXCEPT ![p] = s] /\ installed' = installed \cup {p} /\ stuck' = stuck
    BY <1>2 DEF installGibbous
  <2>2. s \in Profiles /\ s.tier = "gibbous" /\ s.tried
    BY DEF Profiles
  <2>3. Absorbed' = Absorbed
    BY <2>1, <2>2 DEF Absorbed
  <2>4. QED
    BY <2>1, <2>2, <2>3 DEF TiersAgree
<1>3. ASSUME NEW c \in Causes, Absorb(p, r, c) PROVE ProfilesTyped' /\ TiersAgree' /\ installed \subseteq installed'
  <2> DEFINE s == [r EXCEPT !.tier = "stuck", !.tried = TRUE]
  <2>1. pd' = [pd EXCEPT ![p] = s] /\ installed' = installed /\ stuck' = [stuck EXCEPT ![c] = @ + 1]
    BY <1>3 DEF Absorb
  <2>2. s \in Profiles /\ s.tier = "stuck" /\ s.tried
    BY DEF Profiles
  <2>3. Absorbed' = Absorbed \cup {p} /\ p \notin Absorbed
    BY <2>1, <2>2 DEF Absorbed
  <2>4. IsFiniteSet(Absorbed)
    BY ProtosAssumption, FS_Subset DEF Absorbed
  <2>5. Cardinality(Absorbed') = Cardinality(Absorbed) + 1 /\ Cardinality(Absorbed) \in Nat
    BY <2>3, <2>4, FS_AddElement, FS_CardinalityType
  <2>6. ProfilesTyped'
    BY <2>1, <2>2
  <2>7. /\ stuck'["notCompilable"] + stuck'["declined"] + stuck'["compileFailed"]
           = stuck["notCompilable"] + stuck["declined"] + stuck["compileFailed"] + 1
    BY <2>1 DEF Causes
  <2>8. installed' = {x \in Protos : pd'[x].tier = "gibbous"}
    BY <2>1, <2>2 DEF TiersAgree
  <2>9. \A x \in Protos : pd'[x].tried <=> pd'[x].tier # "interp"
    BY <2>1, <2>2 DEF TiersAgree
  <2>10. QED
    BY <2>1, <2>5, <2>6, <2>7, <2>8, <2>9 DEF TiersAgree
<1>4. QED
  BY <1>1, <1>2, <1>3 DEF Outcome

LEMMA HookAgrees ==
    ASSUME ProfilesTyped, TiersAgree, NEW p \in Protos, NEW onMain,
           onEnter(p, onMain) \/ onBackEdge(p, onMain)
    PROVE  ProfilesTyped' /\ TiersAgree' /\ installed \subseteq installed' /\ UNCHANGED environment
<1>1. CASE UNCHANGED bridge
  BY <1>1 DEF bridge, environment, ProfilesTyped, TiersAgree, Absorbed
<1>2. CASE ~UNCHANGED bridge
  BY <1>2, HookOutcome, OutcomeAgrees
<1>3. QED
  BY <1>1, <1>2

-----------------------------------------------------------------------------
(***************************************************************************)
(* The frames.  A step adds a frame on top, replaces the top, marks it as  *)
(* having run or pops it.                                                  *)
(***************************************************************************)
FramesTyped == stack \in Seq(Frame)

\* A frame that may stand on a stack when the code of a set is installed.  The
\* host call below every frame counts in goDepth, so that compiled code entered
\* below the watermark leaves room for one more Go call: that is why the
\* watermark is never passed.
Shallow(f) == f.c >= 1 /\ f.go <= ReentryCap /\ (f.code => f.go < ReentryCap)
Sound(f, codes) == (f.code => f.main /\ f.proto \in codes /\ ~f.ran) /\ Shallow(f)

FramesGood == FramesTyped /\ \A i \in DOMAIN stack : Sound(stack[i], installed)

LEMMA TopTyped ==
    ASSUME FramesTyped, stack # <<>>
    PROVE  Top \in Frame /\ Len(stack) \in Nat \ {0} /\ Top = stack[Len(stack)]
BY DEF FramesTyped, Top, Last

\* What the two counters are.
LEMMA TopGood ==
    ASSUME FramesGood, stack # <<>>
    PROVE  /\ Top \in Frame /\ Sound(Top, installed)
           /\ Top.proto \in Protos /\ Top.main \in BOOLEAN
           /\ luaReentry = Top.go /\ nCcalls = Top.c
           /\ luaReentry \in 0 .. ReentryCap /\ nCcalls \in 1 .. MaxCCalls
           /\ Top.code => luaReentry < ReentryCap
<1>1. Top \in Frame /\ Top = stack[Len(stack)] /\ Len(stack) \in DOMAIN stack
  BY TopTyped DEF FramesGood, FramesTyped
<1>2. Sound(Top, installed)
  BY <1>1 DEF FramesGood
<1>3. QED
  BY <1>1, <1>2, CapAssumption DEF Frame, Sound, Shallow, luaReentry, nCcalls

LEMMA BelowGood ==
    ASSUME FramesGood
    PROVE  /\ Below \in Seq(Frame)
           /\ \A i \in DOMAIN Below : Sound(Below[i], installed)
<1>1. CASE ~Interpreting
  BY <1>1 DEF Below, FramesGood, FramesTyped
<1>2. CASE Interpreting
  <2> DEFINE f == [Top EXCEPT !.ran = TRUE]
  <2>1. Top \in Frame /\ Len(stack) \in DOMAIN stack /\ Top = stack[Len(stack)] /\ ~Top.code
    BY <1>2, TopTyped DEF FramesGood, FramesTyped, Interpreting
  <2>2. f \in Frame /\ Sound(f, installed)
    BY <2>1 DEF Frame, FramesGood, Sound, Shallow
  <2>3. Below = [stack EXCEPT ![Len(stack)] = f]
    BY <1>2, <2>1 DEF Below
  <2>4. Below \in Seq(Frame) /\ DOMAIN Below = DOMAIN stack
    BY <2>1, <2>2, <2>3 DEF FramesGood, FramesTyped
  <2>5. \A i \in DOMAIN stack : Below[i] = IF i = Len(stack) THEN f ELSE stack[i]
    BY <2>3
  <2>6. QED
    BY <2>2, <2>4, <2>5 DEF FramesGood
<1>3. QED
  BY <1>1, <1>2

\* A stack of good frames, with a good frame appended, is good.
LEMMA AppendGood ==
    ASSUME NEW s \in Seq(Frame), \A i \in DOMAIN s : Sound(s[i], installed), installed \subseteq installed',
           NEW f \in Frame, Sound(f, installed'), stack' = Append(s, f)
    PROVE  FramesGood'
<1>1. stack' \in Seq(Frame) /\ Len(stack') = Len(s) + 1 /\ DOMAIN stack' = 1 .. Len(s) + 1
  BY DEF Frame
<1>2. \A i \in 1 .. Len(s) : stack'[i] = s[i] /\ i \in DOMAIN s
  OBVIOUS
<1>3. stack'[Len(s) + 1] = f
  OBVIOUS
<1>4. \A i \in DOMAIN stack' : Sound(stack'[i], installed')
  BY <1>1, <1>2, <1>3 DEF Sound, Shallow
<1>5. QED
  BY <1>1, <1>4 DEF FramesGood, FramesTyped

LEMMA FrontGood ==
    ASSUME FramesGood, stack # <<>>
    PROVE  /\ Front(stack) \in Seq(Frame)
           /\ \A i \in DOMAIN Front(stack) : Sound(Front(stack)[i], installed)
<1>1. Len(stack) \in Nat \ {0} /\ stack \in Seq(Frame)
  BY DEF FramesGood, FramesTyped
<1>2. /\ Front(stack) \in Seq(Frame) /\ DOMAIN Front(stack) = 1 .. Len(stack) - 1
      /\ \A i \in 1 .. Len(stack) - 1 : Front(stack)[i] = stack[i]
  BY <1>1, SubSeqProperties DEF Front
<1>3. QED
  BY <1>1, <1>2 DEF FramesGood

LEMMA SameGood ==
    ASSUME NEW s \in Seq(Frame), \A i \in DOMAIN s : Sound(s[i], installed), installed \subseteq installed',
           stack' = s
    PROVE  FramesGood'
BY DEF FramesGood, FramesTyped, Sound

-----------------------------------------------------------------------------
(***************************************************************************)
(* The inductive invariant, action by action.                              *)
(***************************************************************************)
Inv == EnvironmentTyped /\ ProfilesTyped /\ TiersAgree /\ FramesGood

\* The Go calls that starting a frame costs are there to spend.
Affords(code, go, c) ==
    /\ stack # <<>> \/ (go = 0 /\ c = 1)
    /\ luaReentry + go <= ReentryCap
    /\ code => luaReentry + go < ReentryCap
    /\ nCcalls + c <= MaxCCalls

\* enterLuaFrame keeps the invariant when the caller's reasons for compiled
\* code are good ones and the Go calls can be afforded.
LEMMA EnterKeeps ==
    ASSUME Inv, NEW p \in Protos, NEW below \in {stack, Below}, NEW main \in BOOLEAN, NEW code \in BOOLEAN,
           NEW go \in Nat, NEW c \in Nat, code => main /\ p \in installed,
           Affords(code, go, c), Enter(p, below, main, code, go, c)
    PROVE  Inv'
<1> DEFINE f == Started(p, main, code, go, c)
<1>1. ProfilesTyped' /\ TiersAgree' /\ installed \subseteq installed' /\ EnvironmentTyped'
  BY HookAgrees DEF Enter, Inv, EnvironmentTyped, environment
<1>2. luaReentry + go \in 0 .. ReentryCap /\ nCcalls + c \in 1 .. MaxCCalls
  BY TopGood, CapAssumption DEF Inv, Affords, luaReentry, nCcalls
<1>3. f \in Frame /\ Sound(f, installed')
  BY <1>1, <1>2, CapAssumption DEF Started, Frame, Sound, Shallow, Affords
<1>4. below \in Seq(Frame) /\ \A i \in DOMAIN below : Sound(below[i], installed)
  BY BelowGood DEF Inv, FramesGood, FramesTyped
<1>5. stack' = Append(below, f)
  BY DEF Enter
<1>6. FramesGood'
  BY <1>1, <1>3, <1>4, <1>5, AppendGood
<1>7. QED
  BY <1>1, <1>6 DEF Inv

LEMMA TailKeeps ==
    ASSUME Inv, stack # <<>>, NEW p \in Protos, onEnter(p, Top.main),
           NEW f \in Frame, Sound(f, installed'), stack' = ReplaceTop(f)
    PROVE  Inv'
<1>1. ProfilesTyped' /\ TiersAgree' /\ installed \subseteq installed' /\ EnvironmentTyped'
  BY HookAgrees DEF Inv, EnvironmentTyped, environment
<1>2. FramesGood'
  BY <1>1, FrontGood, AppendGood DEF Inv, ReplaceTop
<1>3. QED
  BY <1>1, <1>2 DEF Inv

LEMMA InitInv == Init => Inv
<1> SUFFICES ASSUME Init PROVE Inv
  OBVIOUS
<1>1. NewProfile \in Profiles /\ NewProfile.tier = "interp" /\ ~NewProfile.tried
  BY ThresholdAssumption DEF NewProfile, Profiles
<1>2. pd = [p \in Protos |-> NewProfile] /\ installed = {} /\ stuck = [c \in Causes |-> 0] /\ stack = <<>>
  BY DEF Init, BridgeInit
<1>3. Absorbed = {}
  BY <1>1, <1>2 DEF Absorbed
<1>4. ProfilesTyped /\ TiersAgree
  BY <1>1, <1>2, <1>3, FS_EmptySet DEF ProfilesTyped, TiersAgree, Causes
<1>5. FramesGood
  BY <1>2 DEF FramesGood, FramesTyped
<1>6. EnvironmentTyped
  BY DEF Init, BridgeInit, EnvironmentTyped
<1>7. QED
  BY <1>4, <1>5, <1>6 DEF Inv

LEMMA NextInv == Inv /\ [Next]_vars => Inv'
<1> SUFFICES ASSUME Inv, [Next]_vars PROVE Inv'
  OBVIOUS
<1> USE DEF GibbousCodeOf, UnderWatermark
<1>1. CASE UNCHANGED vars
  BY <1>1 DEF vars, bridge, Inv, EnvironmentTyped, ProfilesTyped, TiersAgree, Absorbed, FramesGood, FramesTyped
<1>2. ASSUME NEW p \in Protos, callOnStack(p) PROVE Inv'
  <2>1. stack = <<>> /\ Enter(p, stack, TRUE, GibbousCodeOf(p), 0, 1) /\ GibbousCodeOf(p) \in BOOLEAN
    BY <1>2 DEF callOnStack
  <2>2. Affords(GibbousCodeOf(p), 0, 1)
    BY <2>1, CapAssumption DEF Affords, luaReentry, nCcalls
  <2>3. QED
    BY <2>1, <2>2, EnterKeeps
<1>3. stack # <<>> => /\ Top \in Frame /\ Sound(Top, installed) /\ Top.proto \in Protos /\ Top.main \in BOOLEAN
                      /\ luaReentry = Top.go /\ nCcalls = Top.c
                      /\ luaReentry \in 0 .. ReentryCap /\ nCcalls \in 1 .. MaxCCalls
                      /\ Top.code => luaReentry < ReentryCap
  BY TopGood DEF Inv
<1>4. ASSUME NEW p \in Protos, NEW main \in BOOLEAN, callLuaFromHost(p, main) PROVE Inv'
  <2>1. stack # <<>> /\ nCcalls + 1 < MaxCCalls /\ Enter(p, Below, main, FALSE, 0, 1)
    BY <1>4 DEF callLuaFromHost
  <2>2. Affords(FALSE, 0, 1)
    BY <2>1, <1>3, CapAssumption DEF Affords
  <2>3. QED
    BY <2>1, <2>2, EnterKeeps
\* Below the watermark at least one Go call is the host's, so that luaReentry is
\* below it by two.
<1>5. ASSUME stack # <<>>, goDepth < ReentryCap PROVE luaReentry + 1 < ReentryCap
  BY <1>3, <1>5, CapAssumption DEF goDepth
<1>6. ASSUME NEW p \in Protos, doCall(p) PROVE Inv'
  <2>1. stack # <<>> /\ Enter(p, Below, Top.main, UnderWatermark(p, Top.main), 0, 0)
    BY <1>6 DEF doCall, Interpreting
  <2>2. Affords(UnderWatermark(p, Top.main), 0, 0)
    BY <2>1, <1>3, <1>5, CapAssumption DEF Affords
  <2>3. QED
    BY <2>1, <2>2, <1>3, EnterKeeps
<1>7. ASSUME NEW p \in Protos, DoCall(p) \/ CallBaseline(p) PROVE Inv'
  <2>1. stack # <<>> /\ ThroughDoCall(p) /\ Top.code
    BY <1>7 DEF DoCall, CallBaseline, ThroughDoCall, Compiled
  <2>2. CASE UnderWatermark(p, Top.main)
    <3>1. Enter(p, stack, Top.main, TRUE, 0, 0) /\ Top.main /\ p \in installed
      BY <2>1, <2>2 DEF ThroughDoCall
    <3>2. Affords(TRUE, 0, 0)
      BY <2>1, <1>3, CapAssumption DEF Affords
    <3>3. QED
      BY <2>1, <3>1, <3>2, <1>3, EnterKeeps
  <2>3. CASE ~UnderWatermark(p, Top.main)
    <3>1. Enter(p, stack, Top.main, FALSE, 1, 0)
      BY <2>1, <2>3 DEF ThroughDoCall
    <3>2. Affords(FALSE, 1, 0)
      BY <2>1, <1>3, CapAssumption DEF Affords
    <3>3. QED
      BY <2>1, <3>1, <3>2, <1>3, EnterKeeps
  <2>4. QED
    BY <2>2, <2>3
<1>8. ASSUME NEW p \in Protos, tryIndirectCallee(p) PROVE Inv'
  <2>1. stack # <<>> /\ Top.code /\ Enter(p, stack, TRUE, TRUE, 0, 0) /\ p \in installed
    BY <1>8 DEF tryIndirectCallee, Compiled
  <2>2. Affords(TRUE, 0, 0)
    BY <2>1, <1>3, CapAssumption DEF Affords
  <2>3. QED
    BY <2>1, <2>2, <1>3, EnterKeeps
<1>9. ASSUME NEW p \in Protos, ExecutePlainCallInlineFrame(p) PROVE Inv'
  <2>1. stack # <<>> /\ Top.code /\ Enter(p, stack, Top.main, UnderWatermark(p, Top.main), 1, 0)
    BY <1>9 DEF ExecutePlainCallInlineFrame, Compiled
  <2>2. Affords(UnderWatermark(p, Top.main), 1, 0)
    BY <2>1, <1>3, <1>5, CapAssumption DEF Affords
  <2>3. QED
    BY <2>1, <2>2, <1>3, EnterKeeps
<1>10. ASSUME NEW p \in Protos, doTailCall(p) PROVE Inv'
  <2> DEFINE f == TailFrame(p, Top.go)
             g == [f EXCEPT !.code = TailRuns(f, TRUE)]
  <2>1. stack # <<>> /\ onEnter(p, Top.main) /\ stack' = ReplaceTop(g)
    BY <1>10 DEF doTailCall, Interpreting
  <2>2. f \in Frame /\ f.proto = p /\ f.go = luaReentry /\ f.c = nCcalls /\ ~f.ran
    BY <1>3, <2>1, CapAssumption DEF TailFrame, Frame
  <2>3. TailRuns(f, TRUE) \in BOOLEAN
        /\ (TailRuns(f, TRUE) => f.main /\ p \in installed' /\ luaReentry < ReentryCap)
    BY <1>3, <1>5, <2>1, <2>2, CapAssumption DEF TailRuns, Dispatchable
  <2>4. g \in Frame /\ Sound(g, installed')
    BY <1>3, <2>1, <2>2, <2>3, CapAssumption DEF Frame, Sound, Shallow
  <2>5. QED
    BY <2>1, <2>4, TailKeeps
<1>11. ASSUME NEW p \in Protos, TailCall(p) PROVE Inv'
  <2> DEFINE f == TailFrame(p, Top.go + 1)
  <2>1. stack # <<>> /\ Top.code /\ onEnter(p, Top.main) /\ stack' = ReplaceTop(f)
    BY <1>11 DEF TailCall, Compiled
  <2>2. f \in Frame /\ Sound(f, installed')
    BY <1>3, <2>1, CapAssumption DEF TailFrame, Frame, Sound, Shallow
  <2>3. QED
    BY <2>1, <2>2, TailKeeps
<1>12. CASE hostTailCall
  <2> DEFINE f == [Top EXCEPT !.ran = TRUE]
             g == [f EXCEPT !.code = TailRuns(f, FALSE)]
  <2>1. stack # <<>> /\ UNCHANGED bridge /\ stack' = Append(Front(stack), g) /\ ~Top.code
    BY <1>12 DEF hostTailCall, Interpreting, ReplaceTop
  <2>2. g \in Frame /\ Sound(g, installed')
    BY <1>3, <2>1 DEF Frame, TailRuns, Dispatchable, Sound, Shallow
  <2>3. installed' = installed /\ ProfilesTyped' /\ TiersAgree' /\ EnvironmentTyped'
    BY <2>1 DEF bridge, Inv, ProfilesTyped, TiersAgree, Absorbed, EnvironmentTyped
  <2>4. FramesGood'
    BY <2>1, <2>2, <2>3, FrontGood, AppendGood DEF Inv
  <2>5. QED
    BY <2>3, <2>4 DEF Inv
<1>13. CASE BackEdge
  <2>1. stack # <<>> /\ onBackEdge(Top.proto, Top.main) /\ stack' = Below
    BY <1>13 DEF BackEdge, Interpreting
  <2>2. ProfilesTyped' /\ TiersAgree' /\ installed \subseteq installed' /\ EnvironmentTyped'
    BY <1>3, <2>1, HookAgrees DEF Inv, EnvironmentTyped, environment
  <2>3. FramesGood'
    BY <2>1, <2>2, BelowGood, SameGood DEF Inv
  <2>4. QED
    BY <2>2, <2>3 DEF Inv
<1>14. CASE Warms
  <2>1. stack' = Below /\ UNCHANGED <<shape, native, forceAll, tierOff, pd, installed, stuck>>
        /\ stack # <<>> /\ warm' \in {warm \ {Top.proto}, warm \cup {Top.proto}}
    BY <1>14 DEF Warms, ObserveIC, Interpreting
  <2>2. ProfilesTyped' /\ TiersAgree' /\ EnvironmentTyped'
    BY <2>1, <1>3 DEF Inv, ProfilesTyped, TiersAgree, Absorbed, EnvironmentTyped
  <2>3. FramesGood'
    BY <2>1, BelowGood, SameGood DEF Inv
  <2>4. QED
    BY <2>2, <2>3 DEF Inv
<1>15. CASE Return
  <2>1. stack # <<>> /\ stack' = Front(stack) /\ UNCHANGED bridge
    BY <1>15 DEF Return
  <2>2. ProfilesTyped' /\ TiersAgree' /\ EnvironmentTyped' /\ installed' = installed
    BY <2>1 DEF bridge, Inv, ProfilesTyped, TiersAgree, Absorbed, EnvironmentTyped
  <2>3. FramesGood'
    BY <2>1, <2>2, FrontGood, SameGood DEF Inv
  <2>4. QED
    BY <2>2, <2>3 DEF Inv
<1>16. CASE Switch
  <2>1. UNCHANGED <<shape, native, forceAll, warm, pd, installed, stuck, stack>> /\ tierOff' \in BOOLEAN
    BY <1>16 DEF Switch, SetTierEnabled
  <2>2. QED
    BY <2>1 DEF Inv, EnvironmentTyped, ProfilesTyped, TiersAgree, Absorbed, FramesGood, FramesTyped
<1>17. QED
  BY <1>1, <1>2, <1>4, <1>6, <1>7, <1>8, <1>9, <1>10, <1>11, <1>12, <1>13, <1>14, <1>15, <1>16 DEF Next

(***************************************************************************)
(* The theorems.                                                           *)
(***************************************************************************)
\* In every state the invariant holds.
THEOREM Invariance == Spec => []Inv
BY InitInv, NextInv, PTL DEF Spec

\* Profiles, counters and frames keep their types, whatever is called, decided and
\* switched, with every Go counter within maxCCallDepth.
THEOREM TypeOKAlways == Spec => []TypeOK
<1>1. Inv => TypeOK
  BY DEF Inv, TypeOK, EnvironmentTyped, ProfilesTyped, FramesGood, FramesTyped
<1>2. QED
  BY <1>1, Invariance, PTL

\* For any number of functions, of any shape and any thresholds, a function is
\* decided once: code, tiers and the counters of TierStats agree.
THEOREM TiersAgreeAlways == Spec => []TiersAgree
<1>1. Inv => TiersAgree
  BY DEF Inv
<1>2. QED
  BY <1>1, Invariance, PTL

\* At any depth of calls compiled code runs frames of the main thread only, of
\* functions that have code, and from their first instruction.
THEOREM FramesSoundAlways == Spec => []FramesSound
<1>1. Inv => FramesSound
  BY DEF Inv, FramesGood, Sound, FramesSound
<1>2. QED
  BY <1>1, Invariance, PTL

\* However deep interpreter and compiled code call each other, and whatever the
\* watermark, luaReentry stays within it: the four dispatch sites together leave
\* the raise of reentryCheck unreachable.
THEOREM ReentryBoundedAlways == Spec => []ReentryBounded
<1>1. Inv => ReentryBounded
  <2>1. CASE stack = <<>>
    BY <2>1, CapAssumption DEF ReentryBounded, luaReentry
  <2>2. CASE stack # <<>>
    BY <2>2, TopGood DEF Inv, ReentryBounded
  <2>3. QED
    BY <2>1, <2>2
<1>2. QED
  BY <1>1, Invariance, PTL

(***************************************************************************)
(* The kill switch.                                                        *)
(***************************************************************************)
LEMMA NoneAppended ==
    ASSUME NEW s \in Seq(Frame), \A i \in DOMAIN s : ~s[i].code, NEW f, ~f.code, stack' = Append(s, f)
    PROVE  NoCompiledFrame'
<1>1. Len(s) \in Nat /\ DOMAIN s = 1 .. Len(s) /\ DOMAIN stack' = 1 .. Len(s) + 1
  OBVIOUS
<1>2. stack'[Len(s) + 1] = f /\ \A i \in 1 .. Len(s) : stack'[i] = s[i]
  OBVIOUS
<1>3. QED
  BY <1>1, <1>2 DEF NoCompiledFrame

LEMMA SwitchedOff ==
    ASSUME Inv, Next, tierOff, NoCompiledFrame
    PROVE  NoCompiledFrame'
<1>1. /\ stack \in Seq(Frame) /\ Below \in Seq(Frame)
      /\ \A i \in DOMAIN stack : ~stack[i].code
      /\ \A i \in DOMAIN Below : ~Below[i].code
  <2>1. stack \in Seq(Frame) /\ Below \in Seq(Frame) /\ \A i \in DOMAIN stack : ~stack[i].code
    BY BelowGood DEF Inv, FramesGood, FramesTyped, NoCompiledFrame
  <2>2. CASE Interpreting
    <3> DEFINE f == [Top EXCEPT !.ran = TRUE]
    <3>1. Top \in Frame /\ ~f.code
      BY <2>2, TopTyped DEF Interpreting, Inv, FramesGood, Frame
    <3>2. Below = [stack EXCEPT ![Len(stack)] = f]
      BY <2>2, <2>1, <3>1, TopTyped DEF Below, Inv, FramesGood, Interpreting
    <3>3. DOMAIN Below = DOMAIN stack /\ \A i \in DOMAIN stack : Below[i] = IF i = Len(stack) THEN f ELSE stack[i]
      BY <2>1, <3>2
    <3>4. QED
      BY <2>1, <3>1, <3>3
  <2>3. QED
    BY <2>1, <2>2 DEF Below
<1>2. ~Compiled
  BY <1>1, TopTyped DEF Compiled, Inv, FramesGood, FramesTyped
<1>3. \A p, main : ~GibbousCodeOf(p) /\ ~UnderWatermark(p, main)
  BY DEF GibbousCodeOf, UnderWatermark
<1>4. ASSUME NEW p, NEW below \in {stack, Below}, NEW main, NEW go, NEW c, Enter(p, below, main, FALSE, go, c)
      PROVE  NoCompiledFrame'
  <2>1. ~Started(p, main, FALSE, go, c).code /\ stack' = Append(below, Started(p, main, FALSE, go, c))
    BY <1>4 DEF Enter, Started
  <2>2. QED
    BY <1>1, <2>1, NoneAppended
<1>5. ASSUME stack # <<>> PROVE /\ Front(stack) \in Seq(Frame)
                                /\ \A i \in DOMAIN Front(stack) : ~Front(stack)[i].code
  <2>1. Len(stack) \in Nat \ {0} /\ stack \in Seq(Frame)
    BY <1>1, <1>5
  <2>2. /\ Front(stack) \in Seq(Frame) /\ DOMAIN Front(stack) = 1 .. Len(stack) - 1
        /\ \A i \in 1 .. Len(stack) - 1 : Front(stack)[i] = stack[i]
    BY <2>1, SubSeqProperties DEF Front
  <2>3. QED
    BY <1>1, <2>1, <2>2
<1>6. ASSUME NEW f, ~f.code, stack # <<>>, stack' = ReplaceTop(f) PROVE NoCompiledFrame'
  BY <1>5, <1>6, NoneAppended DEF ReplaceTop
<1>7. \A f, isLua : ~TailRuns(f, isLua)
  BY DEF TailRuns
<1>8. ASSUME NEW p \in Protos, callOnStack(p) PROVE NoCompiledFrame'
  <2>1. Enter(p, stack, TRUE, FALSE, 0, 1)
    <3>1. GibbousCodeOf(p) = FALSE
      BY DEF GibbousCodeOf
    <3>2. QED
      BY <1>8, <3>1 DEF callOnStack
  <2>2. QED
    BY <2>1, <1>4
<1>9. ASSUME NEW p \in Protos, NEW main \in BOOLEAN, callLuaFromHost(p, main) PROVE NoCompiledFrame'
  BY <1>9, <1>4 DEF callLuaFromHost
<1>10. ASSUME NEW p \in Protos, doCall(p) PROVE NoCompiledFrame'
  <2>1. Enter(p, Below, Top.main, FALSE, 0, 0)
    <3>1. UnderWatermark(p, Top.main) = FALSE
      BY DEF GibbousCodeOf, UnderWatermark
    <3>2. QED
      BY <1>10, <3>1 DEF doCall
  <2>2. QED
    BY <2>1, <1>4
<1>11. ASSUME NEW p \in Protos,
              DoCall(p) \/ CallBaseline(p) \/ tryIndirectCallee(p) \/ ExecutePlainCallInlineFrame(p) \/ TailCall(p)
       PROVE  FALSE
  BY <1>2, <1>11 DEF DoCall, CallBaseline, ThroughDoCall, tryIndirectCallee, ExecutePlainCallInlineFrame, TailCall
<1>12. ASSUME NEW p \in Protos, doTailCall(p) PROVE NoCompiledFrame'
  <2> DEFINE f == TailFrame(p, Top.go)
  <2>1. stack # <<>> /\ stack' = ReplaceTop([f EXCEPT !.code = TailRuns(f, TRUE)])
    BY <1>12 DEF doTailCall, Interpreting
  <2>2. ~[f EXCEPT !.code = TailRuns(f, TRUE)].code
    BY <1>7 DEF TailFrame
  <2>3. QED
    BY <2>1, <2>2, <1>6
<1>13. CASE hostTailCall
  <2> DEFINE f == [Top EXCEPT !.ran = TRUE]
  <2>1. stack # <<>> /\ stack' = ReplaceTop([f EXCEPT !.code = TailRuns(f, FALSE)])
    BY <1>13 DEF hostTailCall, Interpreting
  <2>2. Top \in Frame
    BY <2>1, TopTyped DEF Inv, FramesGood
  <2>3. ~[f EXCEPT !.code = TailRuns(f, FALSE)].code
    BY <1>7, <2>2 DEF Frame
  <2>4. QED
    BY <2>1, <2>3, <1>6
<1>14. CASE BackEdge \/ Warms
  BY <1>1, <1>14 DEF BackEdge, Warms, NoCompiledFrame
<1>15. CASE Return
  <2>1. stack # <<>> /\ stack' = Front(stack)
    BY <1>15 DEF Return
  <2>2. QED
    BY <2>1, <1>5 DEF NoCompiledFrame
<1>16. CASE Switch
  BY <1>16 DEF Switch, NoCompiledFrame
<1>17. QED
  BY <1>8, <1>9, <1>10, <1>11, <1>12, <1>13, <1>14, <1>15, <1>16 DEF Next

\* Once SetTierEnabled(false) has been called and the compiled runs in flight have
\* ended, no dispatch site reaches compiled code, at any depth, from any frame.
THEOREM SwitchDrainsAlways == Spec => SwitchDrains
<1>1. Inv /\ [Next]_vars => [tierOff /\ NoCompiledFrame => NoCompiledFrame']_vars
  BY SwitchedOff
<1>2. QED
  BY <1>1, Invariance, PTL DEF Spec, SwitchDrains

(***************************************************************************)
(* The hot milestone.                                                      *)
(***************************************************************************)
\* An event ends in a profile that counted what the event counted.
LEMMA EventCounts ==
    ASSUME NEW p \in Protos, NEW r, Undecided(r), NEW hot, NEW onMain, Event(p, r, hot, onMain)
    PROVE  \E x : pd' = [pd EXCEPT ![p] = x] /\ x \in Profiles /\ x.edges = r.edges
<1>1. ASSUME NEW q, Undecided(q), q.edges = r.edges, Outcome(p, q)
      PROVE  \E x : pd' = [pd EXCEPT ![p] = x] /\ x \in Profiles /\ x.edges = r.edges
  <2>1. Keep(p, q) => pd' = [pd EXCEPT ![p] = q]
    BY DEF Keep
  <2>2. installGibbous(p, q) => pd' = [pd EXCEPT ![p] = [q EXCEPT !.tier = "gibbous", !.tried = TRUE]]
    BY DEF installGibbous
  <2>3. \A c \in Causes : Absorb(p, q, c) => pd' = [pd EXCEPT ![p] = [q EXCEPT !.tier = "stuck", !.tried = TRUE]]
    BY DEF Absorb
  <2>4. /\ q \in Profiles
        /\ [q EXCEPT !.tier = "gibbous", !.tried = TRUE] \in Profiles
        /\ [q EXCEPT !.tier = "stuck", !.tried = TRUE] \in Profiles
        /\ [q EXCEPT !.tier = "gibbous", !.tried = TRUE].edges = q.edges
        /\ [q EXCEPT !.tier = "stuck", !.tried = TRUE].edges = q.edges
    BY <1>1 DEF Undecided, Profiles
  <2>5. QED
    BY <1>1, <2>1, <2>2, <2>3, <2>4 DEF Outcome
<1>2. Undecided(FloorAsked(p, r)) /\ FloorAsked(p, r).edges = r.edges
  BY FloorAskedTyped DEF FloorAsked, Undecided, Profiles
<1>3. ASSUME NEW q, Undecided(q), q.edges = r.edges, considerPromotion(p, q, onMain)
      PROVE  \E y : Undecided(y) /\ y.edges = r.edges /\ Outcome(p, y)
  <2>1. Undecided(Rechecked(p, q)) /\ Rechecked(p, q).edges = r.edges
    BY <1>3, RecheckedTyped DEF Rechecked, Undecided, Profiles
  <2>2. Keep(p, q) \/ Outcome(p, Rechecked(p, q))
    BY <1>3 DEF considerPromotion, Outcome, tryCompileFails, Causes
  <2>3. QED
    BY <1>3, <2>1, <2>2 DEF Outcome
<1>4. \/ Keep(p, r) \/ Keep(p, FloorAsked(p, r))
      \/ considerPromotion(p, r, onMain) \/ considerPromotion(p, FloorAsked(p, r), onMain)
  BY DEF Event
<1>5. \E y : Undecided(y) /\ y.edges = r.edges /\ Outcome(p, y)
  BY <1>2, <1>3, <1>4 DEF Outcome
<1>6. QED
  BY <1>1, <1>5

\* A fresh question that the backend answers with yes is a decision.
LEMMA AskedAfresh ==
    ASSUME ProfilesTyped, NEW p \in Protos, NEW r, Undecided(r), r.recheckedAt = 0,
           recheckCompilabilityRuntime(p), considerPromotion(p, r, TRUE)
    PROVE  pd'[p].tier # "interp"
<1> DEFINE q == Rechecked(p, r)
<1>1. r.entries + 1 # 0 /\ ~AlreadyAsked(p, r)
  BY DEF AlreadyAsked, Undecided, Profiles
<1>2. q \in Profiles /\ q.compilable
  <2>1. Rechecks(p, r) <=> ~r.compilable
    BY DEF Rechecks, needsAutoRecheck, recheckCompilabilityRuntime
  <2>2. Undecided(q)
    BY RecheckedTyped
  <2>3. QED
    BY <2>1, <2>2 DEF Rechecked, Undecided, Profiles
<1>3. Absorb(p, q, "declined") \/ installGibbous(p, q) \/ Absorb(p, q, "compileFailed")
  BY <1>1, <1>2 DEF considerPromotion, tryCompileFails
<1>4. /\ [q EXCEPT !.tier = "gibbous", !.tried = TRUE].tier = "gibbous"
      /\ [q EXCEPT !.tier = "stuck", !.tried = TRUE].tier = "stuck"
  BY <1>2 DEF Profiles
<1>5. QED
  BY <1>3, <1>4 DEF Absorb, installGibbous, ProfilesTyped

LEMMA MilestoneReached ==
    ASSUME Inv, NEW p \in Protos, onBackEdge(p, TRUE), AcceptedNow(p),
           pd'[p].edges = HotBackEdge, pd[p].edges # HotBackEdge
    PROVE  pd'[p].tier # "interp"
<1> DEFINE looped == [pd[p] EXCEPT !.edges = Counted(@)]
           r == Rearmed(looped)
<1>1. Counts(p)
  BY DEF onBackEdge, bridge
<1>2. Undecided(looped)
  <2>1. Undecided(pd[p])
    BY <1>1 DEF Counts, Undecided, Inv, ProfilesTyped, TiersAgree
  <2>2. Counted(pd[p].edges) \in 0 .. MaxCount
    BY <2>1, CountedTyped DEF Undecided, Profiles
  <2>3. QED
    BY <2>1, <2>2 DEF Undecided, Profiles
<1>3. Undecided(r) /\ r.edges = looped.edges
  <2> DEFINE f == looped.floorExempt
  <2>1. (IF f = "no" THEN "unasked" ELSE f) \in {"unasked", "yes", "no"} /\ 0 \in 0 .. MaxCount + 1
    BY <1>2, ThresholdAssumption DEF Undecided, Profiles
  <2>2. QED
    BY <1>2, <2>1 DEF Rearmed, Undecided, Profiles
<1>4. Event(p, r, Hot(r.edges, HotBackEdge), TRUE)
  BY <1>1 DEF onBackEdge
<1>5. r.edges = HotBackEdge
  <2>1. Inv /\ Undecided(r)
    BY <1>3
  <2> HIDE DEF r
  <2>2. \E x : pd' = [pd EXCEPT ![p] = x] /\ x.edges = r.edges
    BY <1>4, <2>1, EventCounts, ZenonT(30)
  <2>3. QED
    BY <2>2 DEF Inv, ProfilesTyped
<1>6. r.recheckedAt = 0 /\ r.floorExempt # "no"
  BY <1>2, <1>3, <1>5 DEF Rearmed, Undecided, Profiles
<1>7. Hot(r.edges, HotBackEdge)
  BY <1>5, ThresholdAssumption DEF Hot
<1>8. recheckCompilabilityRuntime(p)
  BY DEF AcceptedNow
<1>9. CASE considerPromotion(p, r, TRUE)
  BY <1>3, <1>6, <1>8, <1>9, AskedAfresh DEF Inv
<1>10. CASE ~forceAll
  <2> DEFINE s == FloorAsked(p, r)
  <2>1. Undecided(s) /\ s.recheckedAt = 0
    BY <1>3, <1>6, FloorAskedTyped DEF FloorAsked, Undecided, Profiles
  <2>2. ~flooredOut(p, r)
    BY <1>3, <1>6, <1>10 DEF flooredOut, AcceptedNow, ExemptFromFloor, FloorAsked, Undecided, Profiles
  <2>3. considerPromotion(p, s, TRUE)
    BY <1>4, <1>7, <1>10, <2>2 DEF Event
  <2>4. QED
    BY <1>8, <2>1, <2>3, AskedAfresh DEF Inv
<1>11. QED
  BY <1>4, <1>7, <1>9, <1>10 DEF Event

\* Entries count no back edges.
LEMMA EntryKeepsEdges ==
    ASSUME Inv, NEW p \in Protos, NEW onMain, onEnter(p, onMain)
    PROVE  \A q \in Protos : pd'[q].edges = pd[q].edges
<1>1. CASE UNCHANGED bridge
  BY <1>1 DEF bridge
<1>2. CASE Counts(p)
  <2> DEFINE entered == [pd[p] EXCEPT !.entries = Counted(@)]
  <2>1. Undecided(pd[p])
    BY <1>2 DEF Counts, Undecided, Inv, ProfilesTyped, TiersAgree
  <2>2. Undecided(entered) /\ entered.edges = pd[p].edges
    <3>1. Counted(pd[p].entries) \in 0 .. MaxCount
      BY <2>1, CountedTyped DEF Undecided, Profiles
    <3>2. QED
      BY <2>1, <3>1 DEF Undecided, Profiles
  <2>3. Event(p, entered, Hot(entered.entries, HotEntry), onMain)
    BY <1>2 DEF onEnter
  <2> HIDE DEF entered
  <2>4. PICK x : pd' = [pd EXCEPT ![p] = x] /\ x.edges = entered.edges
    BY <2>2, <2>3, EventCounts
  <2>5. x.edges = pd[p].edges
    BY <2>2, <2>4
  <2>6. pd \in [Protos -> Profiles] /\ pd' = [pd EXCEPT ![p] = x]
    BY <2>4 DEF Inv, ProfilesTyped
  <2>7. \A q \in Protos : pd'[q] = IF q = p THEN x ELSE pd[q]
    BY <2>6
  <2>8. QED
    BY <2>5, <2>7
<1>3. QED
  BY <1>1, <1>2 DEF onEnter

LEMMA EdgesChange ==
    ASSUME Inv, Next, ~BackEdge
    PROVE  \A q \in Protos : pd'[q].edges = pd[q].edges
<1>1. ASSUME NEW p \in Protos, NEW onMain, onEnter(p, onMain)
      PROVE  \A q \in Protos : pd'[q].edges = pd[q].edges
  BY <1>1, EntryKeepsEdges
<1>2. ASSUME NEW p \in Protos, NEW below, NEW main, NEW code, NEW go, NEW c, Enter(p, below, main, code, go, c)
      PROVE  \A q \in Protos : pd'[q].edges = pd[q].edges
  BY <1>1, <1>2 DEF Enter
<1>3. ASSUME NEW p \in Protos, callOnStack(p) PROVE \A q \in Protos : pd'[q].edges = pd[q].edges
  BY <1>2, <1>3 DEF callOnStack
<1>4. ASSUME NEW p \in Protos, NEW main \in BOOLEAN, callLuaFromHost(p, main)
      PROVE  \A q \in Protos : pd'[q].edges = pd[q].edges
  BY <1>2, <1>4 DEF callLuaFromHost
<1>5. ASSUME NEW p \in Protos, doCall(p) PROVE \A q \in Protos : pd'[q].edges = pd[q].edges
  BY <1>2, <1>5 DEF doCall
<1>6. ASSUME NEW p \in Protos, ThroughDoCall(p) PROVE \A q \in Protos : pd'[q].edges = pd[q].edges
  BY <1>2, <1>6 DEF ThroughDoCall
<1>7. ASSUME NEW p \in Protos, tryIndirectCallee(p) \/ ExecutePlainCallInlineFrame(p)
      PROVE  \A q \in Protos : pd'[q].edges = pd[q].edges
  BY <1>2, <1>7 DEF tryIndirectCallee, ExecutePlainCallInlineFrame
<1>8. ASSUME NEW p \in Protos, doTailCall(p) \/ TailCall(p) PROVE \A q \in Protos : pd'[q].edges = pd[q].edges
  BY <1>1, <1>8 DEF doTailCall, TailCall
<1>9. ASSUME hostTailCall \/ Warms \/ Return \/ Switch PROVE pd' = pd
  BY <1>9 DEF hostTailCall, Warms, ObserveIC, Return, Switch, SetTierEnabled, bridge
<1>10. QED
  BY <1>3, <1>4, <1>5, <1>6, <1>7, <1>8, <1>9 DEF Next, DoCall, CallBaseline

\* The back edge that takes a function of the main thread to the milestone decides
\* it, whatever its profile remembers of earlier answers, for every threshold.
THEOREM MilestoneDecidesAlways == Spec => MilestoneDecides
<1> DEFINE Reaches(p) == pd'[p].edges = HotBackEdge /\ pd[p].edges # HotBackEdge /\ Top.main /\ AcceptedNow(p)
<1>1. ASSUME Inv, [Next]_vars, NEW p \in Protos, Reaches(p) PROVE pd'[p].tier # "interp"
  <2>1. Next /\ BackEdge
    BY <1>1, EdgesChange DEF vars, bridge
  <2>2. stack # <<>> /\ onBackEdge(Top.proto, Top.main) /\ Top.proto \in Protos /\ Top.main = TRUE
    BY <1>1, <2>1, TopGood DEF BackEdge, Interpreting, Inv
  <2>3. Top.proto = p
    <3>1. CASE UNCHANGED bridge
      BY <1>1, <3>1 DEF bridge
    <3>2. ASSUME NEW q, Outcome(Top.proto, q) PROVE Top.proto = p
      <4>1. \E x : pd' = [pd EXCEPT ![Top.proto] = x]
        BY <3>2 DEF Outcome, Keep, Absorb, installGibbous
      <4>2. QED
        BY <1>1, <2>2, <4>1 DEF Inv, ProfilesTyped
    <3>3. UNCHANGED bridge \/ \E q : Outcome(Top.proto, q)
      BY <1>1, <2>2, HookOutcome DEF Inv
    <3>4. QED
      BY <3>1, <3>2, <3>3
  <2>4. QED
    BY <1>1, <2>2, <2>3, MilestoneReached
<1>2. Inv /\ [Next]_vars
      => [\A p \in Protos : Reaches(p) => pd'[p].tier # "interp"]_vars
  BY <1>1
<1>3. QED
  BY <1>2, Invariance, PTL DEF Spec, MilestoneDecides
=============================================================================
