------------------------------- MODULE Pacing -------------------------------
(***************************************************************************)
(* When internal/gc/collector.go starts a collection by itself, and the    *)
(* word in the arena that tells compiled loops that one is due.  A         *)
(* collection has a beginning and an end, because the finalizers it runs   *)
(* allocate, stop the collector and reach safepoints before it is over.    *)
(* What a collection leaves alive is any of Thresholds.                    *)
(***************************************************************************)
EXTENDS Integers, FiniteSetsExt

CONSTANTS Thresholds,  \* what one collection may set the next threshold to
          MaxSince     \* bound: the allocation count sticks there

ASSUME PacingAssumption == Thresholds \subseteq 1 .. MaxSince /\ Thresholds # {} /\ MaxSince \in Nat

VARIABLES bytesAllocSince, threshold, stopped, stressMode, collecting,
          gcPendingLast,  \* what the collector believes the word says
          gcPending       \* the word compiled back edges read

settings == <<stopped, stressMode>>
pending == <<gcPendingLast, gcPending>>
pacing == <<bytesAllocSince, threshold, settings, collecting, pending>>

gcPendingNow == ~stopped /\ (stressMode \/ bytesAllocSince >= threshold)

updateGCPending ==
    IF gcPendingNow' = gcPendingLast THEN UNCHANGED pending
    ELSE gcPendingLast' = gcPendingNow' /\ gcPending' = gcPendingNow'

PacingInit ==
    /\ bytesAllocSince = 0 /\ threshold \in Thresholds
    /\ stopped = FALSE /\ stressMode = FALSE /\ collecting = FALSE
    /\ gcPendingLast = FALSE /\ gcPending = FALSE

AllocCharge(nbytes) ==
    /\ bytesAllocSince' = Min({MaxSince, bytesAllocSince + nbytes})
    /\ UNCHANGED <<threshold, settings, collecting>>
    /\ updateGCPending

SetStoppedUntold(on) == stopped' = on /\ UNCHANGED <<bytesAllocSince, threshold, stressMode, collecting, pending>>

SetStopped(on) ==
    /\ stopped' = on
    /\ UNCHANGED <<bytesAllocSince, threshold, stressMode, collecting>>
    /\ updateGCPending

SetStressMode(on) ==
    /\ stressMode' = on
    /\ UNCHANGED <<bytesAllocSince, threshold, stopped, collecting>>
    /\ updateGCPending

\* MaybeCollect finds a collection due; one inside another returns at once.
MaybeCollects == gcPendingNow /\ ~collecting

\* Mark, sweep and the first finalizer: the word still asks for a collection.
BeginCollect ==
    /\ ~collecting
    /\ collecting' = TRUE
    /\ UNCHANGED <<bytesAllocSince, threshold, settings, pending>>

\* The last finalizer is back.
EndCollect ==
    /\ collecting' = FALSE
    /\ threshold' \in Thresholds
    /\ bytesAllocSince' = 0
    /\ UNCHANGED settings
    /\ updateGCPending
=============================================================================
