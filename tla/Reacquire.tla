------------------------------ MODULE Reacquire ------------------------------
(***************************************************************************)
(* The reacquire protocol of the controller (A4.2) as operators on its     *)
(* state, one per method of ReacquireState:                                *)
(*                                                                         *)
(*   NORMAL -> SEEKING          enterSeeking, after a run of rejections    *)
(*   SEEKING -> PROBATION       seek, on ReacquireStableSteps beats alike  *)
(*   SEEKING -> (lost)          seek, beyond ReacquireTimeoutSteps beats   *)
(*   PROBATION -> NORMAL        tickProbation, after ProbationSteps ticks  *)
(*                                                                         *)
(* seeking_steps saturates one above the timeout: the code compares it     *)
(* with nothing else, and only keeps counting while the path is lost.      *)
(* reacquire_events, a lifetime count for diagnostics that nothing reads,  *)
(* is left out.                                                            *)
(***************************************************************************)
EXTENDS Integers

CONSTANTS
    MaxRejectRun,           \* consecutive rejections tolerated
    ReacquireStableSteps,   \* beats on one segment before a commit
    ReacquireTimeoutSteps,  \* beats of seeking before PROJECTION_LOST
    ProbationSteps          \* length of the probation window

ASSUME ReacquireAssumption ==
    /\ MaxRejectRun \in Nat
    /\ ReacquireStableSteps \in Nat \ {0}
    /\ ReacquireTimeoutSteps \in Nat \ {0}
    /\ ProbationSteps \in Nat \ {0}

Modes == {"NORMAL", "SEEKING", "PROBATION"}

NoSeg == -1

ReacquireStates ==
    [mode : Modes,
     seeking_steps : 0..(ReacquireTimeoutSteps + 1),
     stable_run : 0..ReacquireStableSteps,
     stable_seg : Nat \cup {NoSeg},
     probation_left : 0..ProbationSteps]

\* As constructed, and as reset() leaves it.
FreshReacquire ==
    [mode |-> "NORMAL", seeking_steps |-> 0, stable_run |-> 0,
     stable_seg |-> NoSeg, probation_left |-> 0]

\* Mutant of EnterSeeking: the beats of the last episode are still counted.
EnterSeekingKeepsSteps(r) == [r EXCEPT !.mode = "SEEKING"]

EnterSeeking(r) ==
    [r EXCEPT !.mode = "SEEKING", !.seeking_steps = 0,
              !.stable_run = 0, !.stable_seg = NoSeg]

\* Mutant of CountBeat: only a refused candidate counts toward the timeout.
CountRefusedBeat(r, refused) ==
    IF refused /\ r.seeking_steps <= ReacquireTimeoutSteps
    THEN r.seeking_steps + 1 ELSE r.seeking_steps

CountBeat(r, refused) ==
    IF r.seeking_steps <= ReacquireTimeoutSteps
    THEN r.seeking_steps + 1 ELSE r.seeking_steps

\* Mutant of TimedOut: the verdict is not latched.
TimedOutOnce(r) == r.seeking_steps = ReacquireTimeoutSteps

\* Has the beat about to be counted exceeded the timeout?
TimedOut(r) == r.seeking_steps + 1 > ReacquireTimeoutSteps

\* Mutant of StableRun: a beat on another segment does not restart the run.
StableRunOfAnySegment(r, seg, refused) ==
    IF refused THEN 0 ELSE r.stable_run + 1

\* The run of beats on one segment, this candidate included; `refused' is
\* stage 3 of the projection search.
StableRun(r, seg, refused) ==
    IF refused THEN 0 ELSE IF seg = r.stable_seg THEN r.stable_run + 1 ELSE 1

Commits(r, seg, refused) ==
    ~TimedOut(r) /\ StableRun(r, seg, refused) >= ReacquireStableSteps

\* seek(seg, arc, stage): one beat that is within the timeout.
ObserveCandidate(r, seg, refused) ==
    [r EXCEPT !.seeking_steps = CountBeat(r, refused),
              !.stable_run = StableRun(r, seg, refused),
              !.stable_seg = IF refused THEN NoSeg ELSE seg]

\* seek(): the beat that commits opens the probation window.
CommitCandidate(r, seg) ==
    [ObserveCandidate(r, seg, FALSE) EXCEPT
        !.mode = "PROBATION",
        !.probation_left = ProbationSteps]

\* seek(): the beat beyond the timeout; the mode stays SEEKING.
LoseProjection(r) == [r EXCEPT !.seeking_steps = ReacquireTimeoutSteps + 1]

Lost(r) == r.mode = "SEEKING" /\ r.seeking_steps > ReacquireTimeoutSteps

\* Mutant of TickProbation: the window is never closed.
TickProbationForever(r) ==
    IF r.mode = "PROBATION" /\ r.probation_left > 1
    THEN [r EXCEPT !.probation_left = @ - 1] ELSE r

\* tickProbation(): the state it leaves; it returns whether that is PROBATION.
TickProbation(r) ==
    IF r.mode # "PROBATION" THEN r
    ELSE [r EXCEPT !.probation_left = @ - 1,
                   !.mode = IF r.probation_left <= 1 THEN "NORMAL" ELSE @]
=============================================================================
