----------------------------- MODULE FramePacer -----------------------------
(***************************************************************************)
(* The frame pacer of one emulator after another: nativeTickFrame draws a  *)
(* frame between beginFrame and endFrameAndSuggestDelayMs, which keeps a   *)
(* running mean of the frame time, switches the target between 60 and 30   *)
(* frames a second, and says how long to wait.  Target, mean and delay are *)
(* touched by the UI thread only.                                          *)
(*                                                                         *)
(* Time is counted in parts of a millisecond; the mean, a double in the    *)
(* code, is rounded to one part, which moves it by less than five parts    *)
(* from where it would settle.                                             *)
(***************************************************************************)
EXTENDS Integers

CONSTANTS
    Ms,             \* time units in a millisecond
    FrameTimes,     \* bound: how long a frame may take
    LongestFrame,   \* not less than any of them
    UserFps,        \* bound: the rates setTargetFps may be asked for
    MaxChanges,     \* bound: calls of setTargetFps and new emulators
    RecoveryFrames  \* see RecoversInTime; bounds the history calm

Second    == 1000 * Ms
SlowLimit == 18 * Ms   \* above it a target of 60 is given up
FastLimit == 20 * Ms   \* below it a target of 30 is

ASSUME PacerAssumption ==
    /\ Ms \in Nat \ {0} /\ UserFps \subseteq Int
    /\ LongestFrame \in Nat /\ FrameTimes \subseteq 0 .. LongestFrame
    /\ MaxChanges \in Nat /\ RecoveryFrames \in Nat

VARIABLES
    targetFps,   \* targetFps_
    avg,         \* avgFrameNs_
    elapsed,     \* the time of the last frame, or 0
    delay,       \* the milliseconds the loop waits after it
    changes,     \* counts what MaxChanges bounds
    slow,        \* history: this pacer has seen a frame above SlowLimit
    calm,        \* history: the latest frames in a row that were fit for 60 fps
    odd          \* history: the number of frames is odd

pacerVars == <<targetFps, avg, elapsed, delay, changes, slow, calm, odd>>

TargetFrame(fps) == Second \div fps

\* What is left of a mean of LongestFrame after n frames of the target's length.
Decay[n \in 0 .. RecoveryFrames] ==
    IF n = 0 THEN LongestFrame ELSE (9 * Decay[n - 1] + TargetFrame(60) + 5) \div 10

\* RecoveryFrames are enough for it to fall below both limits.
ASSUME RecoveryAssumption ==
    TargetFrame(60) <= LongestFrame /\ Decay[RecoveryFrames] <= SlowLimit

PacerInit ==
    /\ targetFps = 60 /\ avg = TargetFrame(60)
    /\ elapsed = 0 /\ delay = 0 /\ changes = 0
    /\ slow = FALSE /\ calm = 0 /\ odd = FALSE
-----------------------------------------------------------------------------
\* nativeSetTargetFps: any rate, at least 1; the mean stays.
SetTargetFps(fps) ==
    /\ changes < MaxChanges
    /\ changes' = changes + 1
    /\ targetFps' = IF fps < 1 THEN 1 ELSE fps
    /\ UNCHANGED <<avg, elapsed, delay, slow, calm, odd>>

\* The pacer goes with its emulator (nativeShutdown), and the next one starts
\* afresh: what the user had set is gone.
NewEmulator ==
    /\ changes < MaxChanges
    /\ changes' = changes + 1
    /\ targetFps' = 60 /\ avg' = TargetFrame(60)
    /\ elapsed' = 0 /\ delay' = 0 /\ slow' = FALSE /\ calm' = 0
    /\ odd' = FALSE

\* Mutant: the weights of the old mean and the new frame add up to more than 1.
HeavyMean(frame) == (10 * avg + frame + 5) \div 10

\* 0.9 * avgFrameNs_ + 0.1 * elapsed, rounded.
Mean(frame) == (9 * avg + frame + 5) \div 10

\* Mutant: 60 is only tried again when the mean leaves room to spare.
AdjustedLate(mean) ==
    IF targetFps >= 60 /\ mean > SlowLimit THEN 30
    ELSE IF targetFps = 30 /\ mean < 16 * Ms THEN 60
    ELSE targetFps

\* Mutant: the target is given up as soon as the mean misses its frame.
AdjustedAtTarget(mean) ==
    IF targetFps >= 60 /\ mean > TargetFrame(targetFps) THEN 30
    ELSE IF targetFps = 30 /\ mean < FastLimit THEN 60
    ELSE targetFps

\* Mutant: only a target of exactly 60 is given up.
AdjustedAt60(mean) ==
    IF targetFps = 60 /\ mean > SlowLimit THEN 30
    ELSE IF targetFps = 30 /\ mean < FastLimit THEN 60
    ELSE targetFps

\* autoAdjust
Adjusted(mean) ==
    IF targetFps >= 60 /\ mean > SlowLimit THEN 30
    ELSE IF targetFps = 30 /\ mean < FastLimit THEN 60
    ELSE targetFps

AtLeast(x, low)  == IF x < low THEN low ELSE x
AtMost(x, high)  == IF x > high THEN high ELSE x

\* The rest of the target's frame in whole milliseconds, rounded up.
Remaining(fps, frame) == (AtLeast(TargetFrame(fps) - frame, 0) + Ms - 1) \div Ms

\* Mutant: the wait is computed for the target before it was adjusted.
DelayBefore(fps, frame) == AtLeast(AtMost(Remaining(targetFps, frame), 100), 1)

\* At most 1000 from the pacer, then 1 to 100 in the loop.
Delay(fps, frame) ==
    AtLeast(AtMost(AtMost(Remaining(fps, frame), 1000), 100), 1)

EndFrame(frame) ==
    /\ avg' = Mean(frame)
    /\ targetFps' = Adjusted(Mean(frame))
    /\ delay' = Delay(Adjusted(Mean(frame)), frame)
    /\ elapsed' = frame
    /\ slow' = (slow \/ frame > SlowLimit)
    /\ calm' = IF frame > TargetFrame(60) THEN 0 ELSE AtMost(calm + 1, RecoveryFrames)
    /\ odd' = ~odd
    /\ UNCHANGED changes

TickFrame == \E frame \in FrameTimes : EndFrame(frame)

PacerNext ==
    \/ TickFrame
    \/ \E fps \in UserFps : SetTargetFps(fps)
    \/ NewEmulator

PacerSpec == PacerInit /\ [][PacerNext]_pacerVars

\* The frame loop goes on (AppLifecycle!FramesKeepComing); nothing makes a
\* user change the target.  A frame that leaves all else as it was flips odd: a
\* steady load whose mean has settled is frame after frame, not stuttering.
PacerFairSpec == PacerSpec /\ WF_pacerVars(TickFrame)
-----------------------------------------------------------------------------
(***************************************************************************)
(* Properties.                                                             *)
(***************************************************************************)
\* The type of the state; the mean never leaves the range of the frames.
PacerTypeOK ==
    /\ targetFps \in Nat \ {0} /\ elapsed \in FrameTimes \cup {0}
    /\ delay \in 0 .. 100
    /\ avg = TargetFrame(60) \/ avg \in 0 .. SlowLimit
         \/ \E frame \in FrameTimes : avg \in 0 .. frame
    /\ changes \in 0 .. MaxChanges
    /\ slow \in BOOLEAN /\ calm \in 0 .. RecoveryFrames /\ odd \in BOOLEAN

\* A frame gives up a target of 60 or more only if this pacer has seen a frame
\* longer than 18 ms (FramePacer.cpp:41): neither the mean, nor the switches, nor
\* what the user sets in between, nor a new emulator lower the rate of a
\* game that keeps up.
DropNeedsSlowFrame ==
    [][TickFrame /\ targetFps >= 60 /\ targetFps' < 60
         => slow']_pacerVars

\* Whatever stalls came before - a frame may wait a second for a fence
\* (VulkanRenderer.cpp:50) - and whatever was asked for in between, the low rate
\* is left, and no longer flips, by the time RecoveryFrames frames in a row were
\* fit for 60 fps, a number that depends on the longest frame (RecoveryAssumption).
RecoversInTime ==
    [][TickFrame /\ calm' = RecoveryFrames => targetFps' # 30]_pacerVars

\* A frame and the wait after it take the target's time, or the frame's own when
\* it is longer, and at most a millisecond more - also in the frame that changes the
\* target (FramePacer.cpp:30-31).  Below 10 fps the loop's limit of 100 ms
\* (MainActivity.kt:505) cuts the wait.
FramesArePaced ==
    [][TickFrame =>
         LET wanted == AtLeast(TargetFrame(targetFps'), elapsed')
             taken  == elapsed' + Ms * delay'
         IN  /\ taken <= wanted + Ms
             /\ taken >= wanted \/ delay' = 100]_pacerVars

\* A load that stays on one side of both limits settles: slow frames end below 60
\* whatever rate of 60 or more was asked for, fast ones never stay at 30.
SteadyLoadSettles ==
    /\ <>[](elapsed > FastLimit + 5) => <>[](targetFps < 60)
    /\ <>[](elapsed \in 1 .. (SlowLimit - 5)) => <>[](targetFps # 30)

\* Every steady load settles, whatever its frames take: 60 is restored when the
\* mean is low "consistently" (FramePacer.cpp:45), so not by the very load for
\* which it was given up.  The code asks for one mean below a limit that is above the
\* one at which 60 is given up.
EveryLoadSettles ==
    (\E frame \in FrameTimes : <>[](elapsed = frame))
      => <>[](targetFps = 30) \/ <>[](targetFps # 30)
=============================================================================
