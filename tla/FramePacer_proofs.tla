-------------------------- MODULE FramePacer_proofs --------------------------
(***************************************************************************)
(* What the pacer keeps whatever the frames take, whatever rates are asked *)
(* for and however often emulators are replaced: its type, the reason for  *)
(* every drop to 30 and the return from it, and the length of a frame with *)
(* its wait.                                                               *)
(***************************************************************************)
EXTENDS FramePacer, TLAPS, WellFoundedInduction

\* The mean of a mean and a frame is not above both.
LEMMA MeanBounded ==
    ASSUME NEW a \in Nat, NEW f \in Nat, NEW m \in Nat, a <= m, f <= m
    PROVE  (9 * a + f + 5) \div 10 \in 0 .. m
  BY SMT

LEMMA FirstMean == TargetFrame(60) \in 0 .. SlowLimit /\ SlowLimit \in Nat
  BY PacerAssumption, SMT DEF TargetFrame, Second, SlowLimit

LEMMA TargetFrameIsNat == \A fps \in Nat \ {0} : TargetFrame(fps) \in Nat
  BY PacerAssumption, SMT DEF TargetFrame, Second

\* A number of milliseconds rounded up.
LEMMA RoundedUp ==
    ASSUME NEW x \in Nat, NEW m \in Nat \ {0}
    PROVE  /\ (x + m - 1) \div m \in Nat
           /\ m * ((x + m - 1) \div m) >= x
           /\ m * ((x + m - 1) \div m) <= x + m
  <1> DEFINE y == x + m - 1
             q == y \div m
  <1>1. y \in Nat
    BY SMT
  <1>2. q \in Int /\ y = m * q + (y % m) /\ y % m \in 0 .. (m - 1)
    BY <1>1, SMT
  <1>3. q >= 0
    BY <1>1, <1>2, SMT
  <1> QED
    BY <1>2, <1>3, SMT
-----------------------------------------------------------------------------
\* The mean is above 18 ms only because of a frame that was.
MeanExplained == slow \/ avg <= SlowLimit

PacerInv == PacerTypeOK /\ MeanExplained

LEMMA MeanIsNat == PacerTypeOK => avg \in Nat
  BY PacerAssumption, FirstMean DEF PacerTypeOK

LEMMA DelayInRange ==
    ASSUME NEW fps \in Nat \ {0}, NEW frame \in Nat
    PROVE  Delay(fps, frame) \in 1 .. 100
  <1> DEFINE rest == AtLeast(TargetFrame(fps) - frame, 0)
  <1>1. TargetFrame(fps) \in Nat
    BY TargetFrameIsNat
  <1>2. rest \in Nat
    BY <1>1 DEF AtLeast
  <1>3. Remaining(fps, frame) \in Nat
    BY <1>2, RoundedUp, PacerAssumption DEF Remaining
  <1> QED
    BY <1>3 DEF Delay, AtLeast, AtMost

\* autoAdjust asks for a rate that exists.
LEMMA AdjustedIsRate ==
    ASSUME targetFps \in Nat \ {0}, NEW mean
    PROVE  Adjusted(mean) \in Nat \ {0}
  BY DEF Adjusted

LEMMA InitPacerInv == PacerInit => PacerInv
  <1> SUFFICES ASSUME PacerInit PROVE PacerInv
    OBVIOUS
  <1>1. avg <= SlowLimit
    BY FirstMean, SMT DEF PacerInit
  <1>2. changes \in 0 .. MaxChanges /\ calm \in 0 .. RecoveryFrames
    BY PacerAssumption, SMT DEF PacerInit
  <1>3. targetFps \in Nat \ {0} /\ delay \in 0 .. 100
    BY SMT DEF PacerInit
  <1>4. PacerTypeOK
    BY <1>2, <1>3, Zenon DEF PacerInit, PacerTypeOK
  <1> QED
    BY <1>1, <1>4 DEF PacerInv, MeanExplained

\* The mean stays where the frames and the first mean are.
LEMMA MeanStays ==
    ASSUME PacerTypeOK, NEW frame \in FrameTimes
    PROVE  /\ Mean(frame) \in 0 .. SlowLimit
                \/ \E f \in FrameTimes : Mean(frame) \in 0 .. f
           /\ MeanExplained => frame > SlowLimit \/ slow \/ Mean(frame) <= SlowLimit
  <1>1. /\ SlowLimit \in Nat /\ frame \in Nat /\ avg \in Nat
        /\ avg \in 0 .. SlowLimit \/ \E f \in FrameTimes : avg \in 0 .. f
    BY FirstMean, MeanIsNat, PacerAssumption DEF PacerTypeOK
  <1>2. ASSUME NEW m \in Nat, avg <= m, frame <= m
        PROVE  Mean(frame) \in 0 .. m
    BY <1>1, <1>2, MeanBounded DEF Mean
  <1>3. CASE avg <= frame
    <2>1. Mean(frame) \in 0 .. frame
      BY <1>1, <1>2, <1>3
    <2>2. frame <= SlowLimit => Mean(frame) <= SlowLimit
      BY <1>1, <2>1
    <2> QED
      BY <1>1, <2>1, <2>2
  <1>4. CASE ~(avg <= frame)
    <2>1. Mean(frame) \in 0 .. avg
      BY <1>1, <1>2, <1>4
    <2>2. Mean(frame) \in 0 .. SlowLimit \/ \E f \in FrameTimes : Mean(frame) \in 0 .. f
      <3>1. CASE avg \in 0 .. SlowLimit
        BY <1>1, <2>1, <3>1
      <3>2. CASE \E f \in FrameTimes : avg \in 0 .. f
        <4>1. PICK f \in FrameTimes : avg \in 0 .. f
          BY <3>2
        <4>2. f \in Nat
          BY <4>1, PacerAssumption
        <4>3. Mean(frame) \in 0 .. f
          BY <1>1, <2>1, <4>1, <4>2
        <4> QED
          BY <4>1, <4>3
      <3> QED
        BY <1>1, <3>1, <3>2
    <2>3. MeanExplained => slow \/ Mean(frame) <= SlowLimit
      BY <1>1, <2>1 DEF MeanExplained
    <2> QED
      BY <2>2, <2>3
  <1> QED
    BY <1>3, <1>4

LEMMA NextPacerInv == PacerInv /\ [PacerNext]_pacerVars => PacerInv'
  <1> SUFFICES ASSUME PacerInv, [PacerNext]_pacerVars PROVE PacerInv'
    OBVIOUS
  <1> USE DEF PacerInv
  <1>1. CASE UNCHANGED pacerVars
    BY <1>1 DEF pacerVars, PacerTypeOK, MeanExplained
  <1>2. ASSUME NEW frame \in FrameTimes, EndFrame(frame)
        PROVE  PacerInv'
    <2>1. frame \in Nat
      BY PacerAssumption
    <2>2. targetFps' \in Nat \ {0}
      BY <1>2, AdjustedIsRate DEF EndFrame, PacerTypeOK
    <2>3. delay' \in 0 .. 100
      <3>1. Delay(Adjusted(Mean(frame)), frame) \in 1 .. 100
        BY <1>2, <2>1, <2>2, DelayInRange DEF EndFrame
      <3> QED
        BY <1>2, <3>1 DEF EndFrame
    <2>4. /\ avg' \in 0 .. SlowLimit \/ \E f \in FrameTimes : avg' \in 0 .. f
          /\ MeanExplained'
      BY <1>2, MeanStays DEF EndFrame, MeanExplained
    <2>5. /\ elapsed' \in FrameTimes \cup {0} /\ changes' \in 0 .. MaxChanges
          /\ slow' \in BOOLEAN /\ calm' \in 0 .. RecoveryFrames
      BY <1>2, PacerAssumption DEF EndFrame, PacerTypeOK, AtMost
    <2>6. odd' \in BOOLEAN
      BY <1>2, Zenon DEF EndFrame
    <2> QED
      BY <2>2, <2>3, <2>4, <2>5, <2>6 DEF PacerTypeOK
  <1>3. ASSUME NEW fps \in UserFps, SetTargetFps(fps)
        PROVE  PacerInv'
    <2>1. targetFps' \in Nat \ {0} /\ changes' \in 0 .. MaxChanges
      BY <1>3, PacerAssumption DEF SetTargetFps, PacerTypeOK
    <2> QED
      BY <1>3, <2>1 DEF SetTargetFps, PacerTypeOK, MeanExplained
  <1>4. CASE NewEmulator
    <2>1. changes' \in 0 .. MaxChanges
      BY <1>4, PacerAssumption DEF NewEmulator, PacerTypeOK
    <2>2. avg' <= SlowLimit
      <3>1. avg' = TargetFrame(60)
        BY <1>4 DEF NewEmulator
      <3> QED
        BY <3>1, FirstMean
    <2>3. PacerTypeOK'
      <3>1. /\ targetFps' \in Nat \ {0} /\ delay' \in 0 .. 100
            /\ calm' \in 0 .. RecoveryFrames
        BY <1>4, PacerAssumption, SMT DEF NewEmulator
      <3>2. avg' = TargetFrame(60) /\ elapsed' = 0 /\ slow' = FALSE /\ odd' = FALSE
        BY <1>4 DEF NewEmulator
      <3> QED
        BY <2>1, <3>1, <3>2, Zenon DEF PacerTypeOK, TargetFrame, Second
    <2> QED
      BY <2>2, <2>3, Zenon DEF MeanExplained, SlowLimit
  <1> QED
    BY <1>1, <1>2, <1>3, <1>4 DEF PacerNext, TickFrame

LEMMA AlwaysPacerInv == PacerSpec => []PacerInv
  BY InitPacerInv, NextPacerInv, PTL DEF PacerSpec
-----------------------------------------------------------------------------
\* The pacer's state keeps its type: the rate is never 0, which would divide by
\* zero (FramePacer.cpp:16), the wait is 100 ms at most, and the mean stays within
\* the frames it is made of.
THEOREM PacerTypeCorrect == PacerSpec => []PacerTypeOK
  BY AlwaysPacerInv, PTL DEF PacerInv

\* Whatever the frames, the rates asked for and the emulators in between, a
\* rate of 60 or more is given up only after a frame longer than 18 ms.
THEOREM DropsAreExplained == PacerSpec => DropNeedsSlowFrame
  <1>1. PacerInv /\ [PacerNext]_pacerVars
          => [TickFrame /\ targetFps >= 60 /\ targetFps' < 60 => slow']_pacerVars
    <2> SUFFICES ASSUME PacerInv, TickFrame, targetFps >= 60, targetFps' < 60
                 PROVE  slow'
      OBVIOUS
    <2>1. PICK frame \in FrameTimes : EndFrame(frame)
      BY DEF TickFrame
    <2>2. SlowLimit \in Nat /\ frame \in Nat /\ Mean(frame) \in Int
      <3>1. \E f \in Nat : Mean(frame) \in 0 .. f
        BY MeanStays, FirstMean, PacerAssumption DEF PacerInv
      <3> QED
        BY <3>1, FirstMean, PacerAssumption
    <2>3. Mean(frame) > SlowLimit
      BY <2>1, <2>2 DEF EndFrame, Adjusted, PacerInv, PacerTypeOK
    <2>4. frame > SlowLimit \/ slow
      BY <2>2, <2>3, MeanStays DEF PacerInv
    <2> QED
      BY <2>1, <2>4 DEF EndFrame
  <1> QED
    BY <1>1, AlwaysPacerInv, PTL DEF PacerSpec, DropNeedsSlowFrame

\* A frame and its wait last as long as the target's frame, or as the frame itself,
\* and less than a millisecond more, in every unit of time and for every rate.
THEOREM PacedExactly == PacerSpec => FramesArePaced
  <1>1. PacerInv /\ [PacerNext]_pacerVars
          => [TickFrame =>
                LET wanted == AtLeast(TargetFrame(targetFps'), elapsed')
                    taken  == elapsed' + Ms * delay'
                IN  /\ taken <= wanted + Ms
                    /\ taken >= wanted \/ delay' = 100]_pacerVars
    <2> SUFFICES ASSUME PacerInv, [PacerNext]_pacerVars, TickFrame
                 PROVE  LET wanted == AtLeast(TargetFrame(targetFps'), elapsed')
                            taken  == elapsed' + Ms * delay'
                        IN  /\ taken <= wanted + Ms
                            /\ taken >= wanted \/ delay' = 100
      OBVIOUS
    <2>1. PICK frame \in FrameTimes : EndFrame(frame)
      BY DEF TickFrame
    <2> DEFINE target == TargetFrame(targetFps')
               rest   == AtLeast(target - frame, 0)
               r      == (rest + Ms - 1) \div Ms
    <2>2. frame \in Nat /\ Ms \in Nat \ {0} /\ Second \in Nat
      BY PacerAssumption, SMT DEF Second
    <2>3. targetFps' \in Nat \ {0}
      BY NextPacerInv DEF PacerInv, PacerTypeOK
    <2>4. target \in Nat
      BY <2>3, TargetFrameIsNat
    <2>5. rest \in Nat
      BY <2>2, <2>4 DEF AtLeast
    <2>6. r \in Nat /\ Ms * r >= rest /\ Ms * r <= rest + Ms
      BY <2>2, <2>5, RoundedUp
    <2>7. elapsed' = frame
          /\ delay' = AtLeast(AtMost(AtMost(r, 1000), 100), 1)
      BY <2>1 DEF EndFrame, Delay, Remaining
    <2> HIDE DEF r, rest, target
    <2>8. CASE r = 0
      <3>1. delay' = 1
        BY <2>7, <2>8 DEF AtLeast, AtMost
      <3>2. rest = 0
        BY <2>2, <2>5, <2>6, <2>8, SMT
      <3>3. target <= frame
        BY <2>2, <2>4, <3>2, SMT DEF rest, AtLeast
      <3>4. AtLeast(target, frame) = frame
        BY <2>2, <2>4, <3>3, SMT DEF AtLeast
      <3> QED
        BY <2>2, <2>7, <3>1, <3>4, SMT DEF target
    <2>9. CASE r \in 1 .. 100
      <3>1. delay' = r
        BY <2>7, <2>9, SMT DEF AtLeast, AtMost
      <3>2. AtLeast(target, frame) = frame + rest
        BY <2>2, <2>4, SMT DEF rest, AtLeast
      <3> QED
        BY <2>2, <2>5, <2>6, <2>7, <3>1, <3>2, SMT DEF target
    <2>10. CASE r > 100
      <3>1. delay' = 100
        BY <2>6, <2>7, <2>10, SMT DEF AtLeast, AtMost
      <3>2. AtLeast(target, frame) = frame + rest
        BY <2>2, <2>4, SMT DEF rest, AtLeast
      <3>3. Ms * 100 <= Ms * r
        BY <2>2, <2>6, <2>10, SMT
      <3> QED
        BY <2>2, <2>5, <2>6, <2>7, <3>1, <3>2, <3>3, SMT DEF target
    <2> QED
      BY <2>6, <2>8, <2>9, <2>10
  <1> QED
    BY <1>1, AlwaysPacerInv, PTL DEF PacerSpec, FramesArePaced
-----------------------------------------------------------------------------
(***************************************************************************)
(* Recovery.  The mean is below what Decay leaves of the longest frame     *)
(* after as many frames as calm counts, whatever came before them.         *)
(***************************************************************************)
LEMMA Induction ==
    ASSUME NEW S, 0 \in S, \A n \in Nat : n \in S => n + 1 \in S
    PROVE  Nat \subseteq S
  <1> SUFFICES ASSUME Nat \ S # {} PROVE FALSE
    OBVIOUS
  <1> DEFINE R == OpToRel(<, Nat)
             T == Nat \ S
  <1>1. R = {ss \in Nat \X Nat : ss[1] < ss[2]}
    BY DEF OpToRel
  <1>2. IsWellFoundedOn(R, Nat)
    BY NatLessThanWellFounded
  <1> HIDE DEF R
  <1>3. PICK m \in T : \A y \in T : ~ (<<y, m>> \in R)
    <2>1. T \in SUBSET Nat /\ T # {}
      OBVIOUS
    <2> HIDE DEF T
    <2> QED
      BY <1>2, <2>1, WFMin
  <1>4. m # 0 /\ m - 1 \in Nat /\ (m - 1) + 1 = m
    BY <1>3
  <1>5. m - 1 \notin T
    <2>1. m \in Nat
      OBVIOUS
    <2>2. <<m - 1, m>> \in R
      BY <1>1, <1>4, <2>1
    <2> QED
      BY <1>3, <2>2
  <1> QED
    BY <1>3, <1>4, <1>5

Faded(d) == (9 * d + TargetFrame(60) + 5) \div 10

FadesUpTo(n, f) ==
    /\ DOMAIN f = 0 .. n /\ f[0] = LongestFrame
    /\ \A m \in 1 .. n : f[m] = Faded(f[m - 1])

Fades(f) == f = [n \in 0 .. RecoveryFrames |->
                    IF n = 0 THEN LongestFrame ELSE Faded(f[n - 1])]

LEMMA DecayExists == \E f : Fades(f)
  <1> DEFINE T == {n \in Nat : \E f : FadesUpTo(n, f)}
  <1>1. 0 \in T
    <2>1. FadesUpTo(0, [m \in 0 .. 0 |-> LongestFrame])
      BY DEF FadesUpTo
    <2> QED
      BY <2>1
  <1>2. ASSUME NEW n \in Nat, n \in T PROVE n + 1 \in T
    <2>1. PICK g : FadesUpTo(n, g)
      BY <1>2
    <2> DEFINE f == [m \in 0 .. (n + 1) |-> IF m = n + 1 THEN Faded(g[n]) ELSE g[m]]
    <2>2. DOMAIN f = 0 .. (n + 1) /\ f[0] = LongestFrame
      BY <2>1 DEF FadesUpTo
    <2>3. ASSUME NEW m \in 1 .. (n + 1) PROVE f[m] = Faded(f[m - 1])
      <3>1. m - 1 \in 0 .. n /\ m - 1 \in 0 .. (n + 1) /\ m - 1 # n + 1
        OBVIOUS
      <3>2. f[m - 1] = g[m - 1]
        BY <3>1
      <3>3. CASE m = n + 1
        <4>1. m - 1 = n /\ f[m] = Faded(g[n])
          BY <3>3
        <4> QED
          BY <3>2, <4>1
      <3>4. CASE m # n + 1
        <4>1. m \in 1 .. n /\ f[m] = g[m]
          BY <3>4
        <4> QED
          BY <2>1, <3>2, <4>1 DEF FadesUpTo
      <3> QED
        BY <3>3, <3>4
    <2> HIDE DEF f
    <2>4. FadesUpTo(n + 1, f)
      BY <2>2, <2>3 DEF FadesUpTo
    <2> QED
      BY <2>4
  <1> HIDE DEF T
  <1>3. RecoveryFrames \in T
    BY <1>1, <1>2, Induction, PacerAssumption
  <1>4. PICK f : FadesUpTo(RecoveryFrames, f)
    BY <1>3 DEF T
  <1> DEFINE g == [n \in 0 .. RecoveryFrames |-> f[n]]
  <1>5. ASSUME NEW n \in 0 .. RecoveryFrames
        PROVE  g[n] = IF n = 0 THEN LongestFrame ELSE Faded(g[n - 1])
    <2>1. CASE n = 0
      BY <1>4, <2>1 DEF FadesUpTo
    <2>2. CASE n # 0
      <3>1. n \in 1 .. RecoveryFrames /\ n - 1 \in 0 .. RecoveryFrames
        BY <2>2, PacerAssumption
      <3> QED
        BY <1>4, <2>2, <3>1 DEF FadesUpTo
    <2> QED
      BY <2>1, <2>2
  <1>6. Fades(g)
    BY <1>5 DEF Fades
  <1> QED
    BY <1>6

LEMMA DecayStep ==
    /\ Decay[0] = LongestFrame
    /\ \A n \in 1 .. RecoveryFrames : Decay[n] = Faded(Decay[n - 1])
  <1>1. Decay = CHOOSE f : Fades(f)
    BY DEF Decay, Fades, Faded
  <1>2. Fades(Decay)
    BY <1>1, DecayExists
  <1> HIDE DEF Decay
  <1>3. Decay[0] = LongestFrame
    <2>1. 0 \in 0 .. RecoveryFrames
      BY PacerAssumption
    <2> QED
      BY <1>2, <2>1 DEF Fades
  <1>4. ASSUME NEW n \in 1 .. RecoveryFrames PROVE Decay[n] = Faded(Decay[n - 1])
    <2>1. n \in 0 .. RecoveryFrames /\ n # 0
      BY PacerAssumption
    <2> QED
      BY <1>2, <2>1 DEF Fades
  <1> QED
    BY <1>3, <1>4

LEMMA DecayIsNat == \A n \in 0 .. RecoveryFrames : Decay[n] \in Nat
  <1> DEFINE T == {n \in Nat : n <= RecoveryFrames => Decay[n] \in Nat}
  <1>1. 0 \in T
    BY DecayStep, PacerAssumption
  <1>2. ASSUME NEW n \in Nat, n \in T PROVE n + 1 \in T
    <2> SUFFICES ASSUME n + 1 <= RecoveryFrames PROVE Decay[n + 1] \in Nat
      OBVIOUS
    <2>1. n + 1 \in 1 .. RecoveryFrames /\ (n + 1) - 1 = n /\ n <= RecoveryFrames
      BY PacerAssumption
    <2>2. Decay[n + 1] = Faded(Decay[n]) /\ Decay[n] \in Nat
      BY <1>2, <2>1, DecayStep
    <2>3. Faded(Decay[n]) \in Nat
      <3>1. TargetFrame(60) \in Nat
        BY FirstMean
      <3> HIDE DEF Decay
      <3> QED
        BY <2>2, <3>1 DEF Faded
    <2> QED
      BY <2>2, <2>3
  <1> HIDE DEF T
  <1>3. Nat \subseteq T
    BY <1>1, <1>2, Induction
  <1> QED
    BY <1>3, PacerAssumption DEF T

MeanRecovers ==
    /\ avg <= LongestFrame
    /\ calm < RecoveryFrames => avg <= Decay[calm]
    /\ calm = RecoveryFrames => avg <= SlowLimit

\* A frame fit for 60 fps takes the mean below d to one below Faded(d), and one
\* below 18 ms to one below 18 ms.
LEMMA FitFrame ==
    ASSUME NEW d \in Nat, avg \in Nat, avg <= d,
           NEW frame \in Nat, frame <= TargetFrame(60)
    PROVE  /\ Mean(frame) \in Nat
           /\ Mean(frame) <= Faded(d)
           /\ d <= SlowLimit => Mean(frame) <= SlowLimit
  <1>1. TargetFrame(60) \in Nat /\ TargetFrame(60) <= SlowLimit /\ SlowLimit \in Nat
    BY FirstMean
  <1>2. 9 * avg + frame + 5 <= 9 * d + TargetFrame(60) + 5
    BY <1>1
  <1>3. Mean(frame) \in Nat /\ Mean(frame) <= Faded(d)
    BY <1>1, <1>2 DEF Mean, Faded
  <1>4. d <= SlowLimit => Faded(d) <= SlowLimit
    BY <1>1 DEF Faded
  <1>5. Faded(d) \in Int
    BY <1>1 DEF Faded
  <1> QED
    BY <1>1, <1>3, <1>4, <1>5

\* One frame keeps MeanRecovers.
LEMMA FrameRecovers ==
    ASSUME PacerTypeOK, MeanRecovers, NEW frame \in FrameTimes, EndFrame(frame)
    PROVE  MeanRecovers'
  <1>1. /\ frame \in Nat /\ frame <= LongestFrame /\ LongestFrame \in Nat
        /\ avg \in Nat /\ calm \in 0 .. RecoveryFrames /\ RecoveryFrames \in Nat
        /\ SlowLimit \in Nat /\ TargetFrame(60) \in Nat
    BY MeanIsNat, FirstMean, PacerAssumption DEF PacerTypeOK
  <1>2. /\ avg' = Mean(frame)
        /\ calm' = IF frame > TargetFrame(60) THEN 0 ELSE AtMost(calm + 1, RecoveryFrames)
    BY DEF EndFrame
  <1>3. \A n \in 0 .. RecoveryFrames : Decay[n] \in Nat
    BY DecayIsNat
  <1>4. Decay[0] = LongestFrame /\ Decay[RecoveryFrames] <= SlowLimit
    BY DecayStep, RecoveryAssumption
  <1>5. avg <= LongestFrame
    BY DEF MeanRecovers
  <1> HIDE DEF Decay
  <1>6. avg' <= LongestFrame /\ avg' \in Nat
    <2>1. Mean(frame) \in 0 .. LongestFrame
      BY <1>1, <1>5, MeanBounded DEF Mean
    <2> QED
      BY <1>1, <1>2, <2>1
  <1>7. CASE frame > TargetFrame(60)
    <2>1. calm' = 0
      BY <1>2, <1>7
    <2>2. calm' = RecoveryFrames => avg' <= SlowLimit
      BY <1>1, <1>4, <1>6, <2>1
    <2> QED
      BY <1>4, <1>6, <2>1, <2>2 DEF MeanRecovers
  <1>8. CASE frame <= TargetFrame(60) /\ calm < RecoveryFrames
    <2>1. calm' = calm + 1 /\ calm + 1 \in 1 .. RecoveryFrames /\ (calm + 1) - 1 = calm
      BY <1>1, <1>2, <1>8 DEF AtMost
    <2>2. avg <= Decay[calm] /\ Decay[calm] \in Nat
      BY <1>1, <1>3, <1>8 DEF MeanRecovers
    <2>3. Decay[calm + 1] = Faded(Decay[calm])
      BY <2>1, DecayStep
    <2>4. avg' <= Decay[calm']
      BY <1>1, <1>2, <1>8, <2>1, <2>2, <2>3, FitFrame
    <2>5. calm' = RecoveryFrames => avg' <= SlowLimit
      <3>1. Decay[RecoveryFrames] \in Nat
        BY <1>1, <1>3
      <3> QED
        BY <1>1, <1>4, <1>6, <2>4, <3>1
    <2> QED
      BY <1>6, <2>4, <2>5 DEF MeanRecovers
  <1>9. CASE frame <= TargetFrame(60) /\ calm = RecoveryFrames
    <2>1. calm' = RecoveryFrames
      BY <1>1, <1>2, <1>9 DEF AtMost
    <2>2. avg <= SlowLimit
      BY <1>9 DEF MeanRecovers
    <2>3. avg' <= SlowLimit
      BY <1>1, <1>2, <1>9, <2>2, FitFrame
    <2> QED
      BY <1>1, <1>6, <2>1, <2>3 DEF MeanRecovers
  <1> QED
    BY <1>1, <1>7, <1>8, <1>9

LEMMA FreshRecovers ==
    ASSUME NEW a, a = TargetFrame(60), NEW c, c = 0
    PROVE  /\ a <= LongestFrame
           /\ c < RecoveryFrames => a <= Decay[c]
           /\ c = RecoveryFrames => a <= SlowLimit
  <1>1. a <= LongestFrame /\ Decay[0] = LongestFrame
    BY DecayStep, RecoveryAssumption
  <1>2. a <= SlowLimit
    BY FirstMean
  <1> HIDE DEF Decay
  <1> QED
    BY <1>1, <1>2

LEMMA InitRecovers == PacerInit => MeanRecovers
  BY FreshRecovers DEF PacerInit, MeanRecovers

LEMMA NextRecovers ==
    PacerInv /\ MeanRecovers /\ [PacerNext]_pacerVars => MeanRecovers'
  <1> SUFFICES ASSUME PacerInv, MeanRecovers, [PacerNext]_pacerVars PROVE MeanRecovers'
    OBVIOUS
  <1>1. ASSUME avg' = avg, calm' = calm PROVE MeanRecovers'
    BY <1>1 DEF MeanRecovers
  <1>2. CASE UNCHANGED pacerVars
    BY <1>1, <1>2 DEF pacerVars
  <1>3. CASE TickFrame
    BY <1>3, FrameRecovers DEF TickFrame, PacerInv
  <1>4. ASSUME NEW fps \in UserFps, SetTargetFps(fps) PROVE MeanRecovers'
    BY <1>1, <1>4 DEF SetTargetFps
  <1>5. CASE NewEmulator
    BY <1>5, FreshRecovers DEF NewEmulator, MeanRecovers
  <1> QED
    BY <1>2, <1>3, <1>4, <1>5 DEF PacerNext

\* Whatever stalls, rates and emulators came before, RecoveryFrames frames in a
\* row that are fit for 60 fps leave no target of 30.
THEOREM RateComesBack == PacerSpec => RecoversInTime
  <1>1. PacerSpec => []MeanRecovers
    BY AlwaysPacerInv, InitRecovers, NextRecovers, PTL DEF PacerSpec
  <1>2. PacerInv /\ MeanRecovers' /\ [PacerNext]_pacerVars
          => [TickFrame /\ calm' = RecoveryFrames => targetFps' # 30]_pacerVars
    <2> SUFFICES ASSUME PacerInv, MeanRecovers', TickFrame, calm' = RecoveryFrames
                 PROVE  targetFps' # 30
      OBVIOUS
    <2>1. PICK frame \in FrameTimes : EndFrame(frame)
      BY DEF TickFrame
    <2>2. Mean(frame) \in Int
      <3>1. frame \in Nat /\ avg \in Nat
        BY MeanIsNat, PacerAssumption DEF PacerInv
      <3> QED
        BY <3>1 DEF Mean
    <2>3. Mean(frame) <= SlowLimit
      BY <2>1 DEF EndFrame, MeanRecovers
    <2>4. Mean(frame) < FastLimit /\ ~(Mean(frame) > SlowLimit)
      BY <2>2, <2>3, PacerAssumption DEF SlowLimit, FastLimit
    <2> QED
      BY <2>1, <2>4 DEF EndFrame, Adjusted, PacerInv, PacerTypeOK
  <1> QED
    BY <1>1, <1>2, AlwaysPacerInv, PTL DEF PacerSpec, RecoversInTime
=============================================================================
