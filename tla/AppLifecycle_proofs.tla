------------------------ MODULE AppLifecycle_proofs ------------------------
(***************************************************************************)
(* Safety of the front end for any number of activities and loader         *)
(* threads.  What the invariants say of one activity is the predicate      *)
(* Sound of its record; the lemmas of the first part show that each thing  *)
(* the code does to a record keeps it Sound, and the second part has one   *)
(* step per action.                                                        *)
(***************************************************************************)
EXTENDS AppLifecycle, TLAPS

\* One frame message while the loop runs, none while it does not, and no loop
\* without a game.
Sound(w) ==
    /\ w \in Instance
    /\ w.stale = 0
    /\ w.isRunning => (w.due = 1 /\ w.delayed = 0) \/ (w.due = 0 /\ w.delayed = 1)
    /\ ~w.isRunning => w.due = 0 /\ w.delayed = 0
    /\ w.isRunning => w.gameLoaded
-----------------------------------------------------------------------------
LEMMA FreshIsSound == Sound(FreshInstance)
  BY DEF Sound, FreshInstance, Instance

\* startFrameLoop on an activity that holds a game.
LEMMA StartIsSound ==
    ASSUME NEW w, Sound(w), w.gameLoaded
    PROVE  /\ Sound(StartFrameLoop(w))
           /\ StartFrameLoop(w).surface = w.surface
<1>1. CASE w.isRunning
  BY <1>1 DEF StartFrameLoop
<1>2. CASE ~w.isRunning
  <2> DEFINE x == [w EXCEPT !.isRunning = TRUE, !.due = 1, !.delayed = 0,
                            !.stale = 0]
  <2>1. w.due = 0 /\ w.delayed = 0 /\ w.stale = 0 /\ w \in Instance
    BY <1>2 DEF Sound
  <2>2. w.stale + w.due + w.delayed = 0
    BY <2>1
  <2>3. StartFrameLoop(w) = x
    BY <1>2, <2>2, Zenon DEF StartFrameLoop
  <2>4. x \in Instance
    BY <2>1, 0 \in Nat, 1 \in Nat, Zenon DEF Instance
  <2>5. /\ x.isRunning /\ x.due = 1 /\ x.delayed = 0 /\ x.stale = 0
        /\ x.gameLoaded = w.gameLoaded /\ x.surface = w.surface
    BY <2>1, Zenon DEF Instance
  <2>6. Sound(x)
    BY <2>4, <2>5 DEF Sound
  <2>7. QED BY <2>3, <2>5, <2>6
<1>3. QED BY <1>1, <1>2

LEMMA StopIsSound ==
    ASSUME NEW w, Sound(w)
    PROVE  /\ Sound(StopFrameLoop(w))
           /\ StopFrameLoop(w).surface = w.surface
           /\ ~StopFrameLoop(w).isRunning
<1> DEFINE x == [w EXCEPT !.isRunning = FALSE, !.due = 0, !.delayed = 0]
<1>1. w \in Instance /\ w.stale = 0
  BY DEF Sound
<1>2. x \in Instance
  BY <1>1, 0 \in Nat, Zenon DEF Instance
<1>3. /\ ~x.isRunning /\ x.due = 0 /\ x.delayed = 0 /\ x.stale = w.stale
      /\ x.surface = w.surface
  BY <1>1, Zenon DEF Instance
<1>4. Sound(x)
  BY <1>1, <1>2, <1>3 DEF Sound
<1>5. QED BY <1>3, <1>4, Zenon DEF StopFrameLoop

\* The callbacks and buttons set fields the loop does not look at.
LEMMA FieldsAreSound ==
    ASSUME NEW w, Sound(w)
    PROVE  /\ \A l \in {"none", "paused", "resumed", "destroyed"} :
                 /\ Sound([w EXCEPT !.life = l])
                 /\ [w EXCEPT !.life = l].surface = w.surface
           /\ \A b \in BOOLEAN : /\ Sound([w EXCEPT !.surface = b])
                                 /\ [w EXCEPT !.surface = b].surface = b
           /\ /\ Sound([w EXCEPT !.stopEnabled = TRUE])
              /\ [w EXCEPT !.stopEnabled = TRUE].surface = w.surface
           /\ /\ Sound([w EXCEPT !.gameLoaded = TRUE])
              /\ [w EXCEPT !.gameLoaded = TRUE].surface = w.surface
              /\ [w EXCEPT !.gameLoaded = TRUE].gameLoaded
<1>1. w \in Instance
  BY DEF Sound
<1>2. ASSUME NEW l \in {"none", "paused", "resumed", "destroyed"}
      PROVE  /\ Sound([w EXCEPT !.life = l])
             /\ [w EXCEPT !.life = l].surface = w.surface
  <2> DEFINE x == [w EXCEPT !.life = l]
  <2>1. x \in Instance
    BY <1>1, Zenon DEF Instance
  <2>2. /\ x.isRunning = w.isRunning /\ x.gameLoaded = w.gameLoaded
        /\ x.due = w.due /\ x.delayed = w.delayed /\ x.stale = w.stale
        /\ x.surface = w.surface
    BY <1>1, Zenon DEF Instance
  <2>3. QED BY <2>1, <2>2 DEF Sound
<1>3. ASSUME NEW b \in BOOLEAN
      PROVE  Sound([w EXCEPT !.surface = b]) /\ [w EXCEPT !.surface = b].surface = b
  <2> DEFINE x == [w EXCEPT !.surface = b]
  <2>1. x \in Instance
    BY <1>1, Zenon DEF Instance
  <2>2. /\ x.isRunning = w.isRunning /\ x.gameLoaded = w.gameLoaded
        /\ x.due = w.due /\ x.delayed = w.delayed /\ x.stale = w.stale
        /\ x.surface = b
    BY <1>1, Zenon DEF Instance
  <2>3. QED BY <2>1, <2>2 DEF Sound
<1>4. /\ Sound([w EXCEPT !.stopEnabled = TRUE])
      /\ [w EXCEPT !.stopEnabled = TRUE].surface = w.surface
  <2> DEFINE x == [w EXCEPT !.stopEnabled = TRUE]
  <2>1. x \in Instance
    BY <1>1, TRUE \in BOOLEAN, Zenon DEF Instance
  <2>2. /\ x.isRunning = w.isRunning /\ x.gameLoaded = w.gameLoaded
        /\ x.due = w.due /\ x.delayed = w.delayed /\ x.stale = w.stale
        /\ x.surface = w.surface
    BY <1>1, Zenon DEF Instance
  <2>3. QED BY <2>1, <2>2 DEF Sound
<1>5. /\ Sound([w EXCEPT !.gameLoaded = TRUE])
      /\ [w EXCEPT !.gameLoaded = TRUE].surface = w.surface
      /\ [w EXCEPT !.gameLoaded = TRUE].gameLoaded
  <2> DEFINE x == [w EXCEPT !.gameLoaded = TRUE]
  <2>1. x \in Instance
    BY <1>1, TRUE \in BOOLEAN, Zenon DEF Instance
  <2>2. /\ x.isRunning = w.isRunning /\ x.gameLoaded
        /\ x.due = w.due /\ x.delayed = w.delayed /\ x.stale = w.stale
        /\ x.surface = w.surface
    BY <1>1, Zenon DEF Instance
  <2>3. QED BY <2>1, <2>2 DEF Sound
<1>6. QED BY <1>2, <1>3, <1>4, <1>5, Zenon

\* The Stop button forgets the game of a loop it has stopped.
LEMMA ForgetIsSound ==
    ASSUME NEW w, Sound(w), ~w.isRunning
    PROVE  /\ Sound([w EXCEPT !.gameLoaded = FALSE, !.stopEnabled = FALSE])
           /\ [w EXCEPT !.gameLoaded = FALSE,
                        !.stopEnabled = FALSE].surface = w.surface
<1> DEFINE x == [w EXCEPT !.gameLoaded = FALSE, !.stopEnabled = FALSE]
<1>1. w \in Instance
  BY DEF Sound
<1>2. x \in Instance
  BY <1>1, FALSE \in BOOLEAN, Zenon DEF Instance
<1>3. /\ x.isRunning = w.isRunning /\ x.due = w.due /\ x.delayed = w.delayed
      /\ x.stale = w.stale /\ x.surface = w.surface
  BY <1>1, Zenon DEF Instance
<1>4. QED BY <1>2, <1>3 DEF Sound

\* The delay of the message elapses.
LEMMA DueIsSound ==
    ASSUME NEW w, Sound(w), w.delayed > 0
    PROVE  /\ Sound([w EXCEPT !.delayed = @ - 1, !.due = @ + 1])
           /\ [w EXCEPT !.delayed = @ - 1, !.due = @ + 1].surface = w.surface
<1> DEFINE x == [w EXCEPT !.delayed = 0, !.due = 1]
<1>1. w \in Instance /\ w.delayed = 1 /\ w.due = 0 /\ w.isRunning
  BY DEF Sound
<1>2. w.delayed - 1 = 0 /\ w.due + 1 = 1
  BY <1>1
<1>3. [w EXCEPT !.delayed = @ - 1, !.due = @ + 1] = x
  BY <1>2, Zenon
<1>4. x \in Instance
  BY <1>1, 0 \in Nat, 1 \in Nat, Zenon DEF Instance
<1>5. /\ x.isRunning = w.isRunning /\ x.gameLoaded = w.gameLoaded /\ x.due = 1
      /\ x.delayed = 0 /\ x.stale = w.stale /\ x.surface = w.surface
  BY <1>1, Zenon DEF Instance
<1>6. Sound(x)
  BY <1>1, <1>4, <1>5 DEF Sound
<1>7. QED BY <1>3, <1>5, <1>6, Zenon

\* The runnable's message can only be the current one, with its loop running:
\* it posts itself again, or stops the loop when it throws.
LEMMA FrameIsSound ==
    ASSUME NEW w, Sound(w), NEW q \in {"due", "stale"}, w[q] > 0
    PROVE  /\ w.isRunning
           /\ Sound(AfterFrame(w, q)) /\ AfterFrame(w, q).surface = w.surface
           /\ Sound(AfterException(w, q))
           /\ AfterException(w, q).surface = w.surface
<1>1. q = "due" /\ w.due = 1 /\ w.delayed = 0 /\ w.isRunning /\ w \in Instance
  BY DEF Sound
<1>2. w.due - 1 = 0 /\ w.delayed + 1 = 1
  BY <1>1
<1> DEFINE x == [w EXCEPT !.due = 0, !.delayed = 1]
<1>3. AfterFrame(w, q) = x
  BY <1>1, <1>2, Zenon DEF AfterFrame
<1>4. x \in Instance
  BY <1>1, 0 \in Nat, 1 \in Nat, Zenon DEF Instance
<1>5. /\ x.isRunning = w.isRunning /\ x.gameLoaded = w.gameLoaded /\ x.due = 0
      /\ x.delayed = 1 /\ x.stale = w.stale /\ x.surface = w.surface
  BY <1>1, Zenon DEF Instance
<1>6. Sound(x)
  BY <1>1, <1>4, <1>5 DEF Sound
<1> DEFINE y == [w EXCEPT !.isRunning = FALSE, !.due = 0]
<1>7. AfterException(w, q) = y
  BY <1>1, <1>2, Zenon DEF AfterException
<1>8. y \in Instance
  BY <1>1, 0 \in Nat, FALSE \in BOOLEAN, Zenon DEF Instance
<1>9. /\ ~y.isRunning /\ y.gameLoaded = w.gameLoaded /\ y.due = 0
      /\ y.delayed = w.delayed /\ y.stale = w.stale /\ y.surface = w.surface
  BY <1>1, Zenon DEF Instance
<1>10. Sound(y)
  BY <1>1, <1>8, <1>9 DEF Sound
<1>11. QED BY <1>1, <1>3, <1>5, <1>6, <1>7, <1>9, <1>10, Zenon
-----------------------------------------------------------------------------
\* The inductive invariant: the properties, activity by activity.
UiOK(u) == u \in [Activities -> Instance] /\ \A a \in Activities : Sound(u[a])

LoadOK(l, alive) ==
    /\ l \in Load
    /\ l.stage # "idle" => l.owner \in Activities
    /\ l.stage = "native" /\ l.target = "live" => alive

LoadsOK(ls, alive) ==
    ls \in [Threads -> Load] /\ \A t \in Threads : LoadOK(ls[t], alive)

AppInv ==
    UiOK(ui) /\ LoadsOK(loads, g_emu.alive) /\ g_emu \in Emulator
      /\ DrawsOnLiveSurface

LEMMA InvGivesProperties ==
    AppInv => AppTypeOK /\ OneFrameChain /\ RunningImpliesLoaded
<1> SUFFICES ASSUME AppInv PROVE AppTypeOK /\ OneFrameChain /\ RunningImpliesLoaded
  OBVIOUS
<1>1. AppTypeOK
  BY DEF AppInv, UiOK, LoadsOK, LoadOK, AppTypeOK
<1>2. OneFrameChain
  <2> SUFFICES ASSUME NEW a \in Activities
               PROVE  /\ ui[a].stale = 0
                      /\ ui[a].due + ui[a].delayed = IF ui[a].isRunning THEN 1 ELSE 0
    BY DEF OneFrameChain
  <2>1. Sound(ui[a])
    BY DEF AppInv, UiOK
  <2>2. QED BY <2>1 DEF Sound
<1>3. RunningImpliesLoaded
  BY DEF AppInv, UiOK, Sound, RunningImpliesLoaded
<1>4. QED BY <1>1, <1>2, <1>3

LEMMA InitGivesInv == Init => AppInv
<1> SUFFICES ASSUME Init PROVE AppInv
  OBVIOUS
<1>1. UiOK(ui)
  BY FreshIsSound DEF Init, UiOK, Sound
<1>2. NoLoad \in Load
  BY DEF NoLoad, Load
<1>3. LoadsOK(loads, g_emu.alive)
  BY <1>2 DEF Init, LoadsOK, LoadOK, NoLoad
<1>4. g_emu \in Emulator /\ ~g_emu.alive
  BY DEF Init, NoEmulator, Emulator
<1>5. QED BY <1>1, <1>3, <1>4 DEF AppInv, DrawsOnLiveSurface

\* Replacing the record of one activity.
LEMMA OneActivity ==
    ASSUME NEW u, UiOK(u), NEW a \in Activities, NEW w, Sound(w)
    PROVE  /\ UiOK([u EXCEPT ![a] = w])
           /\ w.surface = u[a].surface =>
                 \A b \in Activities : [u EXCEPT ![a] = w][b].surface = u[b].surface
<1> DEFINE v == [u EXCEPT ![a] = w]
<1>1. w \in Instance
  BY DEF Sound
<1>2. v \in [Activities -> Instance]
  BY <1>1 DEF UiOK
<1>3. \A b \in Activities : v[b] = IF b = a THEN w ELSE u[b]
  BY DEF UiOK
<1>4. QED BY <1>2, <1>3 DEF UiOK

\* The same when nothing else changes and the surface stays.
LEMMA OnlyUi ==
    ASSUME AppInv, NEW a \in Activities, NEW w, Sound(w),
           w.surface = ui[a].surface,
           ui' = [ui EXCEPT ![a] = w], UNCHANGED <<loads, g_emu>>
    PROVE  AppInv'
<1>0. UiOK(ui)
  BY DEF AppInv
<1> DEFINE v == [ui EXCEPT ![a] = w]
<1>a. UiOK(v)
  BY <1>0, OneActivity
<1>b. \A b \in Activities : v[b].surface = ui[b].surface
  BY <1>0, OneActivity
<1>1. UiOK(ui') /\ \A b \in Activities : ui'[b].surface = ui[b].surface
  BY <1>a, <1>b
<1>2. LoadsOK(loads, g_emu.alive)' /\ (g_emu \in Emulator)'
  BY DEF AppInv
<1>3. DrawsOnLiveSurface'
  BY <1>1 DEF AppInv, DrawsOnLiveSurface, Emulator
<1>4. QED BY <1>1, <1>2, <1>3 DEF AppInv

LEMMA ShutdownStep ==
    ASSUME AppInv, UiOK(ui'), NativeShutdown
    PROVE  AppInv'
<1>1. g_emu' \in Emulator /\ ~g_emu'.alive
  BY DEF NativeShutdown, NoEmulator, Emulator
<1>2. ASSUME NEW t \in Threads
      PROVE  loads'[t] \in Load /\ LoadOK(loads'[t], FALSE)
  <2> DEFINE l == loads[t]
  <2>1. l \in Load /\ (l.stage # "idle" => l.owner \in Activities)
    BY DEF AppInv, LoadsOK, LoadOK
  <2>2. CASE l.stage = "native" /\ l.target = "live"
    <3>1. loads'[t] = [l EXCEPT !.target = "dangling"]
      BY <2>2 DEF NativeShutdown
    <3>2. [l EXCEPT !.target = "dangling"] \in Load
      BY <2>1, Zenon DEF Load
    <3>3. /\ [l EXCEPT !.target = "dangling"].target = "dangling"
          /\ [l EXCEPT !.target = "dangling"].owner = l.owner
      BY <2>1, Zenon DEF Load
    <3>4. QED BY <2>1, <2>2, <3>1, <3>2, <3>3 DEF LoadOK
  <2>3. CASE ~(l.stage = "native" /\ l.target = "live")
    <3>1. loads'[t] = l
      BY <2>3 DEF NativeShutdown
    <3>2. QED BY <2>1, <2>3, <3>1 DEF LoadOK
  <2>4. QED BY <2>2, <2>3
<1>3. loads' \in [Threads -> Load]
  BY <1>2 DEF NativeShutdown
<1>4. LoadsOK(loads, g_emu.alive)'
  BY <1>1, <1>2, <1>3 DEF LoadsOK, LoadOK
<1>5. QED BY <1>1, <1>4 DEF AppInv, DrawsOnLiveSurface

\* A loader thread moves on; the screen stays.
LEMMA OneLoad ==
    ASSUME AppInv, NEW t \in Threads, NEW l, LoadOK(l, g_emu.alive),
           loads' = [loads EXCEPT ![t] = l],
           g_emu' \in Emulator, g_emu'.alive = g_emu.alive,
           g_emu'.window = g_emu.window, UNCHANGED ui
    PROVE  AppInv'
<1>1. loads' \in [Threads -> Load]
  BY DEF AppInv, LoadsOK, LoadOK
<1>2. \A s \in Threads : loads'[s] = IF s = t THEN l ELSE loads[s]
  BY DEF AppInv, LoadsOK
<1>3. LoadsOK(loads, g_emu.alive)'
  BY <1>1, <1>2 DEF AppInv, LoadsOK
<1>4. UiOK(ui)' /\ DrawsOnLiveSurface'
  BY DEF AppInv, DrawsOnLiveSurface
<1>5. QED BY <1>3, <1>4 DEF AppInv

\* nativeAttachSurface leaves a living emulator whose window is the new surface,
\* none, or the one it had.
LEMMA AttachedStep ==
    ASSUME NEW emu \in Emulator, NEW a \in Activities, NEW e \in Attached(emu, a)
    PROVE  /\ e \in Emulator /\ e.alive
           /\ e.window \in {a, None} \/ (emu.alive /\ e.window = emu.window)
<1> DEFINE fresh == [NoEmulator EXCEPT !.alive = TRUE, !.renderer = TRUE]
           kept  == [emu EXCEPT !.renderer = TRUE]
           whole == IF emu.alive THEN kept ELSE fresh
<1>1. /\ fresh \in Emulator /\ fresh.alive /\ fresh.window = None
      /\ [NoEmulator EXCEPT !.alive = TRUE] \in Emulator
      /\ [NoEmulator EXCEPT !.alive = TRUE].alive
      /\ [NoEmulator EXCEPT !.alive = TRUE].window = None
  BY DEF NoEmulator, Emulator
<1>2. kept \in Emulator /\ kept.alive = emu.alive /\ kept.window = emu.window
  BY TRUE \in BOOLEAN, Zenon DEF Emulator
<1>3. whole \in Emulator /\ whole.alive
  BY <1>1, <1>2
<1>4. whole.window = None \/ (emu.alive /\ whole.window = emu.window)
  BY <1>1, <1>2
<1> HIDE DEF whole
<1>5. \A x \in Activities \cup {None} :
         /\ [whole EXCEPT !.window = x] \in Emulator
         /\ [whole EXCEPT !.window = x].alive
         /\ [whole EXCEPT !.window = x].window = x
  BY <1>3, Zenon DEF Emulator
<1>6. CASE \E x \in {a, None, whole.window} : e = [whole EXCEPT !.window = x]
  <2>1. PICK x \in {a, None, whole.window} : e = [whole EXCEPT !.window = x]
    BY <1>6
  <2>2. x \in Activities \cup {None}
    BY <1>3 DEF Emulator
  <2>3. e \in Emulator /\ e.alive /\ e.window = x
    BY <1>5, <2>1, <2>2
  <2>4. QED BY <1>4, <2>3
<1>7. CASE e = IF emu.alive THEN emu ELSE [NoEmulator EXCEPT !.alive = TRUE]
  BY <1>1, <1>7
<1>8. QED BY <1>6, <1>7 DEF Attached, whole

LEMMA StepKeepsInv == AppInv /\ [Next]_vars => AppInv'
<1> SUFFICES ASSUME AppInv, [Next]_vars PROVE AppInv'
  OBVIOUS
<1>0. /\ UiOK(ui) /\ LoadsOK(loads, g_emu.alive) /\ g_emu \in Emulator
      /\ \A a \in Activities : Sound(ui[a])
      /\ \A t \in Threads : LoadOK(loads[t], g_emu.alive)
  BY DEF AppInv, UiOK, LoadsOK
<1>1. ASSUME NEW a \in Activities, OnCreate(a) PROVE AppInv'
  <2> DEFINE w == [ui[a] EXCEPT !.life = "paused"]
  <2>1. Sound(w) /\ w.surface = ui[a].surface
    BY <1>0, FieldsAreSound
  <2>2. ui' = [ui EXCEPT ![a] = w] /\ UNCHANGED <<loads, g_emu>>
    BY <1>1, Zenon DEF OnCreate
  <2> HIDE DEF w
  <2>3. QED BY <2>1, <2>2, OnlyUi
<1>2. ASSUME NEW a \in Activities, OnResume(a) PROVE AppInv'
  <2> DEFINE x == IF ui[a].gameLoaded /\ ~ui[a].isRunning
                  THEN StartFrameLoop(ui[a]) ELSE ui[a]
             w == [x EXCEPT !.life = "resumed"]
  <2>1. Sound(x) /\ x.surface = ui[a].surface
    BY <1>0, StartIsSound
  <2>2. ui' = [ui EXCEPT ![a] = w] /\ UNCHANGED <<loads, g_emu>>
    BY <1>2, Zenon DEF OnResume
  <2> HIDE DEF x
  <2>3. Sound(w) /\ w.surface = ui[a].surface
    BY <2>1, FieldsAreSound
  <2> HIDE DEF w
  <2>4. QED BY <2>2, <2>3, OnlyUi
<1>3. ASSUME NEW a \in Activities, OnPause(a) PROVE AppInv'
  <2> DEFINE x == StopFrameLoop(ui[a])
             w == [x EXCEPT !.life = "paused"]
  <2>1. Sound(x) /\ x.surface = ui[a].surface
    BY <1>0, StopIsSound
  <2>2. ui' = [ui EXCEPT ![a] = w] /\ UNCHANGED <<loads, g_emu>>
    BY <1>3, Zenon DEF OnPause
  <2> HIDE DEF x
  <2>3. Sound(w) /\ w.surface = ui[a].surface
    BY <2>1, FieldsAreSound
  <2> HIDE DEF w
  <2>4. QED BY <2>2, <2>3, OnlyUi
<1>4. ASSUME NEW a \in Activities, OnDestroy(a) PROVE AppInv'
  <2> DEFINE x == StopFrameLoop(ui[a])
             w == [x EXCEPT !.life = "destroyed"]
  <2>1. Sound(x)
    BY <1>0, StopIsSound
  <2>2. ui' = [ui EXCEPT ![a] = w] /\ NativeShutdown
    BY <1>4, Zenon DEF OnDestroy
  <2> HIDE DEF x
  <2>3. Sound(w)
    BY <2>1, FieldsAreSound
  <2> HIDE DEF w
  <2>4. UiOK(ui')
    BY <1>0, <2>2, <2>3, OneActivity
  <2>5. QED BY <2>2, <2>4, ShutdownStep
<1>5. ASSUME NEW a \in Activities, SurfaceCreated(a) PROVE AppInv'
  <2> DEFINE w == [ui[a] EXCEPT !.surface = TRUE]
  <2>1. Sound(w) /\ w.surface
    BY <1>0, FieldsAreSound
  <2>2. ui' = [ui EXCEPT ![a] = w] /\ loads' = loads
    BY <1>5, Zenon DEF SurfaceCreated
  <2>3. g_emu' \in Attached(g_emu, a)
    BY <1>5 DEF SurfaceCreated
  <2> HIDE DEF w
  <2>4. UiOK(ui')
    BY <1>0, <2>1, <2>2, OneActivity
  <2>5. \A b \in Activities : ui'[b] = IF b = a THEN w ELSE ui[b]
    BY <1>0, <2>2 DEF UiOK
  <2>6. /\ g_emu' \in Emulator /\ g_emu'.alive
        /\ \/ g_emu'.window \in {a, None}
           \/ g_emu.alive /\ g_emu'.window = g_emu.window
    BY <1>0, <2>3, AttachedStep
  <2>7. LoadsOK(loads', g_emu'.alive)
    BY <1>0, <2>2, <2>6 DEF LoadsOK, LoadOK
  <2>8. DrawsOnLiveSurface'
    BY <2>1, <2>5, <2>6 DEF AppInv, DrawsOnLiveSurface, Emulator
  <2>9. QED BY <2>4, <2>6, <2>7, <2>8 DEF AppInv
<1>6. ASSUME NEW a \in Activities, SurfaceDestroyed(a) PROVE AppInv'
  <2> DEFINE x == StopFrameLoop(ui[a])
             w == [x EXCEPT !.surface = FALSE]
  <2>1. Sound(x)
    BY <1>0, StopIsSound
  <2>2. ui' = [ui EXCEPT ![a] = w] /\ NativeShutdown
    BY <1>6, Zenon DEF SurfaceDestroyed
  <2> HIDE DEF x
  <2>3. Sound(w)
    BY <2>1, FieldsAreSound
  <2> HIDE DEF w
  <2>4. UiOK(ui')
    BY <1>0, <2>2, <2>3, OneActivity
  <2>5. QED BY <2>2, <2>4, ShutdownStep
<1>7. ASSUME NEW a \in Activities, Collected(a) PROVE AppInv'
  <2>1. ui' = [ui EXCEPT ![a] = FreshInstance] /\ UNCHANGED <<loads, g_emu>>
    BY <1>7 DEF Collected
  <2>2. FreshInstance.surface = ui[a].surface
    BY <1>0, <1>7 DEF Collected, FreshInstance, Sound, Instance
  <2>3. QED BY <2>1, <2>2, FreshIsSound, OnlyUi
<1>8. ASSUME NEW a \in Activities, BootButton(a) PROVE AppInv'
  <2> DEFINE x == StopFrameLoop(ui[a])
             y == StartFrameLoop(ui[a])
             z == [y EXCEPT !.stopEnabled = TRUE]
  <2>1. Sound(x) /\ x.surface = ui[a].surface
    BY <1>0, StopIsSound
  <2>2. Sound(y) /\ y.surface = ui[a].surface
    BY <1>0, <1>8, StartIsSound DEF BootButton
  <2>3. /\ ui' = [ui EXCEPT ![a] = IF ui[a].isRunning THEN x ELSE z]
        /\ UNCHANGED <<loads, g_emu>>
    BY <1>8, Zenon DEF BootButton
  <2> HIDE DEF x, y
  <2>4. Sound(z) /\ z.surface = ui[a].surface
    BY <2>2, FieldsAreSound
  <2> HIDE DEF z
  <2> DEFINE w == IF ui[a].isRunning THEN x ELSE z
  <2>5. Sound(w) /\ w.surface = ui[a].surface /\ ui' = [ui EXCEPT ![a] = w]
    BY <2>1, <2>3, <2>4
  <2> HIDE DEF w
  <2>6. QED BY <2>3, <2>5, OnlyUi
<1>9. ASSUME NEW a \in Activities, StopButton(a) PROVE AppInv'
  <2> DEFINE x == StopFrameLoop(ui[a])
             w == [x EXCEPT !.gameLoaded = FALSE, !.stopEnabled = FALSE]
  <2>1. Sound(x) /\ x.surface = ui[a].surface /\ ~x.isRunning
    BY <1>0, StopIsSound
  <2>2. ui' = [ui EXCEPT ![a] = w] /\ UNCHANGED <<loads, g_emu>>
    BY <1>9, Zenon DEF StopButton
  <2> HIDE DEF x
  <2>3. Sound(w) /\ w.surface = ui[a].surface
    BY <2>1, ForgetIsSound
  <2> HIDE DEF w
  <2>4. QED BY <2>2, <2>3, OnlyUi
<1>10. ASSUME NEW a \in Activities, NEW t \in Threads, BootGameFromLibrary(a, t)
       PROVE  AppInv'
  <2> DEFINE l == [NoLoad EXCEPT !.stage = "copying", !.owner = a]
  <2>1. LoadOK(l, g_emu.alive)
    BY DEF NoLoad, Load, LoadOK
  <2>2. loads' = [loads EXCEPT ![t] = l] /\ UNCHANGED <<ui, g_emu>>
    BY <1>10 DEF BootGameFromLibrary
  <2> HIDE DEF l
  <2>3. QED BY <1>0, <2>1, <2>2, OneLoad
<1>11. ASSUME NEW t \in Threads, CopyFails(t) PROVE AppInv'
  <2> DEFINE l == [loads[t] EXCEPT !.stage = "posted"]
  <2>1. loads[t] \in Load /\ loads[t].owner \in Activities
    BY <1>0, <1>11 DEF CopyFails, LoadOK
  <2>2. l \in Load /\ l.stage = "posted" /\ l.owner = loads[t].owner
    BY <2>1, Zenon DEF Load
  <2>3. LoadOK(l, g_emu.alive)
    BY <2>1, <2>2 DEF LoadOK
  <2>4. loads' = [loads EXCEPT ![t] = l] /\ UNCHANGED <<ui, g_emu>>
    BY <1>11, Zenon DEF CopyFails
  <2> HIDE DEF l
  <2>5. QED BY <1>0, <2>3, <2>4, OneLoad
<1>12. ASSUME NEW t \in Threads, NativeLoadBegins(t) PROVE AppInv'
  <2> DEFINE found == IF g_emu.alive THEN "live" ELSE "null"
             l == [loads[t] EXCEPT !.stage = "native", !.target = found]
  <2>1. /\ loads[t] \in Load /\ loads[t].owner \in Activities
        /\ found \in {"null", "live", "dangling"} /\ (found = "live" => g_emu.alive)
    BY <1>0, <1>12 DEF NativeLoadBegins, LoadOK
  <2>2. loads' = [loads EXCEPT ![t] = l] /\ UNCHANGED <<ui, g_emu>>
    BY <1>12, Zenon DEF NativeLoadBegins
  <2> HIDE DEF found
  <2>3. /\ l \in Load /\ l.stage = "native" /\ l.target = found
        /\ l.owner = loads[t].owner
    BY <2>1, Zenon DEF Load
  <2>4. LoadOK(l, g_emu.alive)
    BY <2>1, <2>3 DEF LoadOK
  <2> HIDE DEF l
  <2>5. QED BY <1>0, <2>2, <2>4, OneLoad
<1>13. ASSUME NEW t \in Threads, NEW ok \in BOOLEAN, NativeLoadEnds(t, ok)
       PROVE  AppInv'
  <2> DEFINE l == [loads[t] EXCEPT !.stage = "posted", !.ok = ok]
             e == [g_emu EXCEPT !.game = TRUE]
  <2>1. loads[t] \in Load /\ loads[t].owner \in Activities
    BY <1>0, <1>13 DEF NativeLoadEnds, LoadOK
  <2>2. l \in Load /\ l.stage = "posted" /\ l.owner = loads[t].owner
    BY <2>1, Zenon DEF Load
  <2>3. LoadOK(l, g_emu.alive)
    BY <2>1, <2>2 DEF LoadOK
  <2>4. e \in Emulator /\ e.alive = g_emu.alive /\ e.window = g_emu.window
    BY <1>0, TRUE \in BOOLEAN, Zenon DEF Emulator
  <2>5. loads' = [loads EXCEPT ![t] = l] /\ UNCHANGED ui /\ g_emu' \in {e, g_emu}
    BY <1>13, Zenon DEF NativeLoadEnds
  <2> HIDE DEF l, e
  <2>6. /\ g_emu' \in Emulator /\ g_emu'.alive = g_emu.alive
        /\ g_emu'.window = g_emu.window
    BY <1>0, <2>4, <2>5
  <2>7. QED BY <2>3, <2>5, <2>6, OneLoad
<1>14. ASSUME NEW t \in Threads, RunLoadResult(t) PROVE AppInv'
  <2> DEFINE a == loads[t].owner
             x == [ui[a] EXCEPT !.gameLoaded = TRUE]
             y == StartFrameLoop(x)
             w == IF loads[t].ok THEN y ELSE ui[a]
  <2>1. a \in Activities
    BY <1>0, <1>14 DEF RunLoadResult, LoadOK
  <2>2. Sound(x) /\ x.surface = ui[a].surface /\ x.gameLoaded
    BY <1>0, <2>1, FieldsAreSound
  <2>3. ui' = IF loads[t].ok THEN [ui EXCEPT ![a] = y] ELSE ui
    BY <1>14, Zenon DEF RunLoadResult
  <2>4. loads' = [loads EXCEPT ![t] = NoLoad] /\ g_emu' = g_emu
    BY <1>14 DEF RunLoadResult
  <2> HIDE DEF x
  <2>5. Sound(y) /\ y.surface = ui[a].surface
    BY <2>2, StartIsSound
  <2> HIDE DEF y
  <2>6. Sound(w) /\ w.surface = ui[a].surface
    BY <1>0, <2>1, <2>5
  <2>7. ui' = [ui EXCEPT ![a] = w]
    BY <1>0, <2>1, <2>3 DEF UiOK
  <2> HIDE DEF a, w
  <2>8. UiOK(ui') /\ \A b \in Activities : ui'[b].surface = ui[b].surface
    <3> DEFINE v == [ui EXCEPT ![a] = w]
    <3>1. UiOK(v) /\ \A b \in Activities : v[b].surface = ui[b].surface
      BY <1>0, <2>1, <2>6, OneActivity
    <3>2. QED BY <2>7, <3>1
  <2>9. LoadOK(NoLoad, g_emu.alive)
    BY DEF NoLoad, Load, LoadOK
  <2>10. LoadsOK(loads', g_emu'.alive)
    BY <1>0, <2>4, <2>9 DEF LoadsOK, LoadOK
  <2>11. DrawsOnLiveSurface'
    BY <2>4, <2>8 DEF AppInv, DrawsOnLiveSurface, Emulator
  <2>12. QED BY <1>0, <2>4, <2>8, <2>10, <2>11 DEF AppInv
<1>15. ASSUME NEW a \in Activities, FrameIsDue(a) PROVE AppInv'
  <2> DEFINE w == [ui[a] EXCEPT !.delayed = @ - 1, !.due = @ + 1]
  <2>1. Sound(w) /\ w.surface = ui[a].surface
    BY <1>0, <1>15, DueIsSound DEF FrameIsDue
  <2>2. ui' = [ui EXCEPT ![a] = w] /\ UNCHANGED <<loads, g_emu>>
    BY <1>15, Zenon DEF FrameIsDue
  <2> HIDE DEF w
  <2>3. QED BY <2>1, <2>2, OnlyUi
<1>16. ASSUME NEW a \in Activities, NEW q \in {"due", "stale"}, RunFrame(a, q)
       PROVE  AppInv'
  <2> DEFINE w == AfterFrame(ui[a], q)
  <2>1. Sound(w) /\ w.surface = ui[a].surface
    BY <1>0, <1>16, FrameIsSound DEF RunFrame
  <2>2. ui' = [ui EXCEPT ![a] = w] /\ UNCHANGED <<loads, g_emu>>
    BY <1>16, Zenon DEF RunFrame
  <2> HIDE DEF w
  <2>3. QED BY <2>1, <2>2, OnlyUi
<1>17. ASSUME NEW a \in Activities, NEW q \in {"due", "stale"}, FrameThrows(a, q)
       PROVE  AppInv'
  <2> DEFINE w == AfterException(ui[a], q)
  <2>1. Sound(w) /\ w.surface = ui[a].surface
    BY <1>0, <1>17, FrameIsSound DEF FrameThrows
  <2>2. ui' = [ui EXCEPT ![a] = w] /\ UNCHANGED <<loads, g_emu>>
    BY <1>17, Zenon DEF FrameThrows
  <2> HIDE DEF w
  <2>3. QED BY <2>1, <2>2, OnlyUi
<1>18. CASE ProcessDies
  <2>1. Init'
    BY <1>18 DEF ProcessDies, Init
  <2>2. QED BY <2>1, InitGivesInv, PTL
<1>19. ASSUME NEW a \in Activities, NEW q \in {"due", "stale"}, FrameCrashes(a, q)
       PROVE  AppInv'
  BY <1>18, <1>19 DEF FrameCrashes
<1>20. CASE UNCHANGED vars
  <2>1. ui' = ui /\ loads' = loads /\ g_emu' = g_emu
    BY <1>20 DEF vars
  <2>2. QED BY <2>1 DEF AppInv, DrawsOnLiveSurface
<1>21. ASSUME NEW a \in Activities, UserOrSystem(a) PROVE AppInv'
  BY <1>1, <1>2, <1>3, <1>4, <1>5, <1>6, <1>7, <1>8, <1>9, <1>10, <1>21
     DEF UserOrSystem
<1>22. ASSUME NEW t \in Threads, Loader(t) PROVE AppInv'
  BY <1>11, <1>12, <1>13, <1>22 DEF Loader
<1>23. ASSUME NEW a \in Activities, NEW q \in {"due", "stale"}, FrameMessage(a, q)
       PROVE  AppInv'
  BY <1>16, <1>17, <1>19, <1>23 DEF FrameMessage
<1>24. QED
  BY <1>14, <1>15, <1>18, <1>20, <1>21, <1>22, <1>23 DEF Next

LEMMA InvHolds == Spec => []AppInv
<1>1. Init => AppInv
  BY InitGivesInv
<1>2. AppInv /\ [Next]_vars => AppInv'
  BY StepKeepsInv
<1>3. QED BY <1>1, <1>2, PTL DEF Spec
-----------------------------------------------------------------------------
(***************************************************************************)
(* The theorems.                                                           *)
(***************************************************************************)

\* The state of the front end keeps its type, and a load marked live has a
\* living emulator: nativeShutdown never misses one.
THEOREM AppTypeCorrect == Spec => []AppTypeOK
<1>1. AppInv => AppTypeOK
  BY InvGivesProperties
<1>2. QED BY <1>1, InvHolds, PTL

\* No activity ever has two frame messages, or one with its loop stopped, for
\* any number of activities and of loads in flight.
THEOREM OneChainPerActivity == Spec => []OneFrameChain
<1>1. AppInv => OneFrameChain
  BY InvGivesProperties
<1>2. QED BY <1>1, InvHolds, PTL

\* No loop runs in an activity without a loaded game.
THEOREM LoopsHaveGames == Spec => []RunningImpliesLoaded
<1>1. AppInv => RunningImpliesLoaded
  BY InvGivesProperties
<1>2. QED BY <1>1, InvHolds, PTL

\* The renderer never keeps a surface that Android has destroyed.
THEOREM SurfaceOutlivesRenderer == Spec => []DrawsOnLiveSurface
<1>1. AppInv => DrawsOnLiveSurface
  BY DEF AppInv
<1>2. QED BY <1>1, InvHolds, PTL
=============================================================================
