---------------------------- MODULE AppLifecycle ----------------------------
(***************************************************************************)
(* The Android front end: instances of MainActivity on the one UI thread,  *)
(* the threads loadGameFromUri starts, and the emulator they share through *)
(* the static g_emu of pxs3c_jni.cpp.                                      *)
(*                                                                         *)
(* An action is one callback, click or queued message, run to its end by   *)
(* the UI thread, or one step of a loader thread.  The order of callbacks  *)
(* is Android's (external): an old instance may lose its surface and be    *)
(* destroyed after a new one was resumed.                                  *)
(***************************************************************************)
EXTENDS Integers

CONSTANTS Activities,  \* slots for instances of MainActivity
          Threads,     \* bound: loader threads alive at once
          None

ASSUME NoneAssumption == None \notin Activities

VARIABLES ui,      \* per instance: its fields, its surface, its frame messages
          loads,   \* per thread: the load it runs
          g_emu    \* the emulator of pxs3c_jni.cpp

vars == <<ui, loads, g_emu>>

(***************************************************************************)
(* due and delayed count the messages in the queue that hold the current   *)
(* frameRunnable, posted with and without delay; stale counts those that   *)
(* hold an earlier one, which stopFrameLoop can no longer remove.          *)
(***************************************************************************)
FreshInstance ==
    [life |-> "none", surface |-> FALSE, isRunning |-> FALSE,
     gameLoaded |-> FALSE, stopEnabled |-> FALSE,
     due |-> 0, delayed |-> 0, stale |-> 0]

\* renderer: renderer_ is set.  window: whose surface the renderer holds.  game:
\* a load into this emulator has succeeded.
NoEmulator ==
    [alive |-> FALSE, renderer |-> FALSE, window |-> None, game |-> FALSE]

\* target is what the thread's nativeLoadGame found in g_emu: "dangling" when
\* that emulator has been deleted since.
NoLoad == [stage |-> "idle", owner |-> None, target |-> "null", ok |-> FALSE]

Init == /\ ui = [a \in Activities |-> FreshInstance]
        /\ loads = [t \in Threads |-> NoLoad]
        /\ g_emu = NoEmulator

\* The process dies: killed by the system, by an access to a dead emulator, or by a
\* failed load that finds no engine library (ElfLoader!EngineMissing).
ProcessDies ==
    /\ ui' = [a \in Activities |-> FreshInstance]
    /\ loads' = [t \in Threads |-> NoLoad]
    /\ g_emu' = NoEmulator
-----------------------------------------------------------------------------
\* Mutant: a loop that runs is started again.
StartAnotherLoop(w) ==
    [w EXCEPT !.isRunning = TRUE, !.due = 1, !.delayed = 0,
              !.stale = @ + w.due + w.delayed]

\* The fields of an instance after startFrameLoop() and stopFrameLoop().
StartFrameLoop(w) ==
    IF w.isRunning THEN w
    ELSE [w EXCEPT !.isRunning = TRUE, !.due = 1, !.delayed = 0,
                   !.stale = @ + w.due + w.delayed]

StopFrameLoop(w) ==
    [w EXCEPT !.isRunning = FALSE, !.due = 0, !.delayed = 0]

\* nativeShutdown: the emulator is deleted under any load that is using it.
NativeShutdown ==
    /\ g_emu' = NoEmulator
    /\ loads' = [t \in Threads |->
                    IF loads[t].stage = "native" /\ loads[t].target = "live"
                    THEN [loads[t] EXCEPT !.target = "dangling"] ELSE loads[t]]

(***************************************************************************)
(* nativeAttachSurface: create the emulator if there is none, which can    *)
(* fail before it has a renderer; then attach the window, which can fail   *)
(* before the renderer is touched, or after its old surface is dropped.    *)
(***************************************************************************)
Attached(emu, a) ==
    LET whole == IF emu.alive THEN [emu EXCEPT !.renderer = TRUE]
                 ELSE [NoEmulator EXCEPT !.alive = TRUE, !.renderer = TRUE]
    IN  {[whole EXCEPT !.window = x] : x \in {a, None, whole.window}}
          \cup {IF emu.alive THEN emu ELSE [NoEmulator EXCEPT !.alive = TRUE]}
-----------------------------------------------------------------------------
\* Callbacks.  onCreate only builds the screen.
OnCreate(a) ==
    /\ ui[a].life = "none"
    /\ ui' = [ui EXCEPT ![a].life = "paused"]
    /\ UNCHANGED <<loads, g_emu>>

OnResume(a) ==
    /\ ui[a].life = "paused"
    /\ ui' = [ui EXCEPT ![a] =
                 [IF @.gameLoaded /\ ~@.isRunning THEN StartFrameLoop(@) ELSE @
                    EXCEPT !.life = "resumed"]]
    /\ UNCHANGED <<loads, g_emu>>

OnPause(a) ==
    /\ ui[a].life = "resumed"
    /\ ui' = [ui EXCEPT ![a] = [StopFrameLoop(@) EXCEPT !.life = "paused"]]
    /\ UNCHANGED <<loads, g_emu>>

OnDestroy(a) ==
    /\ ui[a].life = "paused"
    /\ ui' = [ui EXCEPT ![a] = [StopFrameLoop(@) EXCEPT !.life = "destroyed"]]
    /\ NativeShutdown

SurfaceCreated(a) ==
    /\ ui[a].life \in {"resumed", "paused"} /\ ~ui[a].surface
    /\ ui' = [ui EXCEPT ![a].surface = TRUE]
    /\ g_emu' \in Attached(g_emu, a)
    /\ UNCHANGED loads

\* Mutant: the emulator outlives the surface.
SurfaceDestroyedOnly(a) ==
    /\ ui[a].surface /\ ui[a].life \in {"paused", "destroyed"}
    /\ ui' = [ui EXCEPT ![a] = [StopFrameLoop(@) EXCEPT !.surface = FALSE]]
    /\ UNCHANGED <<loads, g_emu>>

SurfaceDestroyed(a) ==
    /\ ui[a].surface /\ ui[a].life \in {"paused", "destroyed"}
    /\ ui' = [ui EXCEPT ![a] = [StopFrameLoop(@) EXCEPT !.surface = FALSE]]
    /\ NativeShutdown

\* Nothing refers to a destroyed instance any more: the slot is free again.
Collected(a) ==
    /\ ui[a].life = "destroyed" /\ ~ui[a].surface
    /\ ui[a].due = 0 /\ ui[a].delayed = 0 /\ ui[a].stale = 0
    /\ \A t \in Threads : loads[t].owner # a
    /\ ui' = [ui EXCEPT ![a] = FreshInstance]
    /\ UNCHANGED <<loads, g_emu>>
-----------------------------------------------------------------------------
\* Clicks.  The boot button is Boot, Pause and Resume.
BootButton(a) ==
    /\ ui[a].life = "resumed" /\ ui[a].gameLoaded
    /\ ui' = [ui EXCEPT ![a] =
                 IF @.isRunning THEN StopFrameLoop(@)
                 ELSE [StartFrameLoop(@) EXCEPT !.stopEnabled = TRUE]]
    /\ UNCHANGED <<loads, g_emu>>

\* Mutant: the game is forgotten and its loop goes on.
ForgetGame(a) ==
    /\ ui[a].life = "resumed" /\ ui[a].stopEnabled
    /\ ui' = [ui EXCEPT ![a] = [@ EXCEPT !.gameLoaded = FALSE,
                                         !.stopEnabled = FALSE]]
    /\ UNCHANGED <<loads, g_emu>>

StopButton(a) ==
    /\ ui[a].life = "resumed" /\ ui[a].stopEnabled
    /\ ui' = [ui EXCEPT ![a] = [StopFrameLoop(@) EXCEPT !.gameLoaded = FALSE,
                                                        !.stopEnabled = FALSE]]
    /\ UNCHANGED <<loads, g_emu>>

BootGameFromLibrary(a, t) ==
    /\ ui[a].life = "resumed" /\ ~ui[a].isRunning
    /\ loads[t].stage = "idle"
    /\ loads' = [loads EXCEPT ![t] = [NoLoad EXCEPT !.stage = "copying",
                                                    !.owner = a]]
    /\ UNCHANGED <<ui, g_emu>>
-----------------------------------------------------------------------------
\* A loader thread.  The file is refused, cannot be opened or copied, ...
CopyFails(t) ==
    /\ loads[t].stage = "copying"
    /\ loads' = [loads EXCEPT ![t].stage = "posted"]
    /\ UNCHANGED <<ui, g_emu>>

\* Mutant: g_emu is used without the null test.
LoadWithoutTest(t) ==
    /\ loads[t].stage = "copying"
    /\ loads' = [loads EXCEPT ![t].stage = "native", ![t].target = "live"]
    /\ UNCHANGED <<ui, g_emu>>

\* ... or is copied to the cache and given to nativeLoadGame, ...
NativeLoadBegins(t) ==
    /\ loads[t].stage = "copying"
    /\ loads' = [loads EXCEPT ![t].stage = "native",
                              ![t].target = IF g_emu.alive THEN "live" ELSE "null"]
    /\ UNCHANGED <<ui, g_emu>>

\* ... which returns.  With a deleted emulator it may return anything.
NativeLoadEnds(t, ok) ==
    /\ loads[t].stage = "native"
    /\ loads[t].target = "null" => ~ok
    /\ loads' = [loads EXCEPT ![t].stage = "posted", ![t].ok = ok]
    /\ g_emu' = IF ok /\ loads[t].target = "live"
                THEN [g_emu EXCEPT !.game = TRUE] ELSE g_emu
    /\ UNCHANGED ui

\* Mutant: a result is only taken by an activity on the screen.
RunResultIfResumed(t) ==
    /\ loads[t].stage = "posted" /\ ui[loads[t].owner].life = "resumed"
    /\ ui' = IF loads[t].ok
             THEN [ui EXCEPT ![loads[t].owner] =
                      StartFrameLoop([@ EXCEPT !.gameLoaded = TRUE])]
             ELSE ui
    /\ loads' = [loads EXCEPT ![t] = NoLoad]
    /\ UNCHANGED g_emu

\* The UI thread runs the message the thread posted, in whatever state the
\* activity is by then.
RunLoadResult(t) ==
    /\ loads[t].stage = "posted"
    /\ ui' = IF loads[t].ok
             THEN [ui EXCEPT ![loads[t].owner] =
                      StartFrameLoop([@ EXCEPT !.gameLoaded = TRUE])]
             ELSE ui
    /\ loads' = [loads EXCEPT ![t] = NoLoad]
    /\ UNCHANGED g_emu
-----------------------------------------------------------------------------
\* The delay of a frame message elapses.
FrameIsDue(a) ==
    /\ ui[a].delayed > 0
    /\ ui' = [ui EXCEPT ![a].delayed = @ - 1, ![a].due = @ + 1]
    /\ UNCHANGED <<loads, g_emu>>

(***************************************************************************)
(* frameRunnable.run(), q being the counter its message was in.  A message *)
(* that finds the loop stopped ends; otherwise nativeTickFrame, which      *)
(* needs a renderer when there is an emulator, and the runnable posts      *)
(* itself again.                                                           *)
(***************************************************************************)
CanTick == g_emu.alive => g_emu.renderer

\* Mutant: the runnable does not post itself again.
AfterOneFrame(w, q) == [w EXCEPT ![q] = @ - 1]

AfterFrame(w, q) ==
    IF ~w.isRunning THEN [w EXCEPT ![q] = @ - 1]
    ELSE IF q = "due" THEN [w EXCEPT !.due = @ - 1, !.delayed = @ + 1]
    ELSE w

RunFrame(a, q) ==
    /\ ui[a][q] > 0 /\ (ui[a].isRunning => CanTick)
    /\ ui' = [ui EXCEPT ![a] = AfterFrame(@, q)]
    /\ UNCHANGED <<loads, g_emu>>

\* An exception in the runnable: it is caught and the loop is marked stopped.
AfterException(w, q) == [w EXCEPT !.isRunning = FALSE, ![q] = @ - 1]

FrameThrows(a, q) ==
    /\ ui[a][q] > 0 /\ ui[a].isRunning
    /\ ui' = [ui EXCEPT ![a] = AfterException(@, q)]
    /\ UNCHANGED <<loads, g_emu>>

\* renderer_->drawFrame() on a null pointer.
FrameCrashes(a, q) ==
    /\ ui[a][q] > 0 /\ ui[a].isRunning /\ ~CanTick
    /\ ProcessDies
-----------------------------------------------------------------------------
UserOrSystem(a) ==
    \/ OnCreate(a) \/ OnResume(a) \/ OnPause(a) \/ OnDestroy(a)
    \/ SurfaceCreated(a) \/ SurfaceDestroyed(a) \/ Collected(a)
    \/ BootButton(a) \/ StopButton(a)
    \/ \E t \in Threads : BootGameFromLibrary(a, t)

Loader(t) ==
    \/ CopyFails(t) \/ NativeLoadBegins(t)
    \/ \E ok \in BOOLEAN : NativeLoadEnds(t, ok)

FrameMessage(a, q) == RunFrame(a, q) \/ FrameThrows(a, q) \/ FrameCrashes(a, q)

Next ==
    \/ \E a \in Activities : \/ UserOrSystem(a) \/ FrameIsDue(a)
                             \/ \E q \in {"due", "stale"} : FrameMessage(a, q)
    \/ \E t \in Threads : Loader(t) \/ RunLoadResult(t)
    \/ ProcessDies

Spec == Init /\ [][Next]_vars

\* The looper serves its queue in order, timers fire and threads run.  Nothing
\* forces a user, the system or an exception to act.
Fairness ==
    /\ \A a \in Activities : /\ WF_vars(FrameIsDue(a))
                             /\ WF_vars(FrameMessage(a, "due"))
    /\ \A t \in Threads : WF_vars(Loader(t)) /\ WF_vars(RunLoadResult(t))

FairSpec == Spec /\ Fairness
-----------------------------------------------------------------------------
(***************************************************************************)
(* Properties.                                                             *)
(***************************************************************************)
Instance ==
    [life : {"none", "paused", "resumed", "destroyed"}, surface : BOOLEAN,
     isRunning : BOOLEAN, gameLoaded : BOOLEAN, stopEnabled : BOOLEAN,
     due : Nat, delayed : Nat, stale : Nat]

Emulator ==
    [alive : BOOLEAN, renderer : BOOLEAN, window : Activities \cup {None},
     game : BOOLEAN]

Load ==
    [stage : {"idle", "copying", "native", "posted"},
     owner : Activities \cup {None}, target : {"null", "live", "dangling"},
     ok : BOOLEAN]

\* The type of the state: a load that has begun has an owner, and only one that
\* runs on a living emulator is marked so.
AppTypeOK ==
    /\ ui \in [Activities -> Instance]
    /\ loads \in [Threads -> Load]
    /\ g_emu \in Emulator
    /\ \A t \in Threads :
          /\ loads[t].stage # "idle" => loads[t].owner \in Activities
          /\ loads[t].stage = "native" /\ loads[t].target = "live" => g_emu.alive

\* startFrameLoop can be reached from onResume, the boot button and any number
\* of load results; still each activity has exactly one frame message while its
\* loop runs and none while it does not, so the emulator is never ticked by two
\* chains of the same activity (MainActivity.kt:459-524).
OneFrameChain ==
    \A a \in Activities :
        /\ ui[a].stale = 0
        /\ ui[a].due + ui[a].delayed = IF ui[a].isRunning THEN 1 ELSE 0

\* The loop of an activity runs only while that activity holds a loaded game:
\* Stop, pauses, late load results and exceptions never leave one without.
RunningImpliesLoaded ==
    \A a \in Activities : ui[a].isRunning => ui[a].gameLoaded

\* The renderer never holds a surface Android has destroyed, whichever instance
\* attached last and in whatever order the others go (MainActivity.kt:159).
DrawsOnLiveSurface ==
    g_emu.alive /\ g_emu.window # None => ui[g_emu.window].surface

\* A loop that is not stopped goes on calling the emulator: a frame message is
\* always followed by another (MainActivity.kt:506-507).
FramesKeepComing ==
    \A a \in Activities :
        []<>(~ui[a].isRunning) \/ []<><<FrameMessage(a, "due")>>_vars

\* Every game the user boots is answered, however the activities come and go:
\* its thread ends and the UI thread runs the result.
LoadsAnswered ==
    \A t \in Threads : loads[t].stage # "idle" ~> loads[t].stage = "idle"
-----------------------------------------------------------------------------
(***************************************************************************)
(* What the source says and the code does not do.                          *)
(***************************************************************************)

\* "Start frame loop after successful game load" (MainActivity.kt:421): a
\* running loop of the activity on the screen drives an emulator that has loaded
\* a game.
RunningGameIsLoaded ==
    \A a \in Activities :
        ui[a].isRunning /\ ui[a].life = "resumed" => g_emu.alive /\ g_emu.game

\* "Stop emulation first" (MainActivity.kt:334): no game is loaded into the
\* emulator while the activity that asked for it runs its frame loop.
NoLoadWhileRunning ==
    \A t \in Threads :
        loads[t].stage = "native" => ~ui[loads[t].owner].isRunning
=============================================================================
