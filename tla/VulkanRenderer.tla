--------------------------- MODULE VulkanRenderer ---------------------------
(***************************************************************************)
(* VulkanRenderer on Android: the objects it holds, the steps that create  *)
(* them and can fail half-way, and drawFrame, which uses them.  One thread *)
(* makes all calls.                                                        *)
(*                                                                         *)
(* A handle in one of the three vectors is "null", "own" (made on the      *)
(* device the renderer holds) or "stale" (made on one it held before).     *)
(* Assumed: the Vulkan calls whose result the code ignores (image views,   *)
(* semaphores, fence, recording, submission) succeed, a submitted frame is *)
(* done within the second drawFrame waits for it, and an acquire takes the *)
(* semaphore as an abandoned acquire left it.                              *)
(***************************************************************************)
EXTENDS Integers, Sequences, FiniteSets

CONSTANTS ImageCounts,  \* the numbers of images a swapchain may have
          Modes,        \* present modes callers ask for; 0 is FIFO
          Supported     \* those the surface offers

ASSUME RendererAssumption ==
    /\ ImageCounts \subseteq Nat \ {0}
    /\ 0 \in Supported /\ 0 \in Modes

VARIABLES
    vk,        \* the members of the renderer
    attached,  \* the last attachAndroidWindow returned true
    held,      \* images acquired from the swapchain and never presented
    answer,    \* external: what the surface answers to an acquire now
    fence,     \* inFlightFence_ is signalled, or will be by a submission
    made,      \* history: objects of the current device not destroyed yet
    parity     \* history: whether an odd number of frames was presented

vars == <<vk, attached, held, answer, fence, made, parity>>

\* images is 0 while swapchain_ is null; scMode is the mode it was made with.
\* sync stands for the two semaphores and the fence.
NewRenderer ==
    [device |-> FALSE, surface |-> FALSE, images |-> 0, scMode |-> 0,
     views |-> <<>>, fbs |-> <<>>, cbs |-> <<>>,
     pass |-> FALSE, pool |-> FALSE, sync |-> FALSE, mode |-> 0]

NothingMade == [swapchains |-> 0, views |-> 0, fbs |-> 0, pools |-> 0]

Init ==
    /\ vk = NewRenderer /\ attached = FALSE
    /\ held = 0 /\ fence = FALSE /\ answer = "image"
    /\ made = NothingMade /\ parity = FALSE

Own(n)   == [i \in 1 .. n |-> "own"]
Null(n)  == [i \in 1 .. n |-> "null"]
Count(v) == Cardinality({i \in DOMAIN v : v[i] = "own"})
-----------------------------------------------------------------------------
(***************************************************************************)
(* Creation.  A step maps the members r and the objects m to the set of    *)
(* outcomes it can have; Then runs a step on the outcomes that are ok.     *)
(***************************************************************************)
Done(r, m)   == [ok |-> TRUE,  r |-> r, m |-> m]
Failed(r, m) == [ok |-> FALSE, r |-> r, m |-> m]

Then(outcomes, Step(_, _)) ==
    {x \in outcomes : ~x.ok}
      \cup UNION {Step(x.r, x.m) : x \in {y \in outcomes : y.ok}}

\* createInstance, createSurface, pickPhysicalDevice, createDeviceAndQueues
CreateDevice(r, m) ==
    {Failed([r EXCEPT !.surface = s], m) : s \in BOOLEAN}
      \cup {Done([r EXCEPT !.surface = TRUE, !.device = TRUE], m)}

\* Mutant: the requested mode is used without asking the surface.
SwapchainUnasked(r, m) ==
    {Failed(r, m)} \cup
    {Done([r EXCEPT !.images = n, !.views = Own(n), !.scMode = r.mode],
          [m EXCEPT !.swapchains = @ + 1, !.views = @ + n]) : n \in ImageCounts}

CreateSwapchain(r, m) ==
    {Failed(r, m)} \cup
    {Done([r EXCEPT !.images = n, !.views = Own(n),
                    !.scMode = IF r.mode \in Supported THEN r.mode ELSE 0],
          [m EXCEPT !.swapchains = @ + 1, !.views = @ + n]) : n \in ImageCounts}

CreateRenderPass(r, m) == {Failed(r, m), Done([r EXCEPT !.pass = TRUE], m)}

\* One framebuffer per image view; the k-th may fail, the rest stay null.
CreateFramebuffers(r, m) ==
    LET n == Len(r.views)
    IN  {Failed([r EXCEPT !.fbs = Own(k) \o Null(n - k)],
                [m EXCEPT !.fbs = @ + k]) : k \in 0 .. (n - 1)}
          \cup {Done([r EXCEPT !.fbs = Own(n)], [m EXCEPT !.fbs = @ + n])}

\* The pool may fail; the buffers may, when the vector has its new length.
CreateCommandPoolAndBuffers(r, m) ==
    LET pool(cbs) == [r EXCEPT !.pool = TRUE, !.cbs = cbs]
        m1        == [m EXCEPT !.pools = @ + 1]
    IN  {Failed(r, m), Failed(pool(Null(Len(r.fbs))), m1),
         Done(pool(Own(Len(r.fbs))), m1)}

CreateSyncObjects(r, m) == {Done([r EXCEPT !.sync = TRUE], m)}

\* What resize and setPresentModeAndroid make anew.
Rebuild(r, m) ==
    Then(Then(CreateSwapchain(r, m), CreateFramebuffers),
         CreateCommandPoolAndBuffers)

\* resetAndroidState forgets every handle but those in the vectors, and
\* destroys nothing.
Aged(v) == [i \in DOMAIN v |-> IF v[i] = "null" THEN "null" ELSE "stale"]

ResetAndroidState(r) ==
    [NewRenderer EXCEPT !.views = Aged(r.views), !.fbs = Aged(r.fbs),
                        !.cbs = Aged(r.cbs)]

Attach(r) ==
    Then(Then(Then(Then(Then(
        CreateDevice(ResetAndroidState(r), NothingMade),
        CreateSwapchain), CreateRenderPass), CreateFramebuffers),
        CreateCommandPoolAndBuffers), CreateSyncObjects)

\* Mutant: the pool is forgotten when it has no buffers.
CleanupWithBuffers(r, m) ==
    Done([r EXCEPT !.images = 0, !.views = <<>>, !.fbs = <<>>, !.cbs = <<>>,
                   !.pool = FALSE],
         [swapchains |-> m.swapchains - (IF r.images > 0 THEN 1 ELSE 0),
          views      |-> m.views - Count(r.views),
          fbs        |-> m.fbs - Count(r.fbs),
          pools      |-> m.pools - (IF Count(r.cbs) > 0 THEN 1 ELSE 0)])

\* Mutant: the freed command buffers stay in the vector.
CleanupKeepsBuffers(r, m) ==
    Done([r EXCEPT !.images = 0, !.views = <<>>, !.fbs = <<>>, !.pool = FALSE],
         [swapchains |-> m.swapchains - (IF r.images > 0 THEN 1 ELSE 0),
          views      |-> m.views - Count(r.views),
          fbs        |-> m.fbs - Count(r.fbs),
          pools      |-> m.pools - (IF r.pool THEN 1 ELSE 0)])

\* cleanupSwapchain destroys the objects it finds and clears the vectors.
CleanupSwapchain(r, m) ==
    Done([r EXCEPT !.images = 0, !.views = <<>>, !.fbs = <<>>, !.cbs = <<>>,
                   !.pool = FALSE],
         [swapchains |-> m.swapchains - (IF r.images > 0 THEN 1 ELSE 0),
          views      |-> m.views - Count(r.views),
          fbs        |-> m.fbs - Count(r.fbs),
          pools      |-> m.pools - (IF r.pool THEN 1 ELSE 0)])
-----------------------------------------------------------------------------
\* A null or foreign handle reaches Vulkan: the call does nothing, or the process
\* dies and a new one has a new renderer.
ProcessDies ==
    /\ vk' = NewRenderer /\ attached' = FALSE
    /\ held' = 0 /\ fence' = FALSE
    /\ made' = NothingMade /\ parity' = FALSE
    /\ UNCHANGED answer

AttachAndroidWindow ==
    \E x \in Attach(vk) :
        /\ vk' = x.r /\ made' = x.m /\ attached' = x.ok
        /\ held' = 0 /\ fence' = x.ok
        /\ UNCHANGED <<answer, parity>>

\* cleanupSwapchain would destroy objects of another device (command buffers
\* are freed with their pool only, and a pool comes with new ones).
Foreign(r) ==
    \E v \in {r.views, r.fbs} : \E i \in DOMAIN v : v[i] = "stale"

\* The swapchain is destroyed and made anew; old images go with it.
Recreate(r) ==
    \/ Foreign(r) /\ ProcessDies
    \/ LET clean == CleanupSwapchain(r, made)
       IN  /\ \E x \in Rebuild(clean.r, clean.m) : vk' = x.r /\ made' = x.m
           /\ held' = 0
           /\ UNCHANGED <<attached, answer, fence, parity>>

Resize ==
    /\ vk.device /\ vk.surface
    /\ Recreate(vk)

\* Mutant: the mode is taken for the next swapchain only.
SetModeLater(mode) ==
    /\ mode # vk.mode
    /\ vk' = [vk EXCEPT !.mode = mode]
    /\ UNCHANGED <<attached, held, answer, fence, made, parity>>

SetPresentMode(mode) ==
    /\ mode # vk.mode
    /\ LET asked == [vk EXCEPT !.mode = mode]
       IN  IF vk.device /\ vk.surface /\ vk.images > 0
           THEN Recreate(asked)
           ELSE /\ vk' = asked
                /\ UNCHANGED <<attached, held, answer, fence, made, parity>>

(***************************************************************************)
(* drawFrame.  Past its guard it waits for the fence, a second at most,    *)
(* resets it, and acquires an image; only a submission sets it again.      *)
(***************************************************************************)
Drawable == vk.device /\ vk.images > 0 /\ vk.cbs # <<>>

Usable ==
    /\ vk.pass /\ vk.sync
    /\ vk.fbs = Own(vk.images) /\ vk.cbs = Own(vk.images)

ImageFree == Drawable /\ Usable /\ held < vk.images

\* Mutant: the wait for the fence has no limit.
PresentAfterFence ==
    /\ ImageFree /\ answer = "image" /\ fence
    /\ fence' = TRUE /\ parity' = ~parity
    /\ UNCHANGED <<vk, attached, held, answer, made>>

DrawPresents ==
    /\ ImageFree /\ answer = "image"
    /\ fence' = TRUE /\ parity' = ~parity
    /\ UNCHANGED <<vk, attached, held, answer, made>>

\* The acquire gives an image and VK_SUBOPTIMAL_KHR, which drawFrame takes for a
\* failure: the image is never presented.
DrawKeepsImage ==
    /\ ImageFree /\ answer = "suboptimal"
    /\ held' = held + 1 /\ fence' = FALSE
    /\ UNCHANGED <<vk, attached, answer, made, parity>>

\* The acquire fails, or times out because no image is left.
DrawSkips ==
    /\ Drawable /\ Usable
    /\ answer = "failure" \/ held = vk.images
    /\ fence' = FALSE
    /\ UNCHANGED <<vk, attached, held, answer, made, parity>>

DrawUndefined == Drawable /\ ~Usable /\ ProcessDies

DrawFrame == DrawPresents \/ DrawKeepsImage \/ DrawSkips \/ DrawUndefined

\* The window is rotated, resized, covered or shown again.
SurfaceChanges ==
    /\ answer' \in {"image", "suboptimal", "failure"}
    /\ UNCHANGED <<vk, attached, held, fence, made, parity>>

Next ==
    \/ AttachAndroidWindow \/ Resize
    \/ \E mode \in Modes : SetPresentMode(mode)
    \/ DrawFrame \/ SurfaceChanges

Spec == Init /\ [][Next]_vars

\* The frame loop keeps drawing: AppLifecycle!FramesKeepComing.
FairSpec == Spec /\ WF_vars(DrawFrame)
-----------------------------------------------------------------------------
(***************************************************************************)
(* Properties.                                                             *)
(***************************************************************************)
Handles == {<<>>} \cup UNION {[1 .. n -> {"null", "own", "stale"}] : n \in ImageCounts}

RendererTypeOK ==
    /\ vk \in [device : BOOLEAN, surface : BOOLEAN, images : ImageCounts \cup {0},
               scMode : Supported, views : Handles, fbs : Handles, cbs : Handles,
               pass : BOOLEAN, pool : BOOLEAN, sync : BOOLEAN, mode : Modes]
    /\ vk.device => vk.surface
    /\ answer \in {"image", "suboptimal", "failure"}
    /\ attached \in BOOLEAN /\ fence \in BOOLEAN /\ parity \in BOOLEAN
    /\ held \in 0 .. vk.images

\* After a successful attach, and through resizes and mode changes that succeed
\* or fail at any step, a drawFrame that passes its guard (VulkanRenderer.cpp:45)
\* finds a framebuffer and a command buffer for every image and none of another
\* device; the worst is a vector of null command buffers (a failed allocation,
\* line 457).
GuardSuffices ==
    attached /\ Drawable =>
        /\ vk.pass /\ vk.pool /\ vk.sync
        /\ vk.fbs = Own(vk.images)
        /\ vk.cbs \in {Own(vk.images), Null(vk.images)}

\* Resizes and mode changes, failed ones too, lose no object of the device: what
\* was made and not destroyed is what the members refer to.
NothingLost ==
    attached => made = [swapchains |-> IF vk.images > 0 THEN 1 ELSE 0,
                        views |-> Count(vk.views), fbs |-> Count(vk.fbs),
                        pools |-> IF vk.pool THEN 1 ELSE 0]

\* The swapchain that draws was made with the mode presentMode_ holds (FIFO when
\* the surface does not offer it), whatever failed between the two.
SwapchainHasMode ==
    vk.images > 0 => vk.scMode = IF vk.mode \in Supported THEN vk.mode ELSE 0

\* A fence that a failed acquire left reset, with nothing submitted that will
\* signal it, delays the next frame and does not stop the renderer: once the
\* surface gives images again to a usable swapchain, frames go on being presented
\* (VulkanRenderer.cpp:50-55).
FramesRecover ==
    <>[](ImageFree /\ answer = "image") => []<><<DrawPresents>>_vars
=============================================================================
