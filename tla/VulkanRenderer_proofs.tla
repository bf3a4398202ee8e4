------------------------ MODULE VulkanRenderer_proofs ------------------------
(***************************************************************************)
(* Proofs about the renderer for every set of image counts and present     *)
(* modes, every point at which an attach, a resize or a mode change fails, *)
(* and any number of them.                                                 *)
(*                                                                         *)
(* Attached renderers come in four shapes: without a swapchain; with one   *)
(* and part of its framebuffers; with all of them and no pool; and with a  *)
(* pool whose command buffers are all there or all null.  Only the last    *)
(* passes the guard of drawFrame.                                          *)
(***************************************************************************)
EXTENDS VulkanRenderer, TLAPS, FiniteSetTheorems, SequenceTheorems

Renderers ==
    [device : BOOLEAN, surface : BOOLEAN, images : ImageCounts \cup {0},
     scMode : Supported, views : Handles, fbs : Handles, cbs : Handles,
     pass : BOOLEAN, pool : BOOLEAN, sync : BOOLEAN, mode : Modes]

\* What holds of every renderer, attached or not.
Good(r) ==
    /\ r \in Renderers
    /\ r.device => r.surface
    /\ r.images > 0 =>
         r.device /\ r.scMode = IF r.mode \in Supported THEN r.mode ELSE 0

\* No swapchain and nothing that goes with it.
Clean(r) ==
    /\ r.images = 0 /\ r.views = <<>> /\ r.fbs = <<>> /\ r.cbs = <<>>
    /\ r.pool = FALSE

\* The framebuffers of n images of which the first k could be made.
Partial(k, n) == Own(k) \o Null(n - k)

Shape(r) ==
    \/ Clean(r)
    \/ /\ r.images \in ImageCounts /\ r.views = Own(r.images)
       /\ \/ /\ \E k \in 0 .. (r.images - 1) : r.fbs = Partial(k, r.images)
             /\ r.cbs = <<>> /\ r.pool = FALSE
          \/ r.fbs = Own(r.images) /\ r.cbs = <<>> /\ r.pool = FALSE
          \/ /\ r.fbs = Own(r.images) /\ r.pool = TRUE
             /\ r.cbs \in {Own(r.images), Null(r.images)}

Counts(r) ==
    [swapchains |-> IF r.images > 0 THEN 1 ELSE 0, views |-> Count(r.views),
     fbs |-> Count(r.fbs), pools |-> IF r.pool THEN 1 ELSE 0]
-----------------------------------------------------------------------------
(* Vectors of handles. *)

LEMMA OwnFacts ==
  ASSUME NEW n \in Nat
  PROVE  /\ Own(n) \in [1 .. n -> {"null", "own", "stale"}]
         /\ Len(Own(n)) = n /\ Count(Own(n)) = n
         /\ \A i \in DOMAIN Own(n) : Own(n)[i] = "own"
<1>1. /\ Own(n) \in [1 .. n -> {"null", "own", "stale"}] /\ DOMAIN Own(n) = 1 .. n
      /\ \A i \in DOMAIN Own(n) : Own(n)[i] = "own"
  BY DEF Own
<1>2. Len(Own(n)) = n
  BY <1>1
<1>3. {i \in DOMAIN Own(n) : Own(n)[i] = "own"} = 1 .. n
  BY <1>1
<1>4. Cardinality(1 .. n) = n
  BY FS_Interval
<1> QED BY <1>1, <1>2, <1>3, <1>4 DEF Count

LEMMA NullFacts ==
  ASSUME NEW n \in Nat
  PROVE  /\ Null(n) \in [1 .. n -> {"null", "own", "stale"}]
         /\ Len(Null(n)) = n
         /\ \A i \in DOMAIN Null(n) : Null(n)[i] = "null"
BY DEF Null

LEMMA EmptyFacts == Count(<<>>) = 0
<1>1. {i \in DOMAIN <<>> : <<>>[i] = "own"} = {}
  OBVIOUS
<1> QED BY <1>1, FS_EmptySet DEF Count

LEMMA PartialFacts ==
  ASSUME NEW n \in Nat, NEW k \in 0 .. n
  PROVE  /\ Partial(k, n) \in [1 .. n -> {"null", "own", "stale"}]
         /\ Len(Partial(k, n)) = n /\ Count(Partial(k, n)) = k
         /\ \A i \in DOMAIN Partial(k, n) : Partial(k, n)[i] # "stale"
<1> DEFINE S == {"null", "own", "stale"}
           p == Partial(k, n)
<1>1. k \in Nat /\ n - k \in Nat
  OBVIOUS
<1>2. /\ Own(k) \in Seq(S) /\ Len(Own(k)) = k
      /\ Null(n - k) \in Seq(S) /\ Len(Null(n - k)) = n - k
  BY <1>1, OwnFacts, NullFacts
<1>3. /\ p \in Seq(S) /\ Len(p) = k + (n - k)
      /\ \A i \in 1 .. (k + (n - k)) :
            p[i] = IF i <= k THEN Own(k)[i] ELSE Null(n - k)[i - k]
  BY <1>2, ConcatProperties DEF Partial
<1> HIDE DEF p
<1>4. Len(p) = n /\ DOMAIN p = 1 .. n /\ p \in [1 .. n -> S]
  BY <1>1, <1>3
<1>5. ASSUME NEW i \in 1 .. n
      PROVE  /\ i <= k => p[i] = "own"
             /\ ~ (i <= k) => p[i] = "null"
  <2>1. p[i] = IF i <= k THEN Own(k)[i] ELSE Null(n - k)[i - k]
    BY <1>1, <1>3, <1>5
  <2>2. i <= k => i \in 1 .. k
    BY <1>1
  <2>3. ~ (i <= k) => i - k \in 1 .. (n - k)
    BY <1>1
  <2> QED BY <2>1, <2>2, <2>3 DEF Own, Null
<1>6. {i \in DOMAIN p : p[i] = "own"} = 1 .. k
  BY <1>1, <1>4, <1>5
<1>7. Cardinality(1 .. k) = k
  BY <1>1, FS_Interval
<1>8. Count(p) = k
  BY <1>6, <1>7 DEF Count
<1> QED BY <1>4, <1>5, <1>8 DEF p

LEMMA HandlesOf ==
  ASSUME NEW n \in ImageCounts
  PROVE  /\ n \in Nat /\ n > 0
         /\ Own(n) \in Handles /\ Null(n) \in Handles /\ <<>> \in Handles
         /\ \A k \in 0 .. (n - 1) : Partial(k, n) \in Handles
<1>1. n \in Nat /\ n > 0
  BY RendererAssumption
<1>2. \A k \in 0 .. (n - 1) : k \in 0 .. n
  BY <1>1
<1> QED BY <1>1, <1>2, OwnFacts, NullFacts, PartialFacts DEF Handles

LEMMA AgedHandles ==
  ASSUME NEW v \in Handles
  PROVE  Aged(v) \in Handles
<1>1. CASE v = <<>>
  BY <1>1 DEF Aged, Handles
<1>2. ASSUME NEW n \in ImageCounts, v \in [1 .. n -> {"null", "own", "stale"}]
      PROVE  Aged(v) \in Handles
  <2>1. Aged(v) \in [1 .. n -> {"null", "own", "stale"}]
    BY <1>2 DEF Aged
  <2> QED BY <2>1 DEF Handles
<1> QED BY <1>1, <1>2 DEF Handles
-----------------------------------------------------------------------------
(***************************************************************************)
(* The steps of creation.  Same lists the members a step leaves alone.     *)
(***************************************************************************)
Same(r, s, fields) == \A f \in fields : r[f] = s[f]

Members == {"device", "surface", "images", "scMode", "views", "fbs", "cbs",
            "pass", "pool", "sync", "mode"}

\* What the steps add to the objects made.
WithSwapchain(m, n)    == [m EXCEPT !.swapchains = @ + 1, !.views = @ + n]
WithFramebuffers(m, k) == [m EXCEPT !.fbs = @ + k]
WithPool(m)            == [m EXCEPT !.pools = @ + 1]

MadeOf(s, v, f, p) == [swapchains |-> s, views |-> v, fbs |-> f, pools |-> p]

LEMMA MadeBy ==
  ASSUME NEW n \in Nat, NEW k \in Nat
  PROVE  /\ WithSwapchain(NothingMade, n) = MadeOf(1, n, 0, 0)
         /\ WithFramebuffers(MadeOf(1, n, 0, 0), k) = MadeOf(1, n, k, 0)
         /\ WithPool(MadeOf(1, n, k, 0)) = MadeOf(1, n, k, 1)
<1>1. NothingMade = MadeOf(0, 0, 0, 0)
  BY DEF NothingMade, MadeOf
<1>2. WithSwapchain(MadeOf(0, 0, 0, 0), n) = MadeOf(1, n, 0, 0)
  <2> DEFINE a == MadeOf(0, 0, 0, 0)
  <2>1. a.swapchains = 0 /\ a.views = 0
    BY DEF MadeOf
  <2>2. [[a EXCEPT !.swapchains = 1] EXCEPT !.views = n] = MadeOf(1, n, 0, 0)
    <3>1. [a EXCEPT !.swapchains = 1] = MadeOf(1, 0, 0, 0)
      BY DEF MadeOf
    <3>2. [MadeOf(1, 0, 0, 0) EXCEPT !.views = n] = MadeOf(1, n, 0, 0)
      BY DEF MadeOf
    <3> HIDE DEF a
    <3> QED BY <3>1, <3>2
  <2> HIDE DEF a
  <2>3. WithSwapchain(a, n) = [[a EXCEPT !.swapchains = 0 + 1] EXCEPT !.views = 0 + n]
    BY <2>1 DEF WithSwapchain
  <2>4. 0 + 1 = 1 /\ 0 + n = n
    OBVIOUS
  <2>5. WithSwapchain(a, n) = MadeOf(1, n, 0, 0)
    BY <2>2, <2>3, <2>4
  <2> QED BY <2>5 DEF a
<1>3. WithFramebuffers(MadeOf(1, n, 0, 0), k) = MadeOf(1, n, k, 0)
  BY DEF MadeOf, WithFramebuffers
<1>4. WithPool(MadeOf(1, n, k, 0)) = MadeOf(1, n, k, 1)
  BY DEF MadeOf, WithPool
<1> QED BY <1>1, <1>2, <1>3, <1>4

LEMMA SwapchainOutcomes ==
  ASSUME NEW r, Good(r), r.device, NEW m, NEW x \in CreateSwapchain(r, m)
  PROVE  \/ ~ x.ok /\ x.r = r /\ x.m = m
         \/ /\ x.ok /\ Good(x.r)
            /\ Same(x.r, r, Members \ {"images", "views", "scMode"})
            /\ x.r.images \in ImageCounts /\ x.r.views = Own(x.r.images)
            /\ x.m = WithSwapchain(m, x.r.images)
<1>1. CASE x = Failed(r, m)
  BY <1>1 DEF Failed
<1>2. ASSUME NEW n \in ImageCounts,
             x = Done([r EXCEPT !.images = n, !.views = Own(n),
                                !.scMode = IF r.mode \in Supported THEN r.mode ELSE 0],
                      [m EXCEPT !.swapchains = @ + 1, !.views = @ + n])
      PROVE  /\ x.ok /\ Good(x.r)
             /\ Same(x.r, r, Members \ {"images", "views", "scMode"})
             /\ x.r.images = n /\ x.r.views = Own(n)
             /\ x.m = WithSwapchain(m, n)
  <2> DEFINE chosen == IF r.mode \in Supported THEN r.mode ELSE 0
             s == [r EXCEPT !.images = n, !.views = Own(n), !.scMode = chosen]
  <2>1. x.ok /\ x.r = s /\ x.m = WithSwapchain(m, n)
    BY <1>2 DEF Done, WithSwapchain
  <2>2. r \in Renderers /\ (r.device => r.surface)
    BY DEF Good
  <2>3. chosen \in Supported /\ Own(n) \in Handles /\ n \in ImageCounts \cup {0}
    BY RendererAssumption, HandlesOf
  <2>4. /\ s.images = n /\ s.views = Own(n) /\ s.scMode = chosen
        /\ Same(s, r, Members \ {"images", "views", "scMode"})
    BY <2>2 DEF Renderers, Same, Members
  <2>5. s \in Renderers
    <3> HIDE DEF chosen
    <3> QED BY <2>2, <2>3, Zenon DEF Renderers
  <2>6. s.device = r.device /\ s.surface = r.surface /\ s.mode = r.mode
    BY <2>2 DEF Renderers
  <2> HIDE DEF s
  <2>7. Good(s)
    BY <2>2, <2>4, <2>5, <2>6 DEF Good
  <2> QED BY <2>1, <2>4, <2>7
<1> QED BY <1>1, <1>2 DEF CreateSwapchain

LEMMA FramebufferOutcomes ==
  ASSUME NEW r, Good(r), r.images \in ImageCounts, r.views = Own(r.images),
         NEW m, NEW x \in CreateFramebuffers(r, m)
  PROVE  /\ Good(x.r) /\ Same(x.r, r, Members \ {"fbs"})
         /\ \/ /\ ~ x.ok
               /\ \E k \in 0 .. (r.images - 1) :
                     /\ x.r.fbs = Partial(k, r.images)
                     /\ x.m = WithFramebuffers(m, k)
            \/ /\ x.ok /\ x.r.fbs = Own(r.images)
               /\ x.m = WithFramebuffers(m, r.images)
<1> DEFINE n == r.images
<1>1. n \in Nat /\ Len(r.views) = n /\ r \in Renderers
  BY HandlesOf, OwnFacts DEF Good
<1>2. ASSUME NEW v \in Handles, NEW s, s = [r EXCEPT !.fbs = v]
      PROVE  Good(s) /\ Same(s, r, Members \ {"fbs"}) /\ s.fbs = v
  <2>1. s.fbs = v /\ Same(s, r, Members \ {"fbs"})
    BY <1>1, <1>2 DEF Renderers, Same, Members
  <2>2. s \in Renderers
    BY <1>1, <1>2, Zenon DEF Renderers
  <2>3. /\ s.device = r.device /\ s.surface = r.surface /\ s.mode = r.mode
        /\ s.images = r.images /\ s.scMode = r.scMode
    BY <1>1, <1>2 DEF Renderers
  <2> QED BY <2>1, <2>2, <2>3 DEF Good
<1>3. ASSUME NEW k \in 0 .. (n - 1),
             x = Failed([r EXCEPT !.fbs = Own(k) \o Null(n - k)],
                        [m EXCEPT !.fbs = @ + k])
      PROVE  /\ ~ x.ok /\ Good(x.r) /\ Same(x.r, r, Members \ {"fbs"})
             /\ x.r.fbs = Partial(k, n) /\ x.m = WithFramebuffers(m, k)
  <2>1. Partial(k, n) \in Handles
    BY HandlesOf
  <2>2. ~ x.ok /\ x.r = [r EXCEPT !.fbs = Partial(k, n)]
        /\ x.m = WithFramebuffers(m, k)
    BY <1>3 DEF Failed, Partial, WithFramebuffers
  <2> QED BY <1>2, <2>1, <2>2
<1>4. ASSUME x = Done([r EXCEPT !.fbs = Own(n)], [m EXCEPT !.fbs = @ + n])
      PROVE  /\ x.ok /\ Good(x.r) /\ Same(x.r, r, Members \ {"fbs"})
             /\ x.r.fbs = Own(n) /\ x.m = WithFramebuffers(m, n)
  <2>1. Own(n) \in Handles
    BY HandlesOf
  <2>2. x.ok /\ x.r = [r EXCEPT !.fbs = Own(n)] /\ x.m = WithFramebuffers(m, n)
    BY <1>4 DEF Done, WithFramebuffers
  <2> QED BY <1>2, <2>1, <2>2
<1>5. \/ \E k \in 0 .. (n - 1) :
            x = Failed([r EXCEPT !.fbs = Own(k) \o Null(n - k)],
                       [m EXCEPT !.fbs = @ + k])
      \/ x = Done([r EXCEPT !.fbs = Own(n)], [m EXCEPT !.fbs = @ + n])
  BY <1>1 DEF CreateFramebuffers
<1> QED BY <1>3, <1>4, <1>5

LEMMA PoolOutcomes ==
  ASSUME NEW r, Good(r), r.images \in ImageCounts, r.fbs = Own(r.images),
         NEW m, NEW x \in CreateCommandPoolAndBuffers(r, m)
  PROVE  \/ ~ x.ok /\ x.r = r /\ x.m = m
         \/ /\ Good(x.r) /\ Same(x.r, r, Members \ {"cbs", "pool"})
            /\ x.r.pool = TRUE /\ x.r.cbs \in {Own(r.images), Null(r.images)}
            /\ x.ok => x.r.cbs = Own(r.images)
            /\ x.m = WithPool(m)
<1> DEFINE n == r.images
<1>1. n \in Nat /\ Len(r.fbs) = n /\ r \in Renderers
  BY HandlesOf, OwnFacts DEF Good
<1>2. ASSUME NEW v \in Handles, NEW s, s = [r EXCEPT !.pool = TRUE, !.cbs = v]
      PROVE  /\ Good(s) /\ Same(s, r, Members \ {"cbs", "pool"})
             /\ s.cbs = v /\ s.pool = TRUE
  <2>1. s.cbs = v /\ s.pool = TRUE /\ Same(s, r, Members \ {"cbs", "pool"})
    BY <1>1, <1>2 DEF Renderers, Same, Members
  <2>2. s \in Renderers
    BY <1>1, <1>2, Zenon DEF Renderers
  <2>3. /\ s.device = r.device /\ s.surface = r.surface /\ s.mode = r.mode
        /\ s.images = r.images /\ s.scMode = r.scMode
    BY <1>1, <1>2 DEF Renderers
  <2> QED BY <2>1, <2>2, <2>3 DEF Good
<1>3. \/ x = Failed(r, m)
      \/ x = Failed([r EXCEPT !.pool = TRUE, !.cbs = Null(n)],
                    [m EXCEPT !.pools = @ + 1])
      \/ x = Done([r EXCEPT !.pool = TRUE, !.cbs = Own(n)],
                  [m EXCEPT !.pools = @ + 1])
  BY <1>1 DEF CreateCommandPoolAndBuffers
<1>4. Own(n) \in Handles /\ Null(n) \in Handles
  BY HandlesOf
<1>5. CASE x = Failed(r, m)
  BY <1>5 DEF Failed
<1>6. CASE x = Failed([r EXCEPT !.pool = TRUE, !.cbs = Null(n)],
                      [m EXCEPT !.pools = @ + 1])
  <2>1. ~ x.ok /\ x.r = [r EXCEPT !.pool = TRUE, !.cbs = Null(n)]
        /\ x.m = WithPool(m)
    BY <1>6 DEF Failed, WithPool
  <2> QED BY <1>2, <1>4, <2>1
<1>7. CASE x = Done([r EXCEPT !.pool = TRUE, !.cbs = Own(n)],
                    [m EXCEPT !.pools = @ + 1])
  <2>1. x.ok /\ x.r = [r EXCEPT !.pool = TRUE, !.cbs = Own(n)]
        /\ x.m = WithPool(m)
    BY <1>7 DEF Done, WithPool
  <2> QED BY <1>2, <1>4, <2>1
<1> QED BY <1>3, <1>5, <1>6, <1>7

LEMMA PassOutcomes ==
  ASSUME NEW r, Good(r), NEW m, NEW x \in CreateRenderPass(r, m)
  PROVE  /\ x.m = m /\ Good(x.r) /\ Same(x.r, r, Members \ {"pass"})
         /\ x.ok => x.r.pass = TRUE
<1>1. r \in Renderers
  BY DEF Good
<1>2. CASE x = Failed(r, m)
  BY <1>2 DEF Failed, Same
<1>3. CASE x = Done([r EXCEPT !.pass = TRUE], m)
  <2> DEFINE s == [r EXCEPT !.pass = TRUE]
  <2>1. x.m = m /\ x.r = s
    BY <1>3 DEF Done
  <2>2. s.pass = TRUE /\ Same(s, r, Members \ {"pass"})
    BY <1>1 DEF Renderers, Same, Members
  <2>3. s \in Renderers
    BY <1>1, Zenon DEF Renderers
  <2>4. /\ s.device = r.device /\ s.surface = r.surface /\ s.mode = r.mode
        /\ s.images = r.images /\ s.scMode = r.scMode
    BY <1>1 DEF Renderers
  <2> HIDE DEF s
  <2> QED BY <2>1, <2>2, <2>3, <2>4 DEF Good
<1> QED BY <1>2, <1>3 DEF CreateRenderPass

LEMMA SyncOutcomes ==
  ASSUME NEW r, Good(r), NEW m, NEW x \in CreateSyncObjects(r, m)
  PROVE  /\ x.m = m /\ Good(x.r) /\ Same(x.r, r, Members \ {"sync"})
         /\ x.r.sync = TRUE
<1>1. r \in Renderers
  BY DEF Good
<1> DEFINE s == [r EXCEPT !.sync = TRUE]
<1>2. x.m = m /\ x.r = s
  BY DEF CreateSyncObjects, Done
<1>3. s.sync = TRUE /\ Same(s, r, Members \ {"sync"})
  BY <1>1 DEF Renderers, Same, Members
<1>4. s \in Renderers
  BY <1>1, Zenon DEF Renderers
<1>5. /\ s.device = r.device /\ s.surface = r.surface /\ s.mode = r.mode
      /\ s.images = r.images /\ s.scMode = r.scMode
  BY <1>1 DEF Renderers
<1> HIDE DEF s
<1> QED BY <1>2, <1>3, <1>4, <1>5 DEF Good

\* What Rebuild may leave, from a renderer without swapchain.
LEMMA RebuildOutcomes ==
  ASSUME NEW r, Good(r), r.device, Clean(r), NEW m, NEW x \in Rebuild(r, m)
  PROVE  /\ Good(x.r) /\ Shape(x.r)
         /\ Same(x.r, r, {"device", "surface", "pass", "sync", "mode"})
         /\ m = NothingMade => x.m = Counts(x.r)
<1> DEFINE A == Then(CreateSwapchain(r, m), CreateFramebuffers)
           Kept == {"device", "surface", "pass", "sync", "mode"}
           Fine(y) == /\ Good(y.r) /\ Shape(y.r) /\ Same(y.r, r, Kept)
                      /\ m = NothingMade => y.m = Counts(y.r)
<1>1. ASSUME NEW y, y.r = r, y.m = m PROVE Fine(y)
  <2>1. m = NothingMade => m = Counts(r)
    BY EmptyFacts DEF Counts, Clean, NothingMade
  <2> QED BY <1>1, <2>1 DEF Same, Shape
<1>2. ASSUME NEW z \in CreateSwapchain(r, m), z.ok
      PROVE  /\ Good(z.r) /\ Same(z.r, r, Members \ {"images", "views", "scMode"})
             /\ z.r.images \in ImageCounts /\ z.r.views = Own(z.r.images)
             /\ z.m = WithSwapchain(m, z.r.images)
             /\ z.r.fbs = <<>> /\ z.r.cbs = <<>> /\ z.r.pool = FALSE
             /\ Same(z.r, r, Kept)
  <2>1. /\ Good(z.r) /\ Same(z.r, r, Members \ {"images", "views", "scMode"})
        /\ z.r.images \in ImageCounts /\ z.r.views = Own(z.r.images)
        /\ z.m = WithSwapchain(m, z.r.images)
    <3> HIDE DEF A, Kept, Fine
    <3> QED BY <1>2, SwapchainOutcomes, Zenon
  <2>2. /\ z.r.fbs = r.fbs /\ z.r.cbs = r.cbs /\ z.r.pool = r.pool
        /\ Same(z.r, r, Kept)
    BY <2>1 DEF Same, Members
  <2> QED BY <2>1, <2>2 DEF Clean
<1>3. ASSUME NEW z \in CreateSwapchain(r, m), z.ok,
             NEW y \in CreateFramebuffers(z.r, z.m)
      PROVE  /\ Good(y.r) /\ y.r.images \in ImageCounts
             /\ y.r.views = Own(y.r.images)
             /\ y.r.cbs = <<>> /\ y.r.pool = FALSE /\ Same(y.r, r, Kept)
             /\ \/ /\ ~ y.ok
                   /\ \E k \in 0 .. (y.r.images - 1) :
                        /\ y.r.fbs = Partial(k, y.r.images)
                        /\ m = NothingMade =>
                             y.m = MadeOf(1, y.r.images, k, 0)
                \/ /\ y.ok /\ y.r.fbs = Own(y.r.images)
                   /\ m = NothingMade =>
                        y.m = MadeOf(1, y.r.images, y.r.images, 0)
  <2>1. /\ Good(z.r) /\ z.r.images \in ImageCounts /\ z.r.views = Own(z.r.images)
        /\ z.m = WithSwapchain(m, z.r.images)
        /\ z.r.fbs = <<>> /\ z.r.cbs = <<>> /\ z.r.pool = FALSE
        /\ Same(z.r, r, Kept)
    BY <1>2, <1>3
  <2>2. /\ Good(y.r) /\ Same(y.r, z.r, Members \ {"fbs"})
        /\ \/ /\ ~ y.ok
              /\ \E k \in 0 .. (z.r.images - 1) :
                    /\ y.r.fbs = Partial(k, z.r.images)
                    /\ y.m = WithFramebuffers(z.m, k)
           \/ /\ y.ok /\ y.r.fbs = Own(z.r.images)
              /\ y.m = WithFramebuffers(z.m, z.r.images)
    BY <1>3, <2>1, FramebufferOutcomes
  <2>3. /\ y.r.images = z.r.images /\ y.r.views = z.r.views
        /\ y.r.cbs = z.r.cbs /\ y.r.pool = z.r.pool /\ Same(y.r, z.r, Kept)
    BY <2>2 DEF Same, Members
  <2>4. Same(y.r, r, Kept)
    BY <2>1, <2>3 DEF Same
  <2>5. z.r.images \in Nat
    BY <2>1, HandlesOf
  <2>6. ASSUME NEW k \in Nat, m = NothingMade
        PROVE  WithFramebuffers(z.m, k) =
                 MadeOf(1, z.r.images, k, 0)
    <3> HIDE DEF A, Kept, Fine
    <3> QED BY <2>1, <2>5, <2>6, MadeBy
  <2> HIDE DEF A, Kept, Fine
  <2>7. CASE y.ok
    <3>1. y.r.fbs = Own(z.r.images) /\ y.m = WithFramebuffers(z.m, z.r.images)
      BY <2>2, <2>7
    <3> QED BY <2>1, <2>2, <2>3, <2>4, <2>5, <2>6, <2>7, <3>1
  <2>8. CASE ~ y.ok
    <3>1. PICK k \in 0 .. (z.r.images - 1) :
             /\ y.r.fbs = Partial(k, z.r.images)
             /\ y.m = WithFramebuffers(z.m, k)
      BY <2>2, <2>8
    <3>2. k \in Nat /\ k \in 0 .. (y.r.images - 1)
      BY <2>3, <2>5
    <3> QED BY <2>1, <2>2, <2>3, <2>4, <2>6, <2>8, <3>1, <3>2
  <2> QED BY <2>7, <2>8
<1>4. ASSUME NEW y \in A, ~ y.ok PROVE Fine(y)
  <2>1. CASE y \in CreateSwapchain(r, m)
    <3>1. y.r = r /\ y.m = m
      BY <1>4, <2>1, SwapchainOutcomes
    <3> QED BY <1>1, <3>1
  <2>2. ASSUME NEW z \in CreateSwapchain(r, m), z.ok,
               y \in CreateFramebuffers(z.r, z.m)
        PROVE  Fine(y)
    <3>1. PICK k \in 0 .. (y.r.images - 1) :
            /\ y.r.fbs = Partial(k, y.r.images)
            /\ m = NothingMade =>
                 y.m = MadeOf(1, y.r.images, k, 0)
      BY <1>3, <1>4, <2>2
    <3>2. /\ Good(y.r) /\ y.r.images \in ImageCounts
          /\ y.r.views = Own(y.r.images)
          /\ y.r.cbs = <<>> /\ y.r.pool = FALSE /\ Same(y.r, r, Kept)
      BY <1>3, <2>2
    <3>3. y.r.images \in Nat /\ y.r.images > 0 /\ k \in 0 .. y.r.images
      BY <3>2, HandlesOf
    <3>4. Count(y.r.views) = y.r.images /\ Count(y.r.fbs) = k
      BY <3>1, <3>2, <3>3, OwnFacts, PartialFacts
    <3>5. m = NothingMade => y.m = Counts(y.r)
      BY <3>1, <3>2, <3>3, <3>4 DEF Counts, MadeOf
    <3>6. Shape(y.r)
      BY <3>1, <3>2 DEF Shape
    <3> QED BY <3>2, <3>5, <3>6
  <2>3. \/ y \in CreateSwapchain(r, m)
        \/ \E z \in CreateSwapchain(r, m) :
              z.ok /\ y \in CreateFramebuffers(z.r, z.m)
    BY DEF Then
  <2> QED BY <2>1, <2>2, <2>3
<1>5. ASSUME NEW y \in A, y.ok, NEW w \in CreateCommandPoolAndBuffers(y.r, y.m)
      PROVE  Fine(w)
  <2>1. \E z \in CreateSwapchain(r, m) :
           z.ok /\ y \in CreateFramebuffers(z.r, z.m)
    BY <1>5 DEF Then
  <2>2. /\ Good(y.r) /\ y.r.images \in ImageCounts
        /\ y.r.views = Own(y.r.images) /\ y.r.fbs = Own(y.r.images)
        /\ y.r.cbs = <<>> /\ y.r.pool = FALSE /\ Same(y.r, r, Kept)
        /\ m = NothingMade =>
             y.m = MadeOf(1, y.r.images, y.r.images, 0)
    BY <1>3, <1>5, <2>1
  <2>3. y.r.images \in Nat /\ y.r.images > 0 /\ Count(Own(y.r.images)) = y.r.images
    BY <2>2, HandlesOf, OwnFacts
  <2>4. CASE w.r = y.r /\ w.m = y.m
    <3>1. Shape(y.r)
      BY <2>2 DEF Shape
    <3>2. m = NothingMade => y.m = Counts(y.r)
      BY <2>2, <2>3 DEF Counts, MadeOf
    <3> QED BY <2>2, <2>4, <3>1, <3>2
  <2>5. CASE /\ Good(w.r) /\ Same(w.r, y.r, Members \ {"cbs", "pool"})
             /\ w.r.pool = TRUE /\ w.r.cbs \in {Own(y.r.images), Null(y.r.images)}
             /\ w.m = WithPool(y.m)
    <3>1. /\ w.r.images = y.r.images /\ w.r.views = y.r.views
          /\ w.r.fbs = y.r.fbs /\ Same(w.r, y.r, Kept)
      BY <2>5 DEF Same, Members
    <3>2. Same(w.r, r, Kept)
      BY <2>2, <3>1 DEF Same
    <3>3. Shape(w.r)
      BY <2>2, <2>5, <3>1 DEF Shape
    <3>4. m = NothingMade => w.m = Counts(w.r)
      BY <2>2, <2>3, <2>5, <3>1, MadeBy DEF Counts, MadeOf
    <3> QED BY <2>5, <3>2, <3>3, <3>4
  <2> HIDE DEF A, Kept, Fine
  <2>6. \/ ~ w.ok /\ w.r = y.r /\ w.m = y.m
        \/ /\ Good(w.r) /\ Same(w.r, y.r, Members \ {"cbs", "pool"})
           /\ w.r.pool = TRUE /\ w.r.cbs \in {Own(y.r.images), Null(y.r.images)}
           /\ w.ok => w.r.cbs = Own(y.r.images)
           /\ w.m = WithPool(y.m)
    BY <1>5, <2>2, PoolOutcomes, Zenon
  <2> QED BY <2>4, <2>5, <2>6
<1>6. \/ x \in A /\ ~ x.ok
      \/ \E y \in A : y.ok /\ x \in CreateCommandPoolAndBuffers(y.r, y.m)
  BY DEF Rebuild, Then
<1> HIDE DEF A
<1>7. Fine(x)
  <2> HIDE DEF Fine
  <2> QED BY <1>4, <1>5, <1>6
<1> QED BY <1>7

LEMMA ResetGood ==
  ASSUME NEW r, r \in Renderers
  PROVE  LET s == ResetAndroidState(r)
         IN  /\ s \in Renderers /\ s.device = FALSE /\ s.surface = FALSE
             /\ s.images = 0 /\ s.scMode = 0 /\ s.mode = 0
             /\ s.pool = FALSE
<1> DEFINE s == ResetAndroidState(r)
<1>1. r.views \in Handles /\ r.fbs \in Handles /\ r.cbs \in Handles
  BY DEF Renderers
<1>2. Aged(r.views) \in Handles /\ Aged(r.fbs) \in Handles /\ Aged(r.cbs) \in Handles
  BY <1>1, AgedHandles
<1>3. NewRenderer \in Renderers
  <2>1. 0 \in Supported /\ 0 \in Modes /\ <<>> \in Handles
    BY RendererAssumption DEF Handles
  <2>2. 0 \in ImageCounts \cup {0} /\ FALSE \in BOOLEAN
    OBVIOUS
  <2> QED BY <2>1, <2>2, Zenon DEF NewRenderer, Renderers
<1>4. /\ NewRenderer.device = FALSE /\ NewRenderer.surface = FALSE
      /\ NewRenderer.images = 0 /\ NewRenderer.scMode = 0
      /\ NewRenderer.mode = 0 /\ NewRenderer.pool = FALSE
  BY DEF NewRenderer
<1>5. s = [[[NewRenderer EXCEPT !.views = Aged(r.views)]
              EXCEPT !.fbs = Aged(r.fbs)] EXCEPT !.cbs = Aged(r.cbs)]
  BY DEF ResetAndroidState
<1> HIDE DEF s
<1>6. s \in Renderers
  BY <1>2, <1>3, <1>5, Zenon DEF Renderers
<1>7. /\ s.device = NewRenderer.device /\ s.surface = NewRenderer.surface
      /\ s.images = NewRenderer.images /\ s.scMode = NewRenderer.scMode
      /\ s.mode = NewRenderer.mode /\ s.pool = NewRenderer.pool
  BY <1>3, <1>5 DEF Renderers
<1> QED BY <1>4, <1>6, <1>7 DEF s

\* The device comes first, and everything else on it.
LEMMA DeviceOutcomes ==
  ASSUME NEW r, r \in Renderers, r.device = FALSE, r.images = 0,
         NEW m, NEW x \in CreateDevice(r, m)
  PROVE  /\ x.m = m /\ Good(x.r)
         /\ Same(x.r, r, Members \ {"device", "surface"})
         /\ x.ok => x.r.device = TRUE
<1>1. ASSUME NEW d \in BOOLEAN, NEW u \in BOOLEAN, d => u,
             NEW s, s = [[r EXCEPT !.surface = u] EXCEPT !.device = d]
      PROVE  /\ Good(s) /\ s.device = d
             /\ Same(s, r, Members \ {"device", "surface"})
  <2>1. /\ s.device = d /\ s.surface = u /\ s.images = 0
        /\ Same(s, r, Members \ {"device", "surface"})
    BY <1>1 DEF Renderers, Same, Members
  <2>2. s \in Renderers
    BY <1>1, Zenon DEF Renderers
  <2> QED BY <1>1, <2>1, <2>2 DEF Good
<1>2. ASSUME NEW u \in BOOLEAN, x = Failed([r EXCEPT !.surface = u], m)
      PROVE  /\ x.m = m /\ Good(x.r) /\ ~ x.ok
             /\ Same(x.r, r, Members \ {"device", "surface"})
  <2>1. [r EXCEPT !.surface = u] = [[r EXCEPT !.surface = u] EXCEPT !.device = FALSE]
    BY DEF Renderers
  <2>2. ~ x.ok /\ x.m = m /\ x.r = [r EXCEPT !.surface = u]
    BY <1>2 DEF Failed
  <2>3. FALSE \in BOOLEAN /\ (FALSE => u)
    OBVIOUS
  <2> QED BY <1>1, <2>1, <2>2, <2>3
<1>3. ASSUME x = Done([r EXCEPT !.surface = TRUE, !.device = TRUE], m)
      PROVE  /\ x.m = m /\ Good(x.r) /\ x.r.device = TRUE
             /\ Same(x.r, r, Members \ {"device", "surface"})
  <2>1. x.m = m /\ x.r = [[r EXCEPT !.surface = TRUE] EXCEPT !.device = TRUE]
    BY <1>3 DEF Done
  <2>2. TRUE \in BOOLEAN
    OBVIOUS
  <2> QED BY <1>1, <2>1, <2>2
<1>4. \/ \E u \in BOOLEAN : x = Failed([r EXCEPT !.surface = u], m)
      \/ x = Done([r EXCEPT !.surface = TRUE, !.device = TRUE], m)
  BY DEF CreateDevice
<1> QED BY <1>2, <1>3, <1>4

LEMMA AttachAnswers ==
  ASSUME NEW r, NEW x \in Attach(r)
  PROVE  x.ok \in BOOLEAN
<1> DEFINE s  == ResetAndroidState(r)
           A0 == CreateDevice(s, NothingMade)
           A1 == Then(A0, CreateSwapchain)
           A2 == Then(A1, CreateRenderPass)
           A3 == Then(A2, CreateFramebuffers)
           A4 == Then(A3, CreateCommandPoolAndBuffers)
           Answers(S) == \A y \in S : y.ok \in BOOLEAN
<1>1. ASSUME NEW q, NEW m
      PROVE  /\ Failed(q, m).ok = FALSE /\ Done(q, m).ok = TRUE
  BY DEF Failed, Done
<1>2. ASSUME NEW q, NEW m PROVE Answers(CreateDevice(q, m))
  BY <1>1 DEF CreateDevice
<1>3. ASSUME NEW q, NEW m PROVE Answers(CreateSwapchain(q, m))
  BY <1>1 DEF CreateSwapchain
<1>4. ASSUME NEW q, NEW m PROVE Answers(CreateRenderPass(q, m))
  BY <1>1 DEF CreateRenderPass
<1>5. ASSUME NEW q, NEW m PROVE Answers(CreateFramebuffers(q, m))
  BY <1>1, Zenon DEF CreateFramebuffers
<1>6. ASSUME NEW q, NEW m PROVE Answers(CreateCommandPoolAndBuffers(q, m))
  BY <1>1, Zenon DEF CreateCommandPoolAndBuffers
<1>7. ASSUME NEW q, NEW m PROVE Answers(CreateSyncObjects(q, m))
  BY <1>1 DEF CreateSyncObjects
<1>8. Answers(A0)
  BY <1>2
<1> HIDE DEF A0
<1>9. Answers(A1)
  BY <1>3, <1>8 DEF Then
<1> HIDE DEF A1
<1>10. Answers(A2)
  BY <1>4, <1>9 DEF Then
<1> HIDE DEF A2
<1>11. Answers(A3)
  BY <1>5, <1>10 DEF Then
<1> HIDE DEF A3
<1>12. Answers(A4)
  BY <1>6, <1>11 DEF Then
<1>13. x \in Then(A4, CreateSyncObjects)
  BY Zenon DEF Attach, A0, A1, A2, A3
<1> HIDE DEF A4
<1> QED BY <1>7, <1>12, <1>13 DEF Then

\* A successful attach makes everything; a failed one may stop anywhere.
LEMMA AttachOutcomes ==
  ASSUME NEW r, r \in Renderers, NEW x \in Attach(r)
  PROVE  /\ Good(x.r)
         /\ x.ok => /\ x.r.device = TRUE /\ x.r.pass = TRUE /\ x.r.sync = TRUE
                    /\ Shape(x.r) /\ x.m = Counts(x.r)
<1> DEFINE s  == ResetAndroidState(r)
           A0 == CreateDevice(s, NothingMade)
           A1 == Then(A0, CreateSwapchain)
           A2 == Then(A1, CreateRenderPass)
           A3 == Then(A2, CreateFramebuffers)
           A4 == Then(A3, CreateCommandPoolAndBuffers)
           HasImages(y) == /\ y.r.device = TRUE /\ y.r.images \in ImageCounts
                           /\ y.r.views = Own(y.r.images)
           n(y) == y.r.images
           P0(y) == /\ y.r.device = TRUE /\ y.r.pool = FALSE /\ y.m = NothingMade
           P1(y) == HasImages(y) /\ y.r.pool = FALSE /\ y.m = MadeOf(1, n(y), 0, 0)
           P2(y) == P1(y) /\ y.r.pass = TRUE
           P3(y) == /\ HasImages(y) /\ y.r.pass = TRUE /\ y.r.fbs = Own(n(y))
                    /\ y.r.pool = FALSE /\ y.m = MadeOf(1, n(y), n(y), 0)
           P4(y) == /\ HasImages(y) /\ y.r.pass = TRUE /\ y.r.fbs = Own(n(y))
                    /\ y.r.pool = TRUE /\ y.r.cbs = Own(n(y))
                    /\ y.m = MadeOf(1, n(y), n(y), 1)
<1>1. /\ s \in Renderers /\ s.device = FALSE /\ s.images = 0 /\ s.pool = FALSE
  BY ResetGood
<1> HIDE DEF s
<1>2. ASSUME NEW y \in A0 PROVE Good(y.r) /\ (y.ok => P0(y))
  <2>1. /\ y.m = NothingMade /\ Good(y.r)
        /\ Same(y.r, s, Members \ {"device", "surface"})
        /\ y.ok => y.r.device = TRUE
    BY <1>1, <1>2, DeviceOutcomes
  <2>2. y.r.pool = s.pool
    BY <2>1 DEF Same, Members
  <2> QED BY <1>1, <2>1, <2>2
<1>3. ASSUME NEW y \in A0, y.ok, NEW z \in CreateSwapchain(y.r, y.m)
      PROVE  Good(z.r) /\ (z.ok => P1(z))
  <2>1. Good(y.r) /\ y.r.device = TRUE /\ y.r.pool = FALSE /\ y.m = NothingMade
    BY <1>2, <1>3
  <2> HIDE DEF A0
  <2>2. \/ ~ z.ok /\ z.r = y.r /\ z.m = y.m
        \/ /\ z.ok /\ Good(z.r)
           /\ Same(z.r, y.r, Members \ {"images", "views", "scMode"})
           /\ z.r.images \in ImageCounts /\ z.r.views = Own(z.r.images)
           /\ z.m = WithSwapchain(y.m, z.r.images)
    BY <1>3, <2>1, SwapchainOutcomes
  <2>3. CASE ~ z.ok /\ z.r = y.r
    BY <2>1, <2>3
  <2>4. CASE /\ z.ok /\ Good(z.r)
             /\ Same(z.r, y.r, Members \ {"images", "views", "scMode"})
             /\ z.r.images \in ImageCounts /\ z.r.views = Own(z.r.images)
             /\ z.m = WithSwapchain(y.m, z.r.images)
    <3>1. z.r.device = y.r.device /\ z.r.pool = y.r.pool
      BY <2>4 DEF Same, Members
    <3>2. z.m = MadeOf(1, n(z), 0, 0)
      BY <2>1, <2>4, HandlesOf, MadeBy
    <3> QED BY <2>1, <2>4, <3>1, <3>2
  <2> QED BY <2>2, <2>3, <2>4
<1>4. ASSUME NEW y \in A1 PROVE Good(y.r) /\ (y.ok => P1(y))
  <2>1. \/ y \in A0 /\ ~ y.ok
        \/ \E w \in A0 : w.ok /\ y \in CreateSwapchain(w.r, w.m)
    BY <1>4 DEF Then
  <2> HIDE DEF A0, A1, P0, P1
  <2> QED BY <1>2, <1>3, <2>1
<1>5. ASSUME NEW y \in A2 PROVE Good(y.r) /\ (y.ok => P2(y))
  <2>1. \/ y \in A1 /\ ~ y.ok
        \/ \E w \in A1 : w.ok /\ y \in CreateRenderPass(w.r, w.m)
    BY <1>5 DEF Then
  <2> HIDE DEF A0, A1, A2
  <2>2. ASSUME NEW w \in A1, w.ok, y \in CreateRenderPass(w.r, w.m)
        PROVE  Good(y.r) /\ (y.ok => P2(y))
    <3>1. Good(w.r) /\ P1(w)
      BY <1>4, <2>2
    <3>2. /\ y.m = w.m /\ Good(y.r) /\ Same(y.r, w.r, Members \ {"pass"})
          /\ y.ok => y.r.pass = TRUE
      BY <2>2, <3>1, PassOutcomes
    <3>3. /\ y.r.device = w.r.device /\ y.r.images = w.r.images
          /\ y.r.views = w.r.views /\ y.r.pool = w.r.pool
      BY <3>2 DEF Same, Members
    <3> QED BY <3>1, <3>2, <3>3
  <2>3. ASSUME y \in A1, ~ y.ok PROVE Good(y.r)
    BY <1>4, <2>3
  <2> HIDE DEF P2
  <2> QED BY <2>1, <2>2, <2>3
<1>6. ASSUME NEW y \in A3 PROVE Good(y.r) /\ (y.ok => P3(y))
  <2>1. \/ y \in A2 /\ ~ y.ok
        \/ \E w \in A2 : w.ok /\ y \in CreateFramebuffers(w.r, w.m)
    BY <1>6 DEF Then
  <2> HIDE DEF A0, A1, A2, A3
  <2>2. ASSUME NEW w \in A2, w.ok, y \in CreateFramebuffers(w.r, w.m)
        PROVE  Good(y.r) /\ (y.ok => P3(y))
    <3>1. Good(w.r) /\ P2(w)
      BY <1>5, <2>2
    <3>2. /\ Good(y.r) /\ Same(y.r, w.r, Members \ {"fbs"})
          /\ y.ok => y.r.fbs = Own(w.r.images) /\ y.m = WithFramebuffers(w.m, w.r.images)
      BY <2>2, <3>1, FramebufferOutcomes
    <3>3. /\ y.r.device = w.r.device /\ y.r.images = w.r.images
          /\ y.r.views = w.r.views /\ y.r.pool = w.r.pool /\ y.r.pass = w.r.pass
      BY <3>2 DEF Same, Members
    <3>4. w.r.images \in Nat
      BY <3>1, HandlesOf
    <3>5. WithFramebuffers(w.m, w.r.images) = MadeOf(1, w.r.images, w.r.images, 0)
      BY <3>1, <3>4, MadeBy
    <3> QED BY <3>1, <3>2, <3>3, <3>5
  <2>3. ASSUME y \in A2, ~ y.ok PROVE Good(y.r)
    BY <1>5, <2>3
  <2> HIDE DEF P3
  <2> QED BY <2>1, <2>2, <2>3
<1>7. ASSUME NEW y \in A4 PROVE Good(y.r) /\ (y.ok => P4(y))
  <2>1. \/ y \in A3 /\ ~ y.ok
        \/ \E w \in A3 : w.ok /\ y \in CreateCommandPoolAndBuffers(w.r, w.m)
    BY <1>7 DEF Then
  <2> HIDE DEF A0, A1, A2, A3, A4
  <2>2. ASSUME NEW w \in A3, w.ok, y \in CreateCommandPoolAndBuffers(w.r, w.m)
        PROVE  Good(y.r) /\ (y.ok => P4(y))
    <3>1. Good(w.r) /\ P3(w)
      BY <1>6, <2>2
    <3>2. \/ ~ y.ok /\ y.r = w.r /\ y.m = w.m
          \/ /\ Good(y.r) /\ Same(y.r, w.r, Members \ {"cbs", "pool"})
             /\ y.r.pool = TRUE
             /\ y.ok => y.r.cbs = Own(w.r.images)
             /\ y.m = WithPool(w.m)
      <4>1. Good(w.r) /\ w.r.images \in ImageCounts /\ w.r.fbs = Own(w.r.images)
        BY <3>1
      <4> HIDE DEF P3, P4
      <4> QED BY <2>2, <4>1, PoolOutcomes, Zenon
    <3>3. CASE ~ y.ok /\ y.r = w.r
      BY <3>1, <3>3
    <3>4. CASE /\ Good(y.r) /\ Same(y.r, w.r, Members \ {"cbs", "pool"})
               /\ y.r.pool = TRUE
               /\ y.ok => y.r.cbs = Own(w.r.images)
               /\ y.m = WithPool(w.m)
      <4>1. /\ y.r.device = w.r.device /\ y.r.images = w.r.images
            /\ y.r.views = w.r.views /\ y.r.fbs = w.r.fbs /\ y.r.pass = w.r.pass
        BY <3>4 DEF Same, Members
      <4>2. w.r.images \in Nat
        BY <3>1, HandlesOf
      <4>3. WithPool(w.m) = MadeOf(1, w.r.images, w.r.images, 1)
        BY <3>1, <4>2, MadeBy
      <4> QED BY <3>1, <3>4, <4>1, <4>3
    <3> QED BY <3>2, <3>3, <3>4
  <2>3. ASSUME y \in A3, ~ y.ok PROVE Good(y.r)
    BY <1>6, <2>3
  <2> HIDE DEF P4
  <2> QED BY <2>1, <2>2, <2>3
<1>8. \/ x \in A4 /\ ~ x.ok
      \/ \E w \in A4 : w.ok /\ x \in CreateSyncObjects(w.r, w.m)
  BY DEF Attach, Then, s
<1> HIDE DEF A0, A1, A2, A3, A4
<1>9. ASSUME x \in A4, ~ x.ok PROVE Good(x.r)
  BY <1>7, <1>9
<1>10. ASSUME NEW w \in A4, w.ok, x \in CreateSyncObjects(w.r, w.m)
       PROVE  /\ Good(x.r)
              /\ x.r.device = TRUE /\ x.r.pass = TRUE /\ x.r.sync = TRUE
              /\ Shape(x.r) /\ x.m = Counts(x.r)
  <2>1. Good(w.r) /\ P4(w)
    BY <1>7, <1>10
  <2>2. /\ x.m = w.m /\ Good(x.r) /\ Same(x.r, w.r, Members \ {"sync"})
        /\ x.r.sync = TRUE
    BY <1>10, <2>1, SyncOutcomes
  <2>3. /\ x.r.device = w.r.device /\ x.r.images = w.r.images
        /\ x.r.views = w.r.views /\ x.r.fbs = w.r.fbs /\ x.r.cbs = w.r.cbs
        /\ x.r.pass = w.r.pass /\ x.r.pool = w.r.pool
    BY <2>2 DEF Same, Members
  <2>4. /\ x.r.images \in ImageCounts /\ x.r.views = Own(x.r.images)
        /\ x.r.fbs = Own(x.r.images) /\ x.r.cbs = Own(x.r.images)
        /\ x.r.pool = TRUE /\ x.m = MadeOf(1, x.r.images, x.r.images, 1)
    BY <2>1, <2>2, <2>3
  <2>5. x.r.images > 0 /\ Count(Own(x.r.images)) = x.r.images
    BY <2>4, HandlesOf, OwnFacts
  <2>6. x.m = Counts(x.r)
    BY <2>4, <2>5 DEF Counts, MadeOf
  <2>7. Shape(x.r)
    BY <2>4 DEF Shape
  <2> QED BY <2>1, <2>2, <2>3, <2>6, <2>7
<1> QED BY <1>8, <1>9, <1>10
-----------------------------------------------------------------------------
(* Resizes and mode changes: what was made is destroyed, then made anew. *)

LEMMA ShapeCounts ==
  ASSUME NEW r, Shape(r)
  PROVE  Count(r.views) \in Nat /\ Count(r.fbs) \in Nat
<1>1. CASE Clean(r)
  BY <1>1, EmptyFacts DEF Clean
<1>2. CASE r.images \in ImageCounts /\ r.views = Own(r.images)
           /\ \/ r.fbs = Own(r.images)
              \/ \E k \in 0 .. (r.images - 1) : r.fbs = Partial(k, r.images)
  <2>1. r.images \in Nat /\ \A k \in 0 .. (r.images - 1) : k \in 0 .. r.images /\ k \in Nat
    BY <1>2, HandlesOf
  <2>2. Count(Own(r.images)) \in Nat
    BY <2>1, OwnFacts
  <2>3. \A k \in 0 .. (r.images - 1) : Count(Partial(k, r.images)) \in Nat
    BY <2>1, PartialFacts
  <2> QED BY <1>2, <2>2, <2>3
<1> QED BY <1>1, <1>2 DEF Shape

LEMMA CleanupOutcome ==
  ASSUME NEW r, r \in Renderers, r.device => r.surface, NEW m,
         NEW x, x = CleanupSwapchain(r, m)
  PROVE  /\ Good(x.r) /\ Clean(x.r)
         /\ Same(x.r, r, {"device", "surface", "pass", "sync", "mode"})
         /\ Shape(r) /\ m = Counts(r) => x.m = NothingMade
<1> DEFINE Kept == {"device", "surface", "pass", "sync", "mode"}
           s == [r EXCEPT !.images = 0, !.views = <<>>, !.fbs = <<>>,
                          !.cbs = <<>>, !.pool = FALSE]
<1>1. x.r = s /\ x.m = [swapchains |-> m.swapchains - (IF r.images > 0 THEN 1 ELSE 0),
                        views      |-> m.views - Count(r.views),
                        fbs        |-> m.fbs - Count(r.fbs),
                        pools      |-> m.pools - (IF r.pool THEN 1 ELSE 0)]
  BY DEF CleanupSwapchain, Done
<1>2. Clean(s) /\ Same(s, r, Kept)
  BY DEF Renderers, Clean, Same
<1>3. s \in Renderers
  <2>1. <<>> \in Handles /\ 0 \in ImageCounts \cup {0} /\ FALSE \in BOOLEAN
    BY DEF Handles
  <2> QED BY <2>1, Zenon DEF Renderers
<1>4. s.device = r.device /\ s.surface = r.surface /\ s.images = 0
  BY DEF Renderers
<1> HIDE DEF s
<1>5. Good(s)
  BY <1>3, <1>4 DEF Good
<1>6. ASSUME Shape(r), m = Counts(r) PROVE x.m = NothingMade
  <2>1. Count(r.views) \in Nat /\ Count(r.fbs) \in Nat
    BY <1>6, ShapeCounts
  <2>2. /\ m.swapchains = (IF r.images > 0 THEN 1 ELSE 0)
        /\ m.views = Count(r.views) /\ m.fbs = Count(r.fbs)
        /\ m.pools = (IF r.pool THEN 1 ELSE 0)
    BY <1>6 DEF Counts
  <2>3. /\ m.swapchains - (IF r.images > 0 THEN 1 ELSE 0) = 0
        /\ m.views - Count(r.views) = 0 /\ m.fbs - Count(r.fbs) = 0
        /\ m.pools - (IF r.pool THEN 1 ELSE 0) = 0
    BY <2>1, <2>2
  <2> QED BY <1>1, <2>3 DEF NothingMade
<1> QED BY <1>1, <1>2, <1>5, <1>6

-----------------------------------------------------------------------------
(***************************************************************************)
(* The inductive invariant.                                                *)
(***************************************************************************)
AttachedInv ==
    attached => /\ vk.device = TRUE /\ vk.pass = TRUE /\ vk.sync = TRUE
                /\ Shape(vk) /\ made = Counts(vk)

OthersInv ==
    /\ answer \in {"image", "suboptimal", "failure"}
    /\ attached \in BOOLEAN /\ fence \in BOOLEAN /\ parity \in BOOLEAN
    /\ held \in 0 .. vk.images

RendererInv == Good(vk) /\ AttachedInv /\ OthersInv

LEMMA GoodImages ==
  ASSUME NEW r, Good(r)
  PROVE  r.images \in Nat /\ 0 \in 0 .. r.images
<1>1. r.images \in ImageCounts \cup {0}
  BY DEF Good, Renderers
<1>2. r.images \in Nat
  <2>1. ImageCounts \subseteq Nat
    BY RendererAssumption
  <2>2. \A n \in ImageCounts \cup {0} : n \in Nat
    BY <2>1
  <2> QED BY <1>1, <2>2, Zenon
<1> QED BY <1>2

LEMMA NewRendererGood ==
  /\ Good(NewRenderer) /\ NewRenderer.images = 0
<1>1. NewRenderer \in Renderers
  <2>1. 0 \in Supported /\ 0 \in Modes /\ <<>> \in Handles
    BY RendererAssumption DEF Handles
  <2>2. 0 \in ImageCounts \cup {0} /\ FALSE \in BOOLEAN
    OBVIOUS
  <2> QED BY <2>1, <2>2, Zenon DEF NewRenderer, Renderers
<1>2. NewRenderer.device = FALSE /\ NewRenderer.images = 0
  BY DEF NewRenderer
<1> QED BY <1>1, <1>2 DEF Good

LEMMA RendererInitially == Init => RendererInv
<1> SUFFICES ASSUME Init PROVE RendererInv
  OBVIOUS
<1>1. /\ vk = NewRenderer /\ attached = FALSE /\ held = 0 /\ fence = FALSE
      /\ answer = "image" /\ parity = FALSE
  BY DEF Init
<1>2. Good(vk) /\ held \in 0 .. vk.images
  BY <1>1, NewRendererGood, GoodImages
<1> QED BY <1>1, <1>2 DEF RendererInv, AttachedInv, OthersInv

LEMMA DeathKeepsInv ==
  ASSUME RendererInv, ProcessDies
  PROVE  RendererInv'
<1>1. /\ vk' = NewRenderer /\ attached' = FALSE /\ held' = 0 /\ fence' = FALSE
      /\ parity' = FALSE /\ answer' = answer
  BY DEF ProcessDies
<1>2. Good(vk') /\ held' \in 0 .. vk'.images
  BY <1>1, NewRendererGood, GoodImages
<1> QED BY <1>1, <1>2 DEF RendererInv, AttachedInv, OthersInv

LEMMA RecreateKeepsInv ==
  ASSUME RendererInv, NEW r, r \in Renderers, r.device = TRUE, r.surface = TRUE,
         attached => /\ r.pass = TRUE /\ r.sync = TRUE
                     /\ Shape(r) /\ made = Counts(r),
         Recreate(r)
  PROVE  RendererInv'
<1>1. CASE Foreign(r) /\ ProcessDies
  BY <1>1, DeathKeepsInv
<1>2. CASE /\ LET clean == CleanupSwapchain(r, made)
              IN  \E x \in Rebuild(clean.r, clean.m) : vk' = x.r /\ made' = x.m
           /\ held' = 0 /\ UNCHANGED <<attached, answer, fence, parity>>
  <2> DEFINE clean == CleanupSwapchain(r, made)
             Kept == {"device", "surface", "pass", "sync", "mode"}
  <2>1. /\ Good(clean.r) /\ Clean(clean.r) /\ Same(clean.r, r, Kept)
        /\ Shape(r) /\ made = Counts(r) => clean.m = NothingMade
    BY CleanupOutcome
  <2>2. PICK x \in Rebuild(clean.r, clean.m) : vk' = x.r /\ made' = x.m
    BY <1>2
  <2> HIDE DEF clean
  <2>3. clean.r.device = TRUE /\ (r.pass = clean.r.pass) /\ (r.sync = clean.r.sync)
    BY <2>1 DEF Same
  <2>4. /\ Good(x.r) /\ Shape(x.r) /\ Same(x.r, clean.r, Kept)
        /\ clean.m = NothingMade => x.m = Counts(x.r)
    BY <2>1, <2>3, RebuildOutcomes
  <2>5. /\ x.r.device = clean.r.device /\ x.r.pass = clean.r.pass
        /\ x.r.sync = clean.r.sync
    BY <2>4 DEF Same
  <2>6. AttachedInv'
    BY <1>2, <2>1, <2>2, <2>3, <2>4, <2>5 DEF AttachedInv
  <2>7. held' \in 0 .. vk'.images
    BY <1>2, <2>2, <2>4, GoodImages
  <2> QED BY <1>2, <2>2, <2>4, <2>6, <2>7 DEF RendererInv, OthersInv
<1> QED BY <1>1, <1>2 DEF Recreate

LEMMA RendererNext == RendererInv /\ [Next]_vars => RendererInv'
<1> SUFFICES ASSUME RendererInv, [Next]_vars PROVE RendererInv'
  OBVIOUS
<1>1. /\ Good(vk) /\ vk \in Renderers /\ vk.images \in Nat
      /\ attached => /\ vk.device = TRUE /\ vk.pass = TRUE /\ vk.sync = TRUE
                     /\ Shape(vk) /\ made = Counts(vk)
      /\ answer \in {"image", "suboptimal", "failure"}
      /\ attached \in BOOLEAN /\ fence \in BOOLEAN /\ parity \in BOOLEAN
      /\ held \in 0 .. vk.images
  BY GoodImages DEF RendererInv, AttachedInv, OthersInv, Good
<1>2. CASE AttachAndroidWindow
  <2>1. PICK x \in Attach(vk) :
           /\ vk' = x.r /\ made' = x.m /\ attached' = x.ok
           /\ held' = 0 /\ fence' = x.ok
           /\ answer' = answer /\ parity' = parity
    BY <1>2 DEF AttachAndroidWindow
  <2>2. /\ Good(x.r)
        /\ x.ok => /\ x.r.device = TRUE /\ x.r.pass = TRUE /\ x.r.sync = TRUE
                   /\ Shape(x.r) /\ x.m = Counts(x.r)
    BY <1>1, AttachOutcomes
  <2>3. held' \in 0 .. vk'.images
    BY <2>1, <2>2, GoodImages
  <2>4. x.ok \in BOOLEAN
    BY AttachAnswers
  <2>5. AttachedInv'
    BY <2>1, <2>2 DEF AttachedInv
  <2> QED BY <1>1, <2>1, <2>2, <2>3, <2>4, <2>5 DEF RendererInv, OthersInv
<1>3. CASE Resize
  <2>1. vk.device = TRUE /\ vk.surface = TRUE /\ Recreate(vk)
    BY <1>1, <1>3, Zenon DEF Resize, Renderers
  <2> QED BY <1>1, <2>1, RecreateKeepsInv
<1>4. ASSUME NEW mode \in Modes, SetPresentMode(mode) PROVE RendererInv'
  <2> DEFINE asked == [vk EXCEPT !.mode = mode]
  <2>1. /\ asked.device = vk.device /\ asked.surface = vk.surface
        /\ asked.pass = vk.pass /\ asked.sync = vk.sync /\ asked.pool = vk.pool
        /\ asked.images = vk.images /\ asked.scMode = vk.scMode
        /\ asked.views = vk.views /\ asked.fbs = vk.fbs /\ asked.cbs = vk.cbs
    BY <1>1 DEF Renderers
  <2>2. asked \in Renderers
    BY <1>1, Zenon DEF Renderers
  <2>3. IF vk.device /\ vk.surface /\ vk.images > 0
        THEN Recreate(asked)
        ELSE vk' = asked /\ UNCHANGED <<attached, held, answer, fence, made, parity>>
    BY <1>4 DEF SetPresentMode
  <2> HIDE DEF asked
  <2>4. /\ Shape(vk) => Shape(asked)
        /\ Counts(asked) = Counts(vk)
    BY <2>1 DEF Shape, Clean, Counts
  <2>5. CASE vk.device /\ vk.surface /\ vk.images > 0
    <3>1. vk.device = TRUE /\ vk.surface = TRUE
      BY <1>1, <2>5, Zenon DEF Renderers
    <3>2. Recreate(asked)
      BY <2>3, <2>5
    <3> QED BY <1>1, <2>1, <2>2, <2>4, <3>1, <3>2, RecreateKeepsInv
  <2>6. CASE ~ (vk.device /\ vk.surface /\ vk.images > 0)
    <3>1. vk' = asked /\ UNCHANGED <<attached, held, answer, fence, made, parity>>
      BY <2>3, <2>6
    <3>2. vk.images = 0
      BY <1>1, <2>6 DEF Good
    <3>3. Good(asked)
      BY <1>1, <2>1, <2>2, <3>2 DEF Good
    <3>4. AttachedInv'
      BY <1>1, <2>1, <2>4, <3>1 DEF AttachedInv
    <3> QED BY <1>1, <2>1, <3>1, <3>3, <3>4 DEF RendererInv, OthersInv
  <2> QED BY <2>5, <2>6
<1>5. CASE DrawPresents
  BY <1>1, <1>5 DEF DrawPresents, RendererInv, AttachedInv, OthersInv
<1>6. CASE DrawKeepsImage
  <2>1. held' \in 0 .. vk'.images
    BY <1>1, <1>6 DEF DrawKeepsImage, ImageFree
  <2> QED BY <1>1, <1>6, <2>1
          DEF DrawKeepsImage, RendererInv, AttachedInv, OthersInv
<1>7. CASE DrawSkips
  BY <1>1, <1>7 DEF DrawSkips, RendererInv, AttachedInv, OthersInv
<1>8. CASE DrawUndefined
  BY <1>8, DeathKeepsInv DEF DrawUndefined
<1>9. CASE SurfaceChanges
  BY <1>1, <1>9 DEF SurfaceChanges, RendererInv, AttachedInv, OthersInv
<1>10. CASE UNCHANGED vars
  BY <1>1, <1>10 DEF vars, RendererInv, AttachedInv, OthersInv
<1> QED BY <1>2, <1>3, <1>4, <1>5, <1>6, <1>7, <1>8, <1>9, <1>10
        DEF Next, DrawFrame

LEMMA RendererAlways == Spec => []RendererInv
BY RendererInitially, RendererNext, PTL DEF Spec

\* Every member of the renderer has its type, and no more images are held than
\* the swapchain has.
THEOREM RendererTyped == Spec => []RendererTypeOK
<1>1. RendererInv => RendererTypeOK
  BY Zenon DEF RendererInv, Good, OthersInv, RendererTypeOK, Renderers
<1> QED BY <1>1, RendererAlways, PTL

\* A drawFrame that passes its guard on an attached renderer has what it uses.
THEOREM GuardAlwaysSuffices == Spec => []GuardSuffices
<1>1. RendererInv => GuardSuffices
  <2> SUFFICES ASSUME RendererInv, attached, Drawable
               PROVE  /\ vk.pass /\ vk.pool /\ vk.sync
                      /\ vk.fbs = Own(vk.images)
                      /\ vk.cbs \in {Own(vk.images), Null(vk.images)}
    BY DEF GuardSuffices
  <2>1. vk.pass = TRUE /\ vk.sync = TRUE /\ Shape(vk)
    BY DEF RendererInv, AttachedInv
  <2>2. vk.images > 0 /\ vk.cbs # <<>>
    BY DEF Drawable
  <2>3. vk.images # 0
    BY <2>2
  <2> QED BY <2>1, <2>2, <2>3 DEF Shape, Clean
<1> QED BY <1>1, RendererAlways, PTL

\* Whatever fails, no object of the device is lost.
THEOREM NothingEverLost == Spec => []NothingLost
<1>1. RendererInv => NothingLost
  BY DEF RendererInv, AttachedInv, NothingLost, Counts
<1> QED BY <1>1, RendererAlways, PTL

\* The swapchain has the mode that was asked for last, or FIFO.
THEOREM SwapchainAlwaysHasMode == Spec => []SwapchainHasMode
<1>1. RendererInv => SwapchainHasMode
  BY DEF RendererInv, Good, SwapchainHasMode
<1> QED BY <1>1, RendererAlways, PTL
=============================================================================
