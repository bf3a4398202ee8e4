# PXS3C in TLA+

PXS3C is a PS3 emulator core in C++ with an Android front end in Kotlin.  This
directory holds TLA+ models of its core logic, the TLC runs that check them on
small instances, and proofs, checked by TLAPS, of what holds for every instance.
Paths below are relative to the repository.

To check a module, `tlc -config MCMemoryManager.cfg MCMemoryManager`; to check the
proofs, `tlapm MemoryManager_proofs.tla`.  `MemoryReadBack`, `RSXProcessor`
(as `MCRSXProcessor`), `VulkanRenderer` and `FramePacer` have their own `.cfg`, and
the configurations of violations name another module: `MCMemoryBacking` is for
`MCMemoryManager`, `MCAppGame` and `MCAppLoad` for `MCAppLifecycle`, `MCPPUCarry` for
`MCPPUInterpreter`, `MCSPUStore` for `MCSPUManager`, `MCPacerSettles` for `FramePacer`.

## 1. The system

### Components, their state and their operations

| Component | State | Operations |
|---|---|---|
| Memory manager (`src/memory/MemoryManager.*`) | `regions_`, a map from base address to a region with size, flags and a vector that may be absent or shorter than the region | `init`, `shutdown`, `mapRegion`, `unmapRegion`, `read`/`write` and the typed accessors, `allocateOnDemand` |
| ELF loader (`src/loader/ElfLoader.*`) | `entryPoint_`, `segments_` | `load`, `loadSelf`, `validateHeader` |
| SELF loader (`src/loader/SELFLoader.*`) | the parsed container | `loadSelf`, `parseSelf*`, `extractELF` |
| Emulator (`src/core/Emulator.*`) | the other parts, `engine_`, `statusText_` | `init`, `loadGame`, `runFrame`, `attachAndroidWindow`, `tickFrameAndGetDelayMs`, setters |
| Frame pacer (`src/core/FramePacer.*`) | target rate, running mean of the frame time | `setTargetFps`, `beginFrame`, `endFrameAndSuggestDelayMs` |
| System calls (`src/core/SyscallHandler.*`) | `nextMemoryHandle_` | `handleSyscall` and a handler for each call |
| PPU interpreter (`src/cpu/PPUInterpreter.*`) | registers, `halted_` | `executeInstruction`, `executeBlock` |
| PPU JIT (`src/cpu/PPUJIT.*`, `LLVMJITCompiler.*`) | block cache, counters | `compileBlock`, `executeBlock`, `clearCache` |
| SPUs (`src/cpu/SPUInterpreter.*`, `SPUManager.*`) | registers and local store of six cores | `executeAllSPUs`, `executeAllSPUsParallel`, `reset` |
| RPCS3 bridge (`src/cpu/engines/Rpcs3Bridge.*`) | a `dlopen` handle and its symbols | `init`, `loadElf`, `runFrame`, `shutdown` |
| RSX command buffer (`src/rsx/RSXCommands.*`) | an array of words, a write and a read position | `writeCommand`, `readCommand`, `peekCommand`, `clear` |
| RSX processor (`src/rsx/RSXProcessor.*`) | `state_` (the draw state), a buffer of its own | `processCommands`, `submitCommand`, `drawClearScreen` |
| Vulkan renderer (`src/rsx/VulkanRenderer.*`) | the Vulkan handles, the present mode | `attachAndroidWindow`, `resize`, `setPresentModeAndroid`, `drawFrame` |
| JNI layer (`src/android/jni/pxs3c_jni.cpp`) | `g_emu` | one function for each `native...` method |
| Activity (`MainActivity.kt`) | `isRunning`, `gameLoaded`, the frame runnable, the surface | life-cycle callbacks, clicks, the frame loop, `loadGameFromUri` |
| Settings, library and file picker screens | stored preferences | screens |

### How they interact

`MainActivity` owns the frame loop: a runnable that calls `nativeTickFrame` and
posts itself again.  Loading a game starts a thread that copies the file, calls
`nativeLoadGame` and posts the result to the UI thread.  Both go through one
static pointer, `g_emu`, that every instance of the activity shares, and that
`surfaceDestroyed` and `onDestroy` delete.  The emulator calls its parts directly:
the loader writes guest memory through the memory manager and gives the PPU its
entry point; the interpreters read and write the same memory; a frame tick
draws through the renderer and asks the pacer for a delay.

### What is hard

* **Interleaving.**  UI callbacks of several activity instances, loader threads
  and queued messages meet in `g_emu` with no lock.
* **Stale state.**  A test made at a click is used when the copy has ended; the
  vectors of an earlier Vulkan device survive a re-attach; on-demand chunks stay
  in the region map and hide later or earlier regions.
* **Partial failure.**  A load fails at its third segment; a swapchain is
  destroyed and its successor cannot be made; `resize()` of a backing vector
  throws after its pointer was set; a fence is reset and nothing submitted.
* **Boundaries.**  Address sums wrap at 2^64; the region end and the vector end
  differ; a command that just fits the buffer; a method wider than 16 bits; 32-bit
  sums of offsets in a container; two limits of the pacer that overlap.
* **Threads.**  Six SPU threads run while their caller creates and joins them, and
  creating one may fail when others already run.
* **Liveness.**  The frame loop lives only because each run posts the next, and
  a boot is answered only by the message its thread posts.

### What makes each component correct

* Memory: an access takes its bytes from one region; an operation changes only
  what it is asked to; accepted accesses stay inside their vector; main RAM reads
  back as written.
* Loader: success means the image is visible in guest memory; failure does not
  move the PPU; nothing is loaded over an earlier segment.
* Front end: one chain of frame messages per running activity, none otherwise;
  a running loop has a game; the renderer holds no destroyed surface; the loop
  keeps ticking; every boot is answered.
* RSX: the buffer is a queue; the draw state is what the last commands say;
  submitted commands do not linger.
* Renderer: frames use objects of the current device, one per image; rebuilds
  lose nothing; the swapchain has the mode asked for; lost acquires do not stop it.
* PPU: a program computes what its instructions say, whatever regions its accesses
  create on the way, and whichever of its operands an instruction overwrites.
* System calls: allocated blocks share no address with each other or with RAM.
* SPUs: threads leave every core as one after the other would; a call returns; a
  core fetches inside its local store.
* SELF container: it is read inside its file and reported as loaded exactly if its
  table is whole.
* Pacer: a rate is given up for a reason and comes back in time; a frame and its wait
  last what the target says; steady loads settle.

## 2. Modules

| Module | Models | State and actions |
|---|---|---|
| `MemoryRegions` | the region map as a value: one operator for each member function | no state; shared by the two modules below |
| `FlatMemory` | the abstract specification of memory: an array of cells, and what each operation may do to them | `cell`, `wild` |
| `MemoryManager` | the class as a state machine | `regions` = `regions_`; one action per member function; `AllocationFails` is a throwing `resize()` |
| `MemoryReadBack` | the memory test of `tests/smoke.cpp`, with other reads in between | adds the history `written` |
| `ElfLoader` | `Emulator::loadGame`, `ElfLoader::load` header by header, the engine fallback; extends `MemoryManager` | `loading`/`header` are the local position in `load`, `segments`, `entryPoint`, `pc` as in the code |
| `AppLifecycle` | `MainActivity` and the JNI layer | `ui[a]`: fields, surface and queued messages of instance `a`; `loads[t]`: what loader thread `t` does; `g_emu` |
| `RSXQueue` | the abstract specification of the command buffer: a queue that is filled once | `queue`, `used`, `cmd` |
| `RSXCommandBuffer` | the word array and its positions | `buffer`, `cmd` (the caller's `RSXCommand`) |
| `RSXProcessor` | the processor over a caller's buffer and its own; extends `RSXCommandBuffer` | `draw` = the fields of `state_` that commands set; `processing`: inside `processCommands` |
| `VulkanRenderer` | the renderer on Android | `vk`: the members; `held`, `fence`, `answer`: swapchain, fence and surface; `made`, `parity`: histories |
| `SyscallHandler` | every call's answer, and the allocation call; extends `MemoryManager` | `nextMemoryHandle`; the history `blocks` |
| `PowerPC` | the abstract specification of the interpreter: instructions as an assembler names them, on a flat memory | registers, `mem`, `open` (addresses that take stores) |
| `PPUInterpreter` | one `executeInstruction` per step inside `executeBlock`: bit fields, handlers, memory accesses; extends `SyscallHandler` | `ppu` = the members of `regs_` in use, `halted`; `left`: the loop counter of `executeBlock` |
| `SELFLoader` | the container as a value: the parts that are read, and the answer | no state; `ElfLoader` extends it |
| `SPUInterpreter` | one core as a value: fetch, handlers, `executeBlock` as the set of what it can make of a core | no state; shared by the next two |
| `SPUCores` | the abstract specification of the manager: a call takes every core through its own instructions | `spus`, `fate` |
| `SPUManager` | `executeAllSPUs`, and `executeAllSPUsParallel` with one step per thread creation, instruction and join | `spus` = `spus_`; `main`: the caller inside the call; `threads` |
| `FramePacer` | the pacer between `nativeTickFrame`, `nativeSetTargetFps` and a new emulator | `targetFps`, `avg` as in the code; `elapsed`, `delay`: the last frame; `slow`, `calm`, `odd`: histories |
| `MC...` | instances for TLC: segments, files, commands, symmetry | none |
| `MemoryManager_proofs`, `ElfLoader_proofs`, `AppLifecycle_proofs`, `RSXProcessor_proofs`, `VulkanRenderer_proofs`, `PPUInterpreter_proofs`, `SPUManager_proofs`, `FramePacer_proofs` | theorems and proofs about the module each is named after | none |

Composition: `MemoryRegions` < `MemoryManager` < `ElfLoader` (loads and guest
accesses on one memory), `RSXCommandBuffer` < `RSXProcessor` (two buffers and
the draw state), `MemoryManager` implements `FlatMemory`, the buffer inside the
processor implements `RSXQueue`.  `MemoryManager` < `SyscallHandler` <
`PPUInterpreter` (a program, its calls and its memory), which implements
`PowerPC`.  `SELFLoader` < `ElfLoader`.  `SPUInterpreter` < `SPUManager`, which
implements `SPUCores`.  The fairness of `VulkanRenderer` and `FramePacer` rests on a
property of `AppLifecycle`.

### Abstractions

* Memory addresses are `0 .. AddrLimit - 1` for any `AddrLimit` in which 1 MB
  chunks do not straddle the end; sums wrap.  The constants of
  `MemoryManager.h` are parameters.  Endian conversion permutes the bytes of an
  access and is left out.  An access that the checks accept and that leaves the
  backing vector is undefined behaviour: `wild` is set and such a write may change
  one byte of any other vector (`Corrupted`).
* Files are records: suffix, whether the header is accepted, entry point, program
  headers.  `HeaderType` assumes `p_filesz <= p_memsz`, which `load` does not
  test.  `load` is one step per header, because each can fail; a guest access
  never falls between two, since one thread does both.
* One action of `AppLifecycle` is one callback, click or queued message, run to its
  end by the UI thread, or one step of a loader thread (copying; inside
  `nativeLoadGame`; posting).  The order of callbacks is Android's: an old
  instance may lose its surface and be destroyed after a new one has resumed.
  The emulator is abstracted to what these callers see of it: alive or not,
  with a renderer or not, whose surface it has, whether a load succeeded.
  `SurfaceCreated` runs `nativeAttachSurface` as one step; the code publishes `g_emu` before
  `init()` (pxs3c_jni.cpp:102-103), so a loader thread can also meet an emulator
  that is half made.
* RSX words are small numbers; `MethodBase` and `CountBase` stand for the two
  halves of a header.  Of `state_` the model keeps the registers that commands set;
  handlers that only log are the `OTHER` case.
* A Vulkan object is a handle in a vector: null, made on the device held now, or
  on an earlier one.  Assumed: calls whose result the code ignores succeed, a
  submitted frame is done within the second `drawFrame` waits for it, and an
  acquire works with the semaphore an abandoned acquire left signalled.

* A cell of the PPU's memory is a 32-bit word, so addresses count words: `lwz` and `stw`
  move one cell, `ld` and `std` two.  The byte and half-word forms are the same
  handlers with a smaller size.  A word is an index into a listing, `Fields` gives
  the bit fields the handlers cut out of it and `Asm` what an assembler would
  call it; the number of an extended opcode is taken from the code's comments
  (`mtspr` is 371 in `executeArithmetic`, and 467 is one of its stubs).  The mask
  `0x1F` of a shift amount is a remainder by the number of bits in a word.  A rotate
  whose mask end is past the word shifts by a negative count: any mask (`Masks`).
  Left out: the values of the floating-point and vector registers
  (nothing else reads them, so those instructions are `quiet`), `bcl` and its kin
  with a condition, and an on-demand allocation that fails.  The displacement of `ld` and `std`
  is unsigned in the code (PPUInterpreter.cpp:471); the programs use none that
  is negative.
* A container is the size of the file and the three header fields that are used;
  sizes count units of eight bytes, so the header is 5, an entry 3 and the metadata
  4, as in the structures of `SELFLoader.h`.  Entries have no contents: nobody reads them.
* The RPCS3 library is absent, unusable or usable.  When it is absent the process
  ends (`EngineMissing`), which in `AppLifecycle` is one of the causes of `ProcessDies`.
* An SPU word is decoded by a table into the handler it reaches and its branch field.
  Registers have no values: `init` allocates them and then calls `reset`, which
  assigns a new `SPURegisters` and drops them (SPUInterpreter.cpp:41, 53), so an
  instruction that names one dereferences null (`Crash`).  Beyond a fallback store
  the fetch is undefined: any word, or a crash.  A failed `init` is left out: the
  emulator that has it is not used.
* Time in the pacer is counted in parts of a millisecond (`Ms` of them), the mean is
  rounded to one part.  `FrameTimes` are the lengths a frame can have.

## 3. Runs

| Run | Question | Result |
|---|---|---|
| `memory` | Does the region map implement a flat memory, are accesses whole, and how can regions overlap? | holds |
| `memory_backing` | Do accepted accesses stay inside the bytes allocated? | violated |
| `memory_readback` | Does main RAM read back as written? | violated |
| `elf` | What do a successful, a failed and a repeated load leave behind, and where is a container read? | holds |
| `app` | Loops, games and surfaces over every order of callbacks, clicks and results; do frames keep coming and are boots answered? | holds |
| `app_game` | Does the loop on the screen drive an emulator with its game? | violated |
| `app_load` | Is no game loaded under a running loop? | violated |
| `rsx` | Is the buffer a queue and the draw state what the commands say? | holds |
| `renderer` | Failing attaches, resizes and mode changes with frames between them | holds |
| `ppu` | Do programs run as their instructions say, and are allocated blocks apart? | holds |
| `spu` | Do threads leave the cores as a sequential run would, and does the call return? | holds |
| `pacer` | When is the rate given up, when does it come back, do loads clear of both limits settle? | holds |

Three configurations beside these ask one question each, and TLC answers each with a
counterexample:

| Configuration | Question | Result |
|---|---|---|
| `MCPPUCarry.cfg` | Is the carry that of the operands, whichever register takes the result? | violated |
| `MCSPUStore.cfg` | Does a core fetch inside its local store? | violated |
| `MCPacerSettles.cfg` | Does every steady load settle? | violated |

### Bounds

* **Memory** (`AddrLimit = 10`, `Chunk = 2`, main RAM `1 .. 4`).  The smallest
  geometry with the real one's shapes: main RAM begins inside a chunk, ends inside
  another, is longer than one chunk (so its tail is never backed), there is a free
  chunk above it and a last chunk whose end wraps to 0.  Three segments: one in the
  free chunk, one against main RAM, one strictly around it.  Accesses of two bytes
  are enough to cross any boundary; one-byte accesses are their parts.  The state
  constraint `StillDefined` stops at the first undefined access: `FlatMemory`
  promises nothing after it, and `memory_backing` is about reaching it.
* **ELF**.  Files that overlap each other, main RAM and themselves, are truncated in a
  header or in data, have an unwritable segment or bss only, and files of the
  other formats.  Ten containers end before, at and after the end of their header,
  an entry and the metadata, have too small a header, no entry, or a header size
  near the limit, so that the 32-bit sum wraps.  Deadlock is not checked: the process
  ends when the engine is missing.  `MaxSegments = 3` recorded segments allow one image to be
  loaded and another to fail or succeed on top of it; the guest accesses one
  address below RAM, one in it and one in the chunk above, before, between and
  after loads.
* **App**.  Two instances, because what goes wrong goes wrong between the old and the
  new one.  `app` has one loader thread and no symmetry, because it checks liveness,
  and the proofs (section 5) cover its invariants for any number of both; the two
  findings have two threads, because two loads can run at once and a third is
  in the place of one that ended.  `app_game` leaves loads into a deleted emulator
  out (`NoDanglingLoad`): the violation does not need what such an emulator may answer.
* **RSX**.  A buffer of four words of which the code uses three: a command with two data
  words fills it, shorter ones leave room for one more or not.  The commands
  carry all, too few and no data; one method is wider than a header holds.  Two
  processed commands (`MaxProcessed`) let a later one override, or fail to
  override, an earlier one.
* **Renderer**.  Swapchains of two and three images (a rebuild may change the number),
  three modes of which one is not supported.  The state is finite without a bound.
* **PPU**.  Words of 6 bits (`WordBits`, with `Power` the table of the powers of two),
  registers of 12, half-word fields of 3: the widths keep the
  relations of the real ones (a register is two words, a field is narrower than
  a word).  Every pair of the 60 instructions runs from three register states, so
  that each instruction's effects are read by each other one; seven programs
  shift and rotate, call, recurse with the stack, loop on the count register, and allocate until the handle's
  address wraps past 2^32.  `max` is `executeBlock`'s argument: six steps
  for a pair, 40 for a program.  `Observed` are the addresses whose contents
  `PowerPC` follows: the program, the stack and the data.  A program fills its
  chunk (see section 4).  Deadlock is not checked: a program that
  meets an unknown opcode halts, and a block ends.  `StillDefined` as for memory.
  `MCPPUCarry` runs single instructions: each addition and subtraction with carry,
  into a register that is not, is the first, or is the second of its operands.
* **SPU**.  Three cores, so that a thread can be new, running and joined while the others
  are elsewhere; stores of four words, two in the fallback; a budget of two
  instructions, so that a block ends by its budget, by a halt and by a crash; three
  programs that skip, loop, leave the store and crash, and two host calls between the
  runs.  Deadlock is not checked: the process may end.  `MCSPUStore` has one program, which
  leaves the store, and a budget of three, so that the third fetch is beyond the
  fallback.
* **Pacer**.  `Ms = 6`; frames of 16.7, 19, 25 and 1000 ms: fit for 60 fps, between the two
  limits, above both, and as long as the wait for a fence.  Frame classes lie six units
  from the limits because the rounded mean may settle five away from its load.
  `UserFps` is a rate below 1, the pacer's own 30, and one above 60; one change or
  new emulator.  The longest recovery, from a mean of 1000 ms
  (`LongestFrame`), takes 64 frames (`RecoveryFrames`, computed by `Decay`); the history
  `calm` stops there.  `MCPacerSettles` has the same instance.

### Fairness

* `AppLifecycle!FairSpec`: the UI thread's looper runs the messages it holds when
  they are due (`MessageQueue` is ordered by time), and started threads make
  progress.  Clicks, callbacks and process deaths are not fair.
* `VulkanRenderer!FairSpec`: `drawFrame` keeps being called, which is
  `AppLifecycle!FramesKeepComing`.  The surface's answer to an acquire is not fair:
  `FramesRecover` assumes in its premise that it becomes and stays good.
* `SPUManager!ManagerFairSpec`: threads are scheduled, the caller's too; the host need not
  call again.
* `FramePacer!PacerFairSpec`: the frame loop goes on (`FramesKeepComing` again); the length
  of its frames is not fair and appears in the premises.  The history `odd` makes every frame
  a step, so a steady load whose mean has settled is still frame after frame.

## 4. What the runs show

**Memory.**  `mapRegion`'s comment says "Check for overlaps"; it looks for an end of the
new range inside an old one and so accepts a range strictly around an old one.
`OverlapsNest` says that this is all it lets through.  `NoTornAccess` says that
overlaps never tear an access: the lowest base wins for every byte of it.
`ImplementsFlatMemory` bounds what each operation changes.

**Loader.**  `LoadedImageVisible` holds for images whose segments are disjoint:
whatever chunks and failed loads are in the way, a load that reports success
is visible.  A segment without write permission cannot be loaded when it has
file data, because `load` copies with `write`, which checks permissions; the region
stays mapped, and the image cannot be loaded again.  `NoSegmentReloaded` says why a
reload fails: no operation of the loader unmaps.

A container is accepted only if its magic number is `SELF` as the host reads it: on the
little-endian machines the app runs on, the bytes are reversed.  An accepted one is
reported as "Loaded SELF. Ready to boot." although nothing was loaded and the PC is
where it was (Emulator.cpp:112).  `SelfReadsInside` needs its premises.  When the file
is within 32 bytes of 4 GB the sum of the metadata's test wraps.  And a table without
entries compares nothing with the file, so a header size within 32 bytes of 4 GB wraps
it, too (SELFLoader.cpp:103, 135): that case was found by the proof, which needed what
the property did not say, and two of the containers of the `elf` run now are of that kind.

On a device without an RPCS3 library an ELF load that fails never comes back as "Load
failed: no engine" (Emulator.cpp:137): `Rpcs3Bridge::init` calls `dlerror()` twice
(Rpcs3Bridge.cpp:21), the second call gives null, and assigning that to a
`std::string` ends the process.  A failed load of a container or a package is
reported as it should be, since it does not try the engine.

**Front end.**  `OneFrameChain` is the property `startFrameLoop`'s early return and
`stopFrameLoop`'s `removeCallbacks` exist for; three callers start the loop and four
stop it.  `DrawsOnLiveSurface` needs that `surfaceDestroyed` of any instance deletes
the emulator; the price is `RunningGameIsLoaded`, which fails for the same reason.  The loop
that a load's result starts leaves the Stop button disabled, as the layout
has it; the model's `StopButton` needs `stopEnabled`.

**RSX.**  The buffer implements `RSXQueue` with old words left behind by `clear`, with
overflow, truncated methods and peeks.  The refinement also shows that reading
frees no room.  `submitCommand`'s comment says "Process immediately"
(RSXProcessor.cpp:110): the command is read back and dropped, so nothing lingers unread
(`OwnBufferDrained`) and the draw state does not change.  Since reading frees no
room and nothing clears that buffer, it fills up in the end, and commands
submitted after that are not even written.

**Renderer.**  `GuardSuffices` is about the one line that guards `drawFrame`
(VulkanRenderer.cpp:45): after a successful attach it is enough, except when the
command buffers could not be allocated and the vector has its length and no
buffers.  After a failed re-attach it is not enough: the vectors of the old device are
still there (`DrawUndefined` with stale handles).  `NothingLost` says that
`cleanupSwapchain` and the rebuilds balance, whatever failed in between.  `FramesRecover` says
that a fence reset for an acquire that failed costs a second and no more.

**PPU.**  `ImplementsPowerPC` compares two descriptions written apart: the code's BO
bits, wrapping sums, CR nibbles and region map, against the condition, target and set
of bits an instruction names.  It covers what a test of single instructions does not:
a branch that reads its target from the register it links, a count register that is
decremented by a branch that is not taken, CR fields that survive a
compare of another field, a register saved to memory that did not exist before.
The carry is a part of it except where a subtraction overwrites one of its operands:
`subfc` and `subfic` store the difference before they compare
(PPUInterpreter.cpp:259-260, 103-104), so they compare the difference.  The model does
what the code does (`CarriedAfter`), `PowerPC` leaves that carry open
(`CarryPromised`), and `CarryOfOperands` asks for it: violated.  Where the repository
does not say what an instruction does, `PowerPC` follows the code: `cmp` clears the
summary-overflow bit of its field.
A program must fill its chunk: an access to the unmapped rest of a chunk creates a
region at the chunk's base (MemoryManager.cpp:253), which replaces a segment
with that base and hides one that starts later in the chunk.
`BlocksApart` has two premises which the code does not enforce: each allocation moves on by a
megabyte whatever its size, so larger blocks overlap; and the 32-bit
sum wraps, so that later blocks start at address 0 and go on into main RAM.
Of shifts `PowerPC` promises those by less than the width, of rotates only that
they write one register: `rlwinm` and its kin read the end of the mask with the Rc bit
below it (PPUInterpreter.cpp:132), so a mask end other than 0 is read doubled, and
shift the 64-bit register, so its upper word comes down; amounts of 32 to 63, which
should give 0, are taken modulo 32 (PPUInterpreter.cpp:353).

**SPU.**  `ParallelIsSequential` holds because each core is touched by one thread, and
the caller by joining keeps everybody else away; when a thread cannot be created
after others were, the process is terminated, which `SPUCores` allows.  `CallsReturn`
holds for cores that never halt, because the budget counts passes and not instructions: a PC
outside the store executes nothing, for ever.  `FetchesStayInStore` fails: `executeInstruction` tests the PC
against the 256 KB of a full store (SPUInterpreter.cpp:115), also when `init` fell back to
64 KB, and copies the instruction from beyond the vector; `loadWord` and `storeWord` test
the vector.  The displacement of a branch is not sign-extended
(SPUInterpreter.cpp:259), so a branch never goes back; the model has it that way, and
no property asks for it.  What the model says of registers holds of the repository's own
test, too: `setRegister` after `init` (`tests/smoke.cpp:83`) dereferences null.
`executeAllSPUsParallel` has no caller in the repository.

**Pacer.**  `DropNeedsSlowFrame` and `RecoversInTime` say that the mean, which outlives every
change of the target, neither lowers the rate for no reason nor keeps it low.
`SteadyLoadSettles` is about loads that are clear of both limits.  `EveryLoadSettles` is about
all of them and fails: 60 is restored below 20 ms and given up above 18, so a load
between them changes the rate in every frame, although the comment says "consistently"
(FramePacer.cpp:45).  A 30 that the user asks for is
overridden by the next fast frame; a 120 that was given up comes back as 60; and a new
emulator, which every new surface makes, forgets what was asked for.
`AdvancedSettingsActivity` declares `nativeSetTargetFPS` and does not call it.

### Findings

Each of these configurations checks one sentence of the repository against the code.

* `memory_backing`: "Pre-allocates main RAM" (`docs/CPU_EMULATION.md:69`).  Main RAM
  is backed by 1 MB at most while accesses are checked against 256 MB.
* `memory_readback`: `if (readValue == testValue)` (`tests/smoke.cpp:39`).  A read below
  `MAIN_MEMORY_BASE` maps a chunk at 0 that hides the first megabyte of RAM.
* `app_game`: "Start frame loop after successful game load" (`MainActivity.kt:421`).
  Another teardown, or a lost surface followed by `onResume`, leaves the loop on an
  emulator that loaded nothing.
* `app_load`: "Stop emulation first" (`MainActivity.kt:334`).  The test is made at the
  click and not at the load.
* `MCPPUCarry`: "subfc (subtract from with carry)" (`PPUInterpreter.cpp:256`).  With the
  result in one of the operands, `subfc 5,3,5` from equal registers, the carry is 0.
* `MCSPUStore`: "Allocate local store with fallback to 64KB if 256KB fails"
  (`SPUInterpreter.cpp:19`).  The fetch still counts on 256 KB.
* `MCPacerSettles`: "try restore 60" when the mean is low "consistently"
  (`FramePacer.cpp:45`).  One mean is enough, also for the load that had just lowered the rate.

## 5. Proofs

Every safety property that a run finds to hold, but one, is a theorem of the module's specification
for every value of its constants, the abstract specifications `FlatMemory`, `RSXQueue`
and `SPUCores` included.  Each follows from an inductive invariant; the cases in which
that is more than the property itself say why the property holds.

**Memory** (`MemoryManager_proofs`).  `TypeOK` is inductive: its conjunct `BackingOK` lists
the only three lengths a vector can have, and the conjunct on `Flat!Extents` the only
base and size pairs; each operator of `MemoryRegions` has a lemma that it keeps a map
well formed.  The loader's and the interpreter's proofs use the same lemmas.

* `AccessNotTorn` follows from `TypeOK`: if the lowest region that covers `vaddr` covers
  the whole access, a lower one that covers a later byte would also cover `vaddr`.
* `RegionsNest`: `Nested`, which is `OverlapsNest` of a map, is inductive together with
  `TypeOK`: of the actions only `mapRegion` adds a region that is no chunk, and its
  test leaves that region around the old one.
* `RefinesFlatMemory`: each action maps to a step of `FlatMemory` or a stutter under
  `cell <- View(regions)`.  The lemmas `PutElsewhere`, `PutInside`, `ReplaceCells`,
  `BackedCells` and `OnDemandCells` say what a change of the map does to the view.

**Loader** (`ElfLoader_proofs`).  `LoaderInv` adds to the type that each recorded segment
is still held by a region at least as long (`MemoryInv`: no operation of the loader
unmaps, and what replaces a region is not shorter), and that the headers done so far are
recorded at the tail of `segments_` and visible (`ProgressInv`).  `NothingLoadedTwice`
follows because `mapRegion` refuses a base inside a held region; `ImageIsVisible` and
`PcOnlyToLoadedImage` because at the end of the table all headers are done;
`SelfReadInFile` is arithmetic with wrapping sums, and no invariant.

**Front end** (`AppLifecycle_proofs`).  `AppInv` says `Sound` of every activity's record
(one message of the current runnable while the loop runs, none otherwise, none stale,
and a game), types the loads, and adds what makes `DrawsOnLiveSurface` inductive: the
window of a living emulator is that of an instance whose surface exists, and a load
marked as running on the emulator runs on a living one.  `AppTypeCorrect`,
`OneChainPerActivity`, `LoopsHaveGames` and `SurfaceOutlivesRenderer` follow, for any
number of instances and loader threads.

**RSX** (`RSXProcessor_proofs`).  A buffer holds nothing but words; what makes it readable is
that the headers form a chain: from the read position each count leads to the next
header, and in the end to the write position.  That a queue of commands is so laid out
is the invariant behind `BufferIsQueue`; `PositionsInside` bounds both positions by the room
a capacity gives.  `OwnBufferAlwaysDrained` needs that what `submitCommand` reads back is
exactly the command it wrote, or nothing.  `ProcessorTyped` needs `RoomInv`:
`processCommands` is let in with room for all that is pending and keeps it.  `DrawStateFollows` is by induction on the
commands processed: each either sets a register or leaves it and its last writer alone,
which needs the four methods to be different numbers (`MethodAssumption`).

**Renderer** (`VulkanRenderer_proofs`).  After a successful attach the renderer has one of four
shapes: no swapchain; one and part of its framebuffers; all of them and no pool; a pool
whose command buffers are all there or all null.  Each creation that fails leaves one of
the first three, so only the last passes `drawFrame`'s guard (`GuardAlwaysSuffices`), and in
each the histories count what the members hold (`NothingEverLost`).
`SwapchainAlwaysHasMode` needs no shape: it is a part of `Good`, which
holds of unattached renderers as well: every path that sets the mode rebuilds or destroys.

**PPU** (`PPUInterpreter_proofs`).  `PPUInv` says that registers have their widths, that every
region can be read and written, and that handles only count up: a program ends before
they have counted past 32 bits, because `executeBlock` takes an `int`
(`left > 0 => nextMemoryHandle + left <= Word32`).  `PPUTyped` needs that a number made of
bits below position n is less than 2^n (`NumberBounded`), for the logical operations,
rotates and masks, and that the words of the program have legal fields (`PPUAssumption`).
`BlocksStayApart`: distinct handles are a megabyte apart, and the lowest address is not
below the end of main RAM.

**SPU** (`SPUManager_proofs`).  While the process lives, each core is as far as its thread:
where the caller found it, on its way by its own instructions, or at an end that a
sequential run can reach.  `ManagerTyped` and `ParallelRunsAreSequential` follow, for any
number of cores, stores and programs; the second maps the step in which the last thread
is joined, or the process ends, to the step of `SPUCores`.

**Pacer** (`FramePacer_proofs`).  `MeanExplained`, the mean is above 18 ms only if a frame
was, is needed because a drop looks at the mean, and `DropNeedsSlowFrame` speaks of
frames; `MeanBounded` (a mean of two numbers is not above both, rounding included) makes
it inductive.  `PacedExactly` goes by cases on the three ranges of the wait, with
`RoundedUp`.  `RateComesBack` rests on `MeanRecovers`: the mean is at most `Decay[calm]`, what is
left of the longest frame after as many frames as `calm` counts.

### Assumptions

TLC evaluates each in a run.  `GeometryAssumption`, `UndefAssumption`, `SegmentAssumption`,
`AccessAssumption`: chunks do not straddle the end of the address space, main RAM and
segments end below its last chunk.  `FileAssumption`: `p_filesz <= p_memsz`, headers are a
sequence.  `SyscallAssumption`: main RAM ends below `0x20000000`, as in `MemoryManager.h`.
`WidthAssumption`: `Power` is the table of powers of two, a register two words.
`PPUAssumption`: fields have the width that `getBits` gives them, an image is one segment.
`BufferAssumption`: a header's count can hold what the buffer can.  `MethodAssumption`,
`RendererAssumption` (mode 0, FIFO, is supported), `SPUAssumption` (a branch field is too
short to wrap the PC from inside the store) and `CrashAssumption` (a crash is not a core),
`ManagerAssumption`, `NoneAssumption`, `PacerAssumption`.  `RecoveryAssumption`
says of `RecoveryFrames` that the mean falls from the longest frame to 18 ms in so many
frames of a 60th of a second; it is arithmetic on constants and true of 64 frames and the
second of a fence's wait.  Nothing is assumed of a state.

### Recursion

The provers cannot instantiate the library's induction theorems.  Where a proof needs
induction on numbers it is made from a least counterexample (`LeastElement`,
`Induction`), on a set of numbers instead of a predicate, and the equation of a recursive
function is proved before it is used (`JoinsExists`, `DecayExists`).

### Only model-checked

* Liveness, for fairness and `ENABLED` are out of the prover's reach: `FramesKeepComing`,
  `LoadsAnswered`, `FramesRecover`, `CallsReturn` and `SteadyLoadSettles`.
* `ImplementsPowerPC`.  It is about the instances of the `ppu` run: that it holds depends on
  the encoding of each instruction (`Fields` against `Asm`) and on programs that fill
  their chunk and keep away from the negative displacements of `ld` and `std`.
* The seven violations: a counterexample is not a theorem.

## 6. Not modelled

* Rendering itself, file pickers, settings screens and the game library: I/O and
  layout over stored preferences.  `SettingsActivity` declares native methods for
  which the JNI layer has no function.
* The SVE2 recompiler: nothing calls it, and the code it fills in is a placeholder.  Of the
  RPCS3 bridge `runFrame` and `shutdown`: they call the library, which is not here.
* The PPU's JIT: it is created and initialised, and nothing compiles or executes a block
  through it (`getJIT` has no caller); LLVM is off in the Android build, and the
  machine code would be LLVM's.
* `Emulator::runFrame`, which the app never calls: its two blocks are `ExecuteInstruction`
  and `ExecuteAllSPUs`, their sequence is not modelled, since the SPUs do not
  reach the PPU's memory.
* `halted_` across loads (Emulator.cpp:127) and negative displacements of `ld` and `std`
  (PPUInterpreter.cpp:471): no text of the repository says what should happen, and
  the code does not do what every reader would expect.
* Data races between two loads inside one emulator, and the fields of a deleted
  emulator: they have no defined outcome; the model lets the thread go on with
  any answer.

## 7. Plan

What is left, in this order:

1. The parts of `ImplementsPowerPC` that depend on neither encodings nor regions: the
   comparison, the carry and the condition field against the sets and signs of `PowerPC`.
2. Stronger invariants of the front end: what a load that runs in a deleted emulator can
   still change.
3. Composition of `AppLifecycle` with `VulkanRenderer`: what is drawn when the
   instance that attached goes away.
