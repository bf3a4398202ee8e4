--------------------------- MODULE SyscallHandler ---------------------------
(***************************************************************************)
(* The LV2 and LV1 calls: what each answers in r3, and the one that keeps  *)
(* state, sys_memory_allocate, which hands out one megabyte per call.  The *)
(* interpreter makes the calls (PPUInterpreter!ExecuteSyscall).            *)
(***************************************************************************)
EXTENDS MemoryManager

CONSTANTS
    UserBase,     \* 0x20000000
    Word32,       \* 2^32: the range of the sums made in uint32_t
    UserMemory,   \* what sys_memory_get_user_memory_size answers
    Firmware      \* what lv1_get_version answers

ASSUME SyscallAssumption ==
    /\ Word32 \in Nat /\ 1 < Word32 /\ Word32 <= AddrLimit /\ Word32 % Chunk = 0
    /\ UserBase \in 0 .. (Word32 - 1) /\ UserBase % Chunk = 0
    /\ MainBase + MainSize <= UserBase
    /\ UserMemory \in Addr /\ Firmware \in Addr

VARIABLES
    nextMemoryHandle,  \* nextMemoryHandle_
    blocks             \* history: [addr, size, handle] of each allocation

SyscallInit == nextMemoryHandle = 1 /\ blocks = {}

\* ctx.returnValue, which becomes r3 whether the call is known or not.
Answer(call) ==
    CASE call \in {6, 82} -> 1            \* getpid, prx_load_module
      [] call = 205       -> UserMemory
      [] call = 513       -> Firmware     \* 512 + lv1_get_version
      [] OTHER            -> 0            \* success, and unhandled calls

IsAllocate(call) == call = 202

\* 0x20000000 + (nextMemoryHandle_ << 20), summed in uint32_t.
AllocAddr == (UserBase + nextMemoryHandle * Chunk) % Word32

\* Mutant: the handle is not advanced.
TakeSameBlock(size) ==
    /\ UNCHANGED nextMemoryHandle
    /\ blocks' = blocks \cup
           {[addr |-> AllocAddr, size |-> size, handle |-> nextMemoryHandle]}

TakeBlock(size) ==
    /\ nextMemoryHandle' = (nextMemoryHandle + 1) % Word32
    /\ blocks' = blocks \cup
           {[addr |-> AllocAddr, size |-> size, handle |-> nextMemoryHandle]}
-----------------------------------------------------------------------------
(***************************************************************************)
(* Properties.                                                             *)
(***************************************************************************)
\* The handles whose address has not wrapped past 2^32.
InUserSpace(b) == UserBase + b.handle * Chunk < Word32

BlockRange(b) == b.addr .. (b.addr + b.size - 1)

\* Blocks of at most a megabyte share no address with each other or with main
\* RAM, as long as the sum that makes their address does not wrap; and whatever
\* the guest has touched, their cells are unmapped or can be read and written.
BlocksApart ==
    \A b \in blocks : InUserSpace(b) /\ b.size <= Chunk =>
        /\ \A c \in blocks :
              c # b /\ InUserSpace(c) /\ c.size <= Chunk =>
                  BlockRange(b) \cap BlockRange(c) = {}
        /\ \A vaddr \in BlockRange(b) :
              /\ vaddr \notin MainBase .. (MainBase + MainSize - 1)
              /\ Mapped(regions, vaddr) =>
                    RW \subseteq regions[GetRegion(regions, vaddr)].flags
=============================================================================
