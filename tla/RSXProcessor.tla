---------------------------- MODULE RSXProcessor ----------------------------
(***************************************************************************)
(* RSXProcessor: the commands of a caller's buffer drive the draw state,   *)
(* one step for each that processCommands reads; submitCommand goes        *)
(* through a buffer of the processor's own.  One thread makes all calls,   *)
(* so nothing else happens while processCommands runs.                     *)
(***************************************************************************)
EXTENDS RSXCommandBuffer

CONSTANTS
    ClearColor, BlendFunc, BlendEquation, CullFace,  \* NV30_*, among Methods
    FrontAndBack,  \* 0x0404, the mode that turns culling off
    AlphaBase,     \* 2^8: the low byte of a colour word is its alpha
    SrcAlpha, OneMinusSrcAlpha, Add,  \* the blending the constructor selects
    RendererColor, \* the clear colour the renderer starts with
    Issued,        \* bound: the commands written to the caller's buffer
    Submitted,     \* bound: the commands passed to submitCommand
    MaxProcessed   \* bound: commands processed in a behaviour

\* The four methods are different numbers (RSXCommands.h).
ASSUME MethodAssumption ==
    /\ {ClearColor, BlendFunc, BlendEquation, CullFace} \subseteq Methods
    /\ LET method == <<ClearColor, BlendFunc, BlendEquation, CullFace>>
       IN  \A i, j \in 1 .. 4 : method[i] = method[j] => i = j
    /\ AlphaBase \in Nat \ {0} /\ MaxProcessed \in Nat
    /\ \A c \in Issued \cup Submitted : c.method \in Methods /\ c.data \in Data

VARIABLES
    own,         \* cmdBuffer_
    draw,        \* state_
    background,  \* the clear colour last given to the renderer
    processing,  \* processCommands is running
    processed    \* history: the commands it has read

procVars == <<buffer, cmd, own, draw, background, processing, processed>>

\* The colour drawClearScreen gives the renderer.
Rgb(color) == color \div AlphaBase

\* The fields of state_ that commands set, as the constructor leaves them.
InitialDraw ==
    [clearColor |-> AlphaBase - 1, blendSrc |-> SrcAlpha,
     blendDst |-> OneMinusSrcAlpha, blendEquation |-> Add, culling |-> TRUE]

ProcInit ==
    /\ Init
    /\ own = NewBuffer /\ draw = InitialDraw /\ background = RendererColor
    /\ processing = FALSE /\ processed = <<>>
-----------------------------------------------------------------------------
\* The handlers.  A command without the data it needs changes nothing, except
\* NV30_CLEAR_COLOR, for which no data means 0; the other methods only log.
Operand(c) == IF c.data = <<>> THEN 0 ELSE c.data[1]

\* Mutant: the second blend factor is taken from the first word.
HandleFirstWord(d, c) ==
    CASE c.method = ClearColor -> [d EXCEPT !.clearColor = Operand(c)]
      [] c.method = BlendFunc /\ Len(c.data) >= 2 ->
            [d EXCEPT !.blendSrc = c.data[1], !.blendDst = c.data[1]]
      [] c.method = BlendEquation /\ c.data # <<>> ->
            [d EXCEPT !.blendEquation = c.data[1]]
      [] c.method = CullFace /\ c.data # <<>> ->
            [d EXCEPT !.culling = (c.data[1] # FrontAndBack)]
      [] OTHER -> d

Handle(d, c) ==
    CASE c.method = ClearColor -> [d EXCEPT !.clearColor = Operand(c)]
      [] c.method = BlendFunc /\ Len(c.data) >= 2 ->
            [d EXCEPT !.blendSrc = c.data[1], !.blendDst = c.data[2]]
      [] c.method = BlendEquation /\ c.data # <<>> ->
            [d EXCEPT !.blendEquation = c.data[1]]
      [] c.method = CullFace /\ c.data # <<>> ->
            [d EXCEPT !.culling = (c.data[1] # FrontAndBack)]
      [] OTHER -> d

Background(bg, c) == IF c.method = ClearColor THEN Rgb(Operand(c)) ELSE bg

\* processCommands: readCommand until it returns false.
ProcessCommands ==
    /\ ~processing
    /\ Len(processed) + Len(Pending(buffer)) <= MaxProcessed
    /\ processing' = TRUE
    /\ UNCHANGED <<buffer, cmd, own, draw, background, processed>>

ProcessOne ==
    /\ processing
    /\ ReadCommand
    /\ draw' = Handle(draw, cmd')
    /\ background' = Background(background, cmd')
    /\ processed' = Append(processed, cmd')
    /\ UNCHANGED <<own, processing>>

ProcessingEnds ==
    /\ processing
    /\ ReadNothing
    /\ processing' = FALSE
    /\ UNCHANGED <<own, draw, background, processed>>

\* Mutant: a command is only read back if it is the oldest word of the buffer.
SubmitFirst(method, data) ==
    LET written == Written(own, method, data)
    IN  /\ ~processing /\ CanAllocate(own)
        /\ own' = IF own.next = 0 THEN AfterRead(written) ELSE written
        /\ UNCHANGED <<buffer, cmd, draw, background, processing, processed>>

\* The command is written and read back, and that is all.
SubmitCommand(method, data) ==
    LET written == Written(own, method, data)
    IN  /\ ~processing /\ CanAllocate(own)
        /\ own' = IF HasCommand(written) THEN AfterRead(written) ELSE written
        /\ UNCHANGED <<buffer, cmd, draw, background, processing, processed>>

DrawClearScreen(color) ==
    /\ ~processing
    /\ background' = Rgb(color)
    /\ UNCHANGED <<buffer, cmd, own, draw, processing, processed>>

ProcNext ==
    \/ /\ ~processing
       /\ \/ \E c \in Issued : WriteCommand(c.method, c.data)
          \/ PeekCommand \/ Clear
       /\ UNCHANGED <<own, draw, background, processing, processed>>
    \/ ProcessCommands \/ ProcessOne \/ ProcessingEnds
    \/ \E c \in Submitted : SubmitCommand(c.method, c.data)
    \/ \E color \in Words : DrawClearScreen(color)

ProcSpec == ProcInit /\ [][ProcNext]_procVars
-----------------------------------------------------------------------------
(***************************************************************************)
(* Properties.                                                             *)
(***************************************************************************)
Color  == Words \cup {0, AlphaBase - 1}
Factor == Words \cup {SrcAlpha, OneMinusSrcAlpha}

ProcTypeOK ==
    /\ BufferTypeOK
    /\ own.pos \in 0 .. Room /\ own.next \in 0 .. own.pos
    /\ draw \in [clearColor : Color, blendSrc : Factor, blendDst : Factor,
                 blendEquation : Words \cup {Add}, culling : BOOLEAN]
    /\ background \in {Rgb(color) : color \in Color} \cup {RendererColor}
    /\ processing \in BOOLEAN /\ Len(processed) <= MaxProcessed

\* The value of a register after a history of commands: what the last command
\* that sets it carries, or the value it started with.
LastValue(Sets(_), Value(_), initial) ==
    LET setting == {i \in DOMAIN processed : Sets(processed[i])}
    IN  IF setting = {} THEN initial
        ELSE Value(processed[CHOOSE i \in setting : \A j \in setting : j <= i])

\* Every register of the draw state holds what the last processed command that
\* carries enough data for it says, over any split of the commands into buffers
\* and calls; short commands leave it alone (RSXProcessor.cpp:41-97).
DrawStateIsLastWritten ==
    /\ draw.clearColor =
         LastValue(LAMBDA c : c.method = ClearColor, Operand, AlphaBase - 1)
    /\ <<draw.blendSrc, draw.blendDst>> =
         LastValue(LAMBDA c : c.method = BlendFunc /\ Len(c.data) > 1,
                   LAMBDA c : <<c.data[1], c.data[2]>>,
                   <<SrcAlpha, OneMinusSrcAlpha>>)
    /\ draw.blendEquation =
         LastValue(LAMBDA c : c.method = BlendEquation /\ Len(c.data) > 0,
                   LAMBDA c : c.data[1], Add)
    /\ draw.culling =
         LastValue(LAMBDA c : c.method = CullFace /\ Len(c.data) > 0,
                   LAMBDA c : c.data[1] # FrontAndBack, TRUE)

\* A submitted command never stays behind in the processor's buffer to be taken
\* for a later one, even when the buffer is full (RSXProcessor.cpp:106-113).  It
\* is not processed either: submitCommand reads it back and drops it.
OwnBufferDrained == own.next = own.pos
=============================================================================
